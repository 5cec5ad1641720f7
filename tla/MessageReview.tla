--------------------------- MODULE MessageReview ---------------------------
(***************************************************************************)
(* A message to sign: parser_message.c reads the upload into the static    *)
(* message_tx_obj of tx.c, the screens read that object and the upload's   *)
(* memory, and app_message_sign of actions.h signs the upload without its  *)
(* lengths.  The payload is                                                *)
(*    prefix_len (2 bytes) message_len (2 bytes) prefix domain message     *)
(* with little-endian lengths.                                             *)
(*                                                                         *)
(* The object is not cleared between messages and a field of length zero   *)
(* is not written, so what an earlier message left in it is state here.    *)
(* Its pointers are offsets from the start of the upload's memory, which   *)
(* is one memory (an upload that moves to flash is TxBuffer's subject).    *)
(* The screens read whatever the object points at, and that may be bytes   *)
(* of the present upload, of an earlier one, or behind the memory.         *)
(***************************************************************************)
EXTENDS Integers, Sequences

CONSTANTS
    Byte,       \* The byte values that occur.
    MemSize,    \* The bytes of the upload's memory that are modelled.
    Payloads,   \* The uploads a host sends, to this instruction or to another.
    Behinds     \* What may lie behind that memory, in reach of a uint16_t length.

\* The values of a uint16_t, below 2^16.
UInt16 == {n \in Nat : n < 65536}

MaxUInt16 == 65535

PARSER_MESSAGE_PREFIX_LEN == 2

PARSER_MESSAGE_MESSAGE_LEN == 2

HeaderLen == PARSER_MESSAGE_PREFIX_LEN + PARSER_MESSAGE_MESSAGE_LEN

\* ATX, PROPOSAL, BALLOT, HARE, POET, BEACON_FIRST_MSG, BEACON_FOLLOWUP_MSG.
Domain == {0, 1, 2, 3, 4, 10, 11}

ASSUME MemoryAssumption ==
    /\ 0 \in Byte /\ \A b \in Byte : b \in Nat /\ b < 256
    /\ MemSize \in UInt16 /\ MemSize > HeaderLen
    /\ \A payload \in Payloads : payload \in Seq(Byte) /\ Len(payload) <= MemSize
    /\ Behinds \subseteq [0 .. MaxUInt16 -> Byte]

VARIABLES
    mem,            \* The memory behind tx_get_buffer().
    len,            \* tx_get_buffer_length().
    pc,             \* The stage reached.
    offset,         \* ctx_parsed_tx.offset.
    prefix_len,     \* The two lengths read from the payload.
    message_len,
    obj,            \* message_tx_obj.
    signed          \* The bytes given to crypto_sign, once signed.

vars == <<mem, len, pc, offset, prefix_len, message_len, obj, signed>>

Bytes_t == [ptr : 0 .. MemSize, len : UInt16]

Object == [prefix : Bytes_t, domain : Byte, message : Bytes_t]

Stages == {"idle", "lengths", "prefix", "domain", "message", "end", "review", "refused", "signed"}

\* Types of the state; the cursor stays inside the memory.
TypeOK ==
    /\ mem \in [0 .. MemSize - 1 -> Byte]
    /\ len \in 0 .. MemSize
    /\ pc \in Stages
    /\ offset \in 0 .. MemSize
    /\ prefix_len \in UInt16
    /\ message_len \in UInt16
    /\ obj \in Object
    /\ signed \in Seq(Byte)

-----------------------------------------------------------------------------

NoBytes == [ptr |-> 0, len |-> 0]

ClearedObject == [prefix |-> NoBytes, domain |-> 0, message |-> NoBytes]

Init ==
    /\ mem = [k \in 0 .. MemSize - 1 |-> 0]
    /\ len = 0
    /\ pc = "idle"
    /\ offset = 0
    /\ prefix_len = 0
    /\ message_len = 0
    /\ obj = ClearedObject
    /\ signed = <<>>

\* An upload overwrites the start of the memory and leaves the rest.
Overwritten(payload) ==
    [k \in 0 .. MemSize - 1 |-> IF k < Len(payload) THEN payload[k + 1] ELSE mem[k]]

\* The last chunk of a message: tx_message_parse, on the object as it is.  Commands
\* come one at a time, and none while a review is on screen.
Receive(payload) ==
    /\ pc = "idle"
    /\ mem' = Overwritten(payload)
    /\ len' = Len(payload)
    /\ pc' = IF payload = <<>> THEN "refused" ELSE "lengths"
    /\ offset' = 0
    /\ UNCHANGED <<prefix_len, message_len, obj, signed>>

\* Another instruction uses the memory.
OtherUpload(payload) ==
    /\ pc = "idle"
    /\ mem' = Overwritten(payload)
    /\ len' = Len(payload)
    /\ UNCHANGED <<pc, offset, prefix_len, message_len, obj, signed>>

Restart ==
    /\ mem' = [k \in 0 .. MemSize - 1 |-> 0]
    /\ len' = 0
    /\ pc' = "idle"
    /\ offset' = 0
    /\ prefix_len' = 0
    /\ message_len' = 0
    /\ obj' = ClearedObject
    /\ signed' = <<>>

-----------------------------------------------------------------------------
\* parser_message_read.

Available(size) == offset + size <= len

Refuse == pc' = "refused"

readUInt16(at) == mem[at] + 256 * mem[at + 1]

ReadLengths ==
    /\ pc = "lengths"
    /\ IF Available(HeaderLen)
       THEN /\ prefix_len' = readUInt16(offset)
            /\ message_len' = readUInt16(offset + PARSER_MESSAGE_PREFIX_LEN)
            /\ offset' = offset + HeaderLen
            /\ pc' = "prefix"
       ELSE Refuse /\ offset' = len /\ UNCHANGED <<prefix_len, message_len>>
    /\ UNCHANGED <<mem, len, obj, signed>>

\* Mutants: the pointer is taken after the cursor has moved; the bytes need not be
\* there.
FieldAfter(at, size) == [ptr |-> at + size, len |-> size]

FitsAnyway(size) == TRUE

\* The field readFixedArray stores, before it checks that the bytes are there.
FieldAt(at, size) == [ptr |-> at, len |-> size]

\* The check before the cursor moves over it.
Fits(size) == Available(size)

ReadPrefix ==
    /\ pc = "prefix"
    /\ \/ /\ prefix_len = 0
          /\ pc' = "domain"
          /\ UNCHANGED <<offset, obj>>
       \/ /\ prefix_len > 0 /\ ~Available(1)
          /\ Refuse
          /\ UNCHANGED <<offset, obj>>
       \/ /\ prefix_len > 0 /\ Available(1)
          /\ obj' = [obj EXCEPT !.prefix = FieldAt(offset, prefix_len)]
          /\ IF Fits(prefix_len)
             THEN pc' = "domain" /\ offset' = offset + prefix_len
             ELSE Refuse /\ UNCHANGED offset
    /\ UNCHANGED <<mem, len, prefix_len, message_len, signed>>

\* _readDomain stores the byte, then looks at it.
ReadDomain ==
    /\ pc = "domain"
    /\ IF Available(1)
       THEN /\ obj' = [obj EXCEPT !.domain = mem[offset]]
            /\ offset' = offset + 1
            /\ pc' = IF mem[offset] \in Domain THEN "message" ELSE "refused"
       ELSE Refuse /\ UNCHANGED <<offset, obj>>
    /\ UNCHANGED <<mem, len, prefix_len, message_len, signed>>

ReadMessage ==
    /\ pc = "message"
    /\ \/ /\ message_len = 0
          /\ pc' = "end"
          /\ UNCHANGED <<offset, obj>>
       \/ /\ message_len > 0 /\ ~Available(1)
          /\ Refuse
          /\ UNCHANGED <<offset, obj>>
       \/ /\ message_len > 0 /\ Available(1)
          /\ obj' = [obj EXCEPT !.message = FieldAt(offset, message_len)]
          /\ IF Fits(message_len)
             THEN pc' = "end" /\ offset' = offset + message_len
             ELSE Refuse /\ UNCHANGED offset
    /\ UNCHANGED <<mem, len, prefix_len, message_len, signed>>

\* Mutant: bytes after the message are accepted.
ParsedEnough == offset <= len

\* Nothing may follow the message.
AllParsed == offset = len

ReadEnd ==
    /\ pc = "end"
    /\ pc' = IF AllParsed THEN "review" ELSE "refused"
    /\ UNCHANGED <<mem, len, offset, prefix_len, message_len, obj, signed>>

-----------------------------------------------------------------------------
\* The screens.  A text is the sequence of its characters' codes.

\* The bytes of a memory from a position on.
Slice(memory, at, size) == [k \in 1 .. size |-> memory[at + k - 1]]

IsPrintable(b) == 32 <= b /\ b <= 126

\* "Empty"
EmptyText == <<69, 109, 112, 116, 121>>

\* What the screen makes of a character: one that is not printable leaves no trace.
Glyph(b) == IF IsPrintable(b) THEN b ELSE 0

HexDigit(n) == IF n < 10 THEN 48 + n ELSE 87 + n

Hex(s) ==
    [k \in 1 .. 2 * Len(s) |->
        LET b == s[(k + 1) \div 2] IN HexDigit(IF k % 2 = 1 THEN b \div 16 ELSE b % 16)]

\* Mutants: the last character decides; the label does not tell the two forms apart.
lastPrintable(s) == IsPrintable(s[Len(s)])

hexLabelPlain(label) == <<label>>

allPrintable(s) == \A k \in 1 .. Len(s) : IsPrintable(s[k])

hexLabel(label) == <<label, "(hex)">>

formatOutput(label, s) ==
    CASE s = <<>> -> [key |-> <<label>>, val |-> EmptyText]
      [] s # <<>> /\ allPrintable(s) -> [key |-> <<label>>, val |-> [k \in 1 .. Len(s) |-> Glyph(s[k])]]
      [] OTHER -> [key |-> hexLabel(label), val |-> Hex(s)]

\* Mutant: a copied case keeps the name of the original.
printDomainCopied(val) ==
    CASE val = 0 -> "ATX" [] val = 1 -> "PROPOSAL" [] val = 2 -> "BALLOT" [] val = 3 -> "HARE"
      [] val = 4 -> "POET" [] val \in {10, 11} -> "BEACON FIRST MSG" [] OTHER -> "UNKNOWN"

printDomain(val) ==
    CASE val = 0 -> "ATX" [] val = 1 -> "PROPOSAL" [] val = 2 -> "BALLOT" [] val = 3 -> "HARE"
      [] val = 4 -> "POET" [] val = 10 -> "BEACON FIRST MSG" [] val = 11 -> "BEACON FOLLOWUP MSG"
      [] OTHER -> "UNKNOWN"

\* The bytes _formatOutput is given: those the object points at, whether or not the
\* present message has the field; <<>> stands for the text "Empty".
Shown(field, behind) ==
    [k \in 1 .. field.len |->
        LET at == field.ptr + k - 1 IN IF at < MemSize THEN mem[at] ELSE behind[at - MemSize]]

\* parser_message_getItem, for each of its four items.
ScreensOf(prefix, domain, message) ==
    <<[key |-> <<"Sign">>, val |-> "Message"], formatOutput("Prefix", prefix),
      [key |-> <<"Domain">>, val |-> printDomain(domain)], formatOutput("Msg", message)>>

Screens(behind) == ScreensOf(Shown(obj.prefix, behind), obj.domain, Shown(obj.message, behind))

-----------------------------------------------------------------------------
\* The user's answer.

\* The length is a uint16_t.
messageLength == (len - HeaderLen) % 65536

AppMessageSign ==
    /\ pc = "review"
    /\ signed' = Slice(mem, HeaderLen, messageLength)
    /\ pc' = "signed"
    /\ UNCHANGED <<mem, len, offset, prefix_len, message_len, obj>>

\* The refusal, the rejection or the signature is answered; the lengths were local.
Answer ==
    /\ pc \in {"refused", "review", "signed"}
    /\ pc' = "idle"
    /\ prefix_len' = 0
    /\ message_len' = 0
    /\ signed' = <<>>
    /\ UNCHANGED <<mem, len, offset, obj>>

Next ==
    \/ \E payload \in Payloads : Receive(payload) \/ OtherUpload(payload)
    \/ Restart
    \/ ReadLengths
    \/ ReadPrefix
    \/ ReadDomain
    \/ ReadMessage
    \/ ReadEnd
    \/ AppMessageSign
    \/ Answer

Spec == Init /\ [][Next]_vars

-----------------------------------------------------------------------------
\* Properties.

\* The format of the header comment, read declaratively.
WellFormed ==
    LET p == readUInt16(0)
        m == readUInt16(PARSER_MESSAGE_PREFIX_LEN)
    IN
    /\ len > HeaderLen
    /\ len = HeaderLen + p + 1 + m
    /\ mem[HeaderLen + p] \in Domain

\* The parser accepts the payloads of the format and no other, whatever the memory
\* holds after the upload (parser_message.c:136-159).
AcceptsTheFormat ==
    /\ pc \in {"review", "signed"} => WellFormed
    /\ pc = "refused" => ~WellFormed

\* What a screen shows of a field the payload has.
Kept(size, shown) == IF size = 0 THEN <<>> ELSE shown

\* Every byte that is signed is on screen, in the order of the screens, and a field
\* that has a length is signed as a whole: nothing of the upload but its lengths is
\* left out, nothing is added.  It does not say that all that is on screen is signed:
\* a field without a length may show what an earlier message left in the object
\* (EmptyShownAsEmpty), and nothing of that is signed (actions.h:92-97,
\* parser_message.c:136-204).
SignedIsOnScreen ==
    pc = "signed" =>
        \A behind \in Behinds :
            signed = Kept(prefix_len, Shown(obj.prefix, behind)) \o <<obj.domain>>
                        \o Kept(message_len, Shown(obj.message, behind))

\* The fields of a payload.
PrefixLen(payload) == payload[1] + 256 * payload[2]

MessageLen(payload) == payload[3] + 256 * payload[4]

PrefixOf(payload) == SubSeq(payload, HeaderLen + 1, HeaderLen + PrefixLen(payload))

DomainOf(payload) == payload[HeaderLen + PrefixLen(payload) + 1]

MessageOf(payload) == SubSeq(payload, HeaderLen + PrefixLen(payload) + 2, Len(payload))

HasFormat(payload) ==
    /\ Len(payload) > HeaderLen
    /\ Len(payload) = HeaderLen + PrefixLen(payload) + 1 + MessageLen(payload)
    /\ DomainOf(payload) \in Domain

\* The screens of a payload that is sent to a cleared object: what its owner expects.
ScreensOfPayload(payload) == ScreensOf(PrefixOf(payload), DomainOf(payload), MessageOf(payload))

\* The field of a message whose screen is that of another's: the same bytes, or none
\* although the object holds some of an earlier message, or no bytes and the word
\* "Empty".
Told(mine, theirs, field) ==
    \/ mine = theirs
    \/ mine = <<>> /\ field.len > 0
    \/ {mine, theirs} = {<<>>, EmptyText}

\* What the owner can tell from the screens of a message: one that looks as another
\* would has its domain and its fields, whether they are written as text or in
\* hexadecimal and with no character left out, but for a field of length zero.
\* That may look like any field an earlier message left in the object, and like the
\* word "Empty" (parser_message.c:26-50, 70-105, 136-204).
ScreensTellTheMessage ==
    pc = "review" =>
        LET payload == Slice(mem, 0, len) IN
        \A behind \in Behinds, other \in Payloads :
            HasFormat(other) /\ ScreensOfPayload(other) = Screens(behind) =>
                /\ Told(PrefixOf(payload), PrefixOf(other), obj.prefix)
                /\ DomainOf(payload) = DomainOf(other)
                /\ Told(MessageOf(payload), MessageOf(other), obj.message)

\* What tests/message_testcases.json says of a message without a prefix: its
\* screen reads "Empty" (and so for one without a message).
EmptyShownAsEmpty ==
    pc = "review" =>
        /\ prefix_len = 0 => obj.prefix.len = 0
        /\ message_len = 0 => obj.message.len = 0
=============================================================================
