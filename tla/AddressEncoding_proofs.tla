----------------------- MODULE AddressEncoding_proofs -----------------------
(***************************************************************************)
(* Proofs about AddressEncoding for every set of keys and requests, every  *)
(* limit of the input the assumption admits and every history of requests. *)
(***************************************************************************)
EXTENDS AddressEncoding, SequenceTheorems, TLAPS

-----------------------------------------------------------------------------
\* The encoder of numbers.

\* The two low bits and the six high bits that a shifted byte is made of.
LEMMA ShiftedParts ==
    ASSUME NEW b \in Byte
    PROVE  \E q \in 0 .. 3, r \in 0 .. 63 :
            b = 64 * q + r /\ (4 * b) % 256 = 4 * r /\ b \div 64 = q
<1>1. PICK q \in 0 .. 3, r \in 0 .. 63 : b = 64 * q + r
    <2>1. CASE b < 64
        <3>1. b = 64 * 0 + b /\ b \in 0 .. 63
            BY <2>1 DEF Byte
        <3> QED
            BY <3>1
    <2>2. CASE b >= 64 /\ b < 128
        <3>1. b = 64 * 1 + (b - 64) /\ b - 64 \in 0 .. 63
            BY <2>2 DEF Byte
        <3> QED
            BY <3>1
    <2>3. CASE b >= 128 /\ b < 192
        <3>1. b = 64 * 2 + (b - 128) /\ b - 128 \in 0 .. 63
            BY <2>3 DEF Byte
        <3> QED
            BY <3>1
    <2>4. CASE b >= 192
        <3>1. b = 64 * 3 + (b - 192) /\ b - 192 \in 0 .. 63
            BY <2>4 DEF Byte
        <3> QED
            BY <3>1
    <2> QED
        BY <2>1, <2>2, <2>3, <2>4 DEF Byte
<1>2. (4 * b) % 256 = 4 * r
    <2>1. 4 * b = 256 * q + 4 * r
        BY <1>1 DEF Byte
    <2> QED
        BY <2>1
<1>3. b \div 64 = q
    BY <1>1
<1> QED
    BY <1>1, <1>2, <1>3

\* A byte shifted by two bits, with what comes from the byte below, is a byte.
LEMMA ShiftedByte ==
    ASSUME NEW b \in Byte, NEW carry \in 0 .. 3
    PROVE  ((4 * b) % 256) + carry \in Byte
<1>1. PICK q \in 0 .. 3, r \in 0 .. 63 :
        b = 64 * q + r /\ (4 * b) % 256 = 4 * r /\ b \div 64 = q
    BY ShiftedParts
<1> QED
    BY <1>1 DEF Byte

\* The short encodings are bytes.
LEMMA ShiftedIsBytes ==
    ASSUME NEW v \in UInt64, NEW mode \in 0 .. 3, NEW count \in 1 .. 8
    PROVE  Shifted(v, mode, count) \in Seq(Byte) /\ Len(Shifted(v, mode, count)) = count
<1>1. ASSUME NEW k \in 1 .. count
      PROVE  ((4 * v[k]) % 256) + (IF k = 1 THEN mode ELSE v[k - 1] \div 64) \in Byte
    <2>1. v[k] \in Byte
        BY DEF UInt64
    <2>2. CASE k = 1
        BY <2>1, <2>2, ShiftedByte
    <2>3. CASE k # 1
        <3>1. v[k - 1] \in Byte
            BY <2>3 DEF UInt64
        <3>2. v[k - 1] \div 64 \in 0 .. 3
            BY <3>1 DEF Byte
        <3> QED
            BY <2>1, <2>3, <3>2, ShiftedByte
    <2> QED
        BY <2>2, <2>3
<1> QED
    BY <1>1 DEF Shifted

\* A number of more than 30 bits has a last byte, at the fourth place or above.
LEMMA LastByte ==
    ASSUME NEW v \in UInt64, ~LeavesTwoBits(v, 4)
    PROVE  \E n \in 4 .. 8 : v[n] # 0 /\ \A k \in n + 1 .. 8 : v[k] = 0
<1> DEFINE Last(n) == v[n] # 0 /\ \A k \in n + 1 .. 8 : v[k] = 0
<1>1. \E n \in 4 .. 8 : v[n] # 0
    BY DEF LeavesTwoBits, UInt64, Byte
<1>2. \E n \in 4 .. 8 : Last(n)
    <2>1. CASE v[8] # 0
        <3>1. Last(8)
            BY <2>1
        <3> QED
            BY <3>1
    <2>2. CASE v[8] = 0 /\ v[7] # 0
        <3>1. Last(7)
            BY <2>2
        <3> QED
            BY <3>1
    <2>3. CASE v[8] = 0 /\ v[7] = 0 /\ v[6] # 0
        <3>1. Last(6)
            BY <2>3
        <3> QED
            BY <3>1
    <2>4. CASE v[8] = 0 /\ v[7] = 0 /\ v[6] = 0 /\ v[5] # 0
        <3>1. Last(5)
            BY <2>4
        <3> QED
            BY <3>1
    <2>5. CASE v[8] = 0 /\ v[7] = 0 /\ v[6] = 0 /\ v[5] = 0 /\ v[4] # 0
        <3>1. Last(4)
            BY <2>5
        <3> QED
            BY <3>1
    <2> QED
        BY <1>1, <2>1, <2>2, <2>3, <2>4, <2>5
<1> QED
    BY <1>2

LEMMA NeededPlace ==
    ASSUME NEW v \in UInt64, ~LeavesTwoBits(v, 4)
    PROVE  Needed(v) \in 4 .. 8
<1> DEFINE Last(n) == v[n] # 0 /\ \A k \in n + 1 .. 8 : v[k] = 0
<1>1. PICK m \in 4 .. 8 : Last(m)
    BY LastByte
<1>2. ASSUME NEW n \in 1 .. 8, Last(n) PROVE n = m
    BY <1>1, <1>2
<1>3. Needed(v) \in 1 .. 8 /\ Last(Needed(v))
    BY <1>1 DEF Needed
<1> QED
    BY <1>1, <1>2, <1>3

\* An encoding has one to nine bytes.
LEMMA EncodingLength ==
    ASSUME NEW v \in UInt64
    PROVE  /\ scaleEncodeUint64(v) \in Seq(Byte)
           /\ Len(scaleEncodeUint64(v)) \in 1 .. 9
<1>1. CASE LeavesTwoBits(v, 4)
    <2>1. /\ Shifted(v, 0, 1) \in Seq(Byte) /\ Len(Shifted(v, 0, 1)) = 1
          /\ Shifted(v, 1, 2) \in Seq(Byte) /\ Len(Shifted(v, 1, 2)) = 2
          /\ Shifted(v, 2, 4) \in Seq(Byte) /\ Len(Shifted(v, 2, 4)) = 4
        BY ShiftedIsBytes
    <2> QED
        BY <1>1, <2>1
        DEF scaleEncodeUint64, scaleEncodeUint8, scaleEncodeUint16, scaleEncodeUint32
<1>2. CASE ~LeavesTwoBits(v, 4)
    <2>1. Needed(v) \in 4 .. 8
        BY <1>2, NeededPlace
    <2>2. \A k \in 1 .. Needed(v) : v[k] \in Byte
        BY <2>1 DEF UInt64
    <2>3. SubSeq(v, 1, Needed(v)) \in Seq(Byte) /\ Len(SubSeq(v, 1, Needed(v))) = Needed(v)
        <3> DEFINE n == Needed(v)
        <3>1. n \in Int /\ 1 <= n /\ \A k \in 1 .. n : v[k] \in Byte
            BY <2>1, <2>2
        <3> HIDE DEF n
        <3>2. SubSeq(v, 1, n) \in Seq(Byte) /\ Len(SubSeq(v, 1, n)) = n
            BY <3>1, SubSeqProperties
        <3> QED
            BY <3>2 DEF n
    <2>4. 4 * (Needed(v) - 4) + 3 \in Byte
        BY <2>1 DEF Byte
    <2>5. /\ scaleEncodeBigUint(v) \in Seq(Byte)
          /\ Len(scaleEncodeBigUint(v)) = Needed(v) + 1
        BY <2>1, <2>3, <2>4 DEF scaleEncodeBigUint
    <2>6. CASE LeavesTwoBits(v, 1)
        <3>1. Shifted(v, 0, 1) \in Seq(Byte) /\ Len(Shifted(v, 0, 1)) = 1
            BY ShiftedIsBytes
        <3> QED
            BY <2>6, <3>1 DEF scaleEncodeUint64, scaleEncodeUint8
    <2>7. CASE ~LeavesTwoBits(v, 1) /\ LeavesTwoBits(v, 2)
        <3>1. Shifted(v, 1, 2) \in Seq(Byte) /\ Len(Shifted(v, 1, 2)) = 2
            BY ShiftedIsBytes
        <3> QED
            BY <2>7, <3>1 DEF scaleEncodeUint64, scaleEncodeUint16
    <2>8. CASE ~LeavesTwoBits(v, 1) /\ ~LeavesTwoBits(v, 2)
        <3>1. scaleEncodeUint64(v) = scaleEncodeBigUint(v)
            BY <1>2, <2>8 DEF scaleEncodeUint64
        <3>2. Needed(v) + 1 \in 1 .. 9
            BY <2>1
        <3> QED
            BY <2>5, <3>1, <3>2
    <2> QED
        BY <2>6, <2>7, <2>8
<1> QED
    BY <1>1, <1>2

-----------------------------------------------------------------------------
\* The pieces.

LEMMA PieceTypes ==
    /\ \A type \in AccountType : template(type) \in PlainPiece
    /\ \A pubkey \in Pubkey : key(pubkey) \in PlainPiece
    /\ \A b \in Byte : byte(b) \in PlainPiece
    /\ \A a \in Seq(PlainPiece) : address(a) \in Piece
    /\ PlainPiece \subseteq Piece
BY DEF template, key, byte, address, PlainPiece, Piece

LEMMA PlainSequences == \A s \in Seq(PlainPiece) : s \in Seq(Piece)
<1> SUFFICES ASSUME NEW s \in Seq(PlainPiece) PROVE s \in Seq(Piece)
    OBVIOUS
<1> QED
    BY PieceTypes

\* The bytes of an encoding as pieces.
LEMMA BytePieces ==
    ASSUME NEW s \in Seq(Byte)
    PROVE  bytes(s) \in Seq(PlainPiece) /\ Len(bytes(s)) = Len(s)
BY PieceTypes DEF bytes

\* Four times a byte, modulo 256, is a byte.
LEMMA ScaledByte == \A b \in Byte : (4 * b) % 256 \in Byte
BY DEF Byte

\* What is hashed of an account: before its keys, and of its first keys.
Header(type, r) ==
    <<template(type), byte((4 * r.approvers) % 256), byte((4 * participants(r)) % 256)>>

KeyPieces(r, n) == [k \in 1 .. n |-> key(r.keys[k])]

LEMMA AccountInputParts ==
    \A type, r : AccountInput(type, r) = Header(type, r) \o KeyPieces(r, participants(r))
BY DEF AccountInput, Header, KeyPieces

LEMMA RequestTypes ==
    ASSUME NEW r \in Requests
    PROVE  /\ r.type \in AccountType /\ r.internal \in Pubkey /\ r.approvers \in Byte
           /\ r.keys \in Seq(Pubkey) /\ participants(r) \in Byte
           /\ participants(r) = Len(r.keys)
           /\ \A k \in 1 .. 4 : r.numbers[k] \in UInt64
BY EncodingAssumption DEF Request, participants

LEMMA HeaderType ==
    ASSUME NEW r \in Requests, NEW type \in AccountType
    PROVE  Header(type, r) \in Seq(PlainPiece) /\ Len(Header(type, r)) = 3
<1>1. byte((4 * r.approvers) % 256) \in PlainPiece /\ byte((4 * participants(r)) % 256) \in PlainPiece
    BY RequestTypes, ScaledByte, PieceTypes
<1>2. template(type) \in PlainPiece
    BY PieceTypes
<1> QED
    BY <1>1, <1>2 DEF Header

LEMMA KeyPiecesType ==
    ASSUME NEW r \in Requests, NEW n \in Nat, n <= participants(r)
    PROVE  KeyPieces(r, n) \in Seq(PlainPiece) /\ Len(KeyPieces(r, n)) = n
<1>1. ASSUME NEW k \in 1 .. n PROVE key(r.keys[k]) \in PlainPiece
    <2>1. k \in 1 .. Len(r.keys)
        BY RequestTypes
    <2>2. r.keys[k] \in Pubkey
        BY <2>1, RequestTypes, ElementOfSeq
    <2> QED
        BY <2>2, PieceTypes
<1> QED
    BY <1>1 DEF KeyPieces

\* One more key.
LEMMA NextKeyPiece ==
    ASSUME NEW r \in Requests, NEW n \in Nat, n < participants(r)
    PROVE  KeyPieces(r, n) \o <<key(r.keys[n + 1])>> = KeyPieces(r, n + 1)
<1> DEFINE front == KeyPieces(r, n)
           last == <<key(r.keys[n + 1])>>
           all == KeyPieces(r, n + 1)
<1>1. participants(r) \in Nat
    BY RequestTypes DEF Byte
<1>2. front \in Seq(PlainPiece) /\ Len(front) = n
    BY <1>1, KeyPiecesType
<1>3. all \in Seq(PlainPiece) /\ Len(all) = n + 1
    BY <1>1, KeyPiecesType
<1>4. last \in Seq(PlainPiece) /\ Len(last) = 1
    <2>1. n + 1 \in 1 .. Len(r.keys)
        BY <1>1, RequestTypes
    <2>2. key(r.keys[n + 1]) \in PlainPiece
        BY <2>1, RequestTypes, ElementOfSeq, PieceTypes
    <2> QED
        BY <2>2
<1>5. ASSUME NEW k \in 1 .. n + 1
      PROVE  all[k] = IF k <= n THEN front[k] ELSE last[k - n]
    BY DEF KeyPieces
<1> HIDE DEF front, last, all
<1>6. /\ front \o last \in Seq(PlainPiece)
      /\ Len(front \o last) = Len(front) + Len(last)
      /\ \A k \in 1 .. Len(front) + Len(last) :
            (front \o last)[k] = IF k <= Len(front) THEN front[k] ELSE last[k - Len(front)]
    BY <1>2, <1>4, ConcatProperties
<1>7. Len(front \o last) = Len(all)
    BY <1>2, <1>3, <1>4, <1>6
<1>8. \A k \in 1 .. Len(all) : (front \o last)[k] = all[k]
    BY <1>2, <1>3, <1>4, <1>5, <1>6
<1>9. front \o last = all
    BY <1>3, <1>6, <1>7, <1>8, SeqEqual
<1> QED
    BY <1>9 DEF front, last, all

LEMMA AccountInputType ==
    ASSUME NEW r \in Requests, NEW type \in AccountType
    PROVE  AccountInput(type, r) \in Seq(PlainPiece)
<1>1. Header(type, r) \in Seq(PlainPiece)
    BY HeaderType
<1>2. KeyPieces(r, participants(r)) \in Seq(PlainPiece)
    BY RequestTypes, KeyPiecesType DEF Byte
<1>3. Header(type, r) \o KeyPieces(r, participants(r)) \in Seq(PlainPiece)
    BY <1>1, <1>2, ConcatProperties
<1> QED
    BY <1>3, AccountInputParts

\* What is hashed of a vault after its first numbers.
VaultHeader(r) == <<template("VAULT"), address(Address(AccountInput("VESTING", r)))>>

NumbersInput(r, n) ==
    CASE n = 0 -> VaultHeader(r)
      [] n = 1 -> VaultHeader(r) \o Number(r, 1)
      [] n = 2 -> VaultHeader(r) \o Number(r, 1) \o Number(r, 2)
      [] n = 3 -> VaultHeader(r) \o Number(r, 1) \o Number(r, 2) \o Number(r, 3)
      [] n = 4 -> VaultHeader(r) \o Number(r, 1) \o Number(r, 2) \o Number(r, 3) \o Number(r, 4)

\* One more number.
LEMMA NextNumber ==
    ASSUME NEW r, NEW n \in 0 .. 3
    PROVE  NumbersInput(r, n) \o Number(r, n + 1) = NumbersInput(r, n + 1)
<1>1. CASE n = 0
    BY <1>1 DEF NumbersInput
<1>2. CASE n = 1
    BY <1>2 DEF NumbersInput
<1>3. CASE n = 2
    BY <1>3 DEF NumbersInput
<1>4. CASE n = 3
    BY <1>4 DEF NumbersInput
<1> QED
    BY <1>1, <1>2, <1>3, <1>4

\* A number read back from encNum: one to nine bytes, and itself where it fits.
LEMMA NumberReadBack ==
    ASSUME NEW v \in UInt64, NEW encNum \in ReadBack(scaleEncodeUint64(v))
    PROVE  /\ encNum \in Seq(Byte) /\ Len(encNum) \in 1 .. 9
           /\ Len(scaleEncodeUint64(v)) <= ENC_NUM_SIZE => encNum = scaleEncodeUint64(v)
<1> DEFINE enc == scaleEncodeUint64(v)
<1>1. enc \in Seq(Byte) /\ Len(enc) \in 1 .. 9
    BY EncodingLength
<1> HIDE DEF enc
<1>2. CASE encNum = enc
    BY <1>1, <1>2 DEF enc
<1>3. CASE encNum # enc
    <2>1. PICK stray \in StrayByte :
              encNum = [enc EXCEPT ![Len(enc)] = stray] /\ Len(enc) > ENC_NUM_SIZE
        BY <1>3 DEF ReadBack, enc
    <2>2. stray \in Byte
        BY EncodingAssumption
    <2>3. encNum \in Seq(Byte) /\ Len(encNum) = Len(enc)
        BY <1>1, <2>1, <2>2, ExceptSeq
    <2>4. Len(encNum) \in 1 .. 9
        BY <1>1, <2>3
    <2>5. ~(Len(enc) <= ENC_NUM_SIZE)
        <3>1. Len(enc) \in Nat /\ Len(enc) > 8
            BY <1>1, <2>1 DEF ENC_NUM_SIZE
        <3> QED
            BY <3>1 DEF ENC_NUM_SIZE
    <2> QED
        BY <2>3, <2>4, <2>5 DEF enc
<1> QED
    BY <1>2, <1>3

-----------------------------------------------------------------------------
\* The inductive invariant.

Active ==
    {"init", "template", "pubkey", "settings", "approvers", "participants", "keys", "vesting",
     "numbers", "finalize"}

\* What is encoded is the request or its owner; a vault has its owner's address.
EncodingInv ==
    /\ pc \in Active => encoding \in {request.type, FirstEncoding(request.type)}
    /\ pc \in Active /\ encoding = "VAULT" =>
        addressVesting = Address(AccountInput("VESTING", request))

Absorbed(in, inLen) == zxblake3 = in /\ accumInLen = inLen

Account == encoding \in {"MULTISIG", "VESTING"}

\* What the hasher has absorbed of the present request, stage by stage.
HasherInv ==
    /\ pc = "template" => Absorbed(<<>>, 0) /\ i = 0
    /\ pc = "pubkey" => encoding = "WALLET" /\ Absorbed(<<template("WALLET")>>, 24)
    /\ pc = "settings" => Account /\ Absorbed(<<template(encoding)>>, 24) /\ i = 0
    /\ pc = "approvers" => Account /\ Absorbed(<<template(encoding)>>, 24) /\ i = 0
    /\ pc = "participants" =>
        /\ Account /\ i = 0
        /\ Absorbed(<<template(encoding), byte((4 * request.approvers) % 256)>>, 25)
    /\ pc = "keys" =>
        /\ Account /\ i <= participants(request)
        /\ Absorbed(Header(encoding, request) \o KeyPieces(request, i), 26 + 32 * i)
    /\ pc \in {"approvers", "participants", "keys"} => SettingsAccepted(request)
    /\ pc = "vesting" => encoding = "VAULT" /\ Absorbed(<<template("VAULT")>>, 24) /\ i = 0
    /\ pc = "numbers" =>
        /\ encoding = "VAULT" /\ i <= 4 /\ accumInLen <= 48 + 9 * i
        /\ NumbersFit(request) => zxblake3 = NumbersInput(request, i)
    /\ pc = "finalize" =>
        /\ encoding = "WALLET" => zxblake3 = <<template("WALLET"), key(request.internal)>>
        /\ Account => zxblake3 = AccountInput(encoding, request)
        /\ encoding = "VAULT" /\ NumbersFit(request) => zxblake3 = NumbersInput(request, 4)

Outcome == AddressIsOfItsRequest /\ SoundRequestServed

IInv == TypeOK /\ EncodingInv /\ HasherInv /\ Outcome

LEMMA Sizes ==
    /\ ADDRESS_LENGTH = 24 /\ PUB_KEY_LENGTH = 32 /\ MAX_MULTISIG_PUB_KEY = 10
    /\ MAX_INPUT_LEN \in Nat /\ MAX_INPUT_LEN >= 346
BY InputAssumption DEF ADDRESS_LENGTH, PUB_KEY_LENGTH, MAX_MULTISIG_PUB_KEY

\* Input within the longest account's is absorbed.
LEMMA Absorbs ==
    ASSUME NEW in, NEW inLen \in Nat \ {0}, NEW next,
           accumInLen \in Nat, accumInLen + inLen <= 346, Update(in, inLen, next)
    PROVE  /\ pc' = next
           /\ zxblake3' = zxblake3 \o in
           /\ accumInLen' = accumInLen + inLen
           /\ accumInLen' \in 0 .. MAX_INPUT_LEN
<1>1. accumInLen + inLen <= MAX_INPUT_LEN
    BY Sizes
<1>2. Accepts(inLen)
    BY <1>1 DEF Accepts
<1>3. hash_update(in, inLen) /\ pc' = next
    BY <1>2 DEF Update, hash_update_refused
<1> QED
    BY <1>1, <1>3 DEF hash_update

\* What is absorbed is a sequence of pieces.
LEMMA AbsorbsPieces ==
    ASSUME NEW s \in Seq(Piece), NEW piece \in Piece
    PROVE  s \o <<piece>> \in Seq(Piece)
<1>1. <<piece>> \in Seq(Piece)
    OBVIOUS
<1> QED
    BY <1>1, ConcatProperties

LEMMA PairOfPieces ==
    ASSUME NEW a \in Piece, NEW b \in Piece
    PROVE  <<a>> \o <<b>> = <<a, b>>
<1>1. <<a>> \in Seq(Piece) /\ <<b>> \in Seq(Piece) /\ <<a, b>> \in Seq(Piece)
    OBVIOUS
<1>2. Len(<<a>>) = 1 /\ Len(<<b>>) = 1 /\ Len(<<a, b>>) = 2
    OBVIOUS
<1>3. /\ <<a>> \o <<b>> \in Seq(Piece)
      /\ Len(<<a>> \o <<b>>) = 1 + 1
      /\ \A k \in 1 .. 1 + 1 : (<<a>> \o <<b>>)[k] = IF k <= 1 THEN <<a>>[k] ELSE <<b>>[k - 1]
    BY <1>1, <1>2, ConcatProperties
<1> DEFINE joined == <<a>> \o <<b>>
           pair == <<a, b>>
<1>4. \A k \in 1 .. Len(joined) : joined[k] = pair[k]
    BY <1>3
<1>5. joined \in Seq(Piece) /\ pair \in Seq(Piece) /\ Len(joined) = Len(pair)
    BY <1>1, <1>2, <1>3
<1> HIDE DEF joined, pair
<1>6. joined = pair
    BY <1>4, <1>5, SeqEqual
<1> QED
    BY <1>6 DEF joined, pair

LEMMA TripleOfPieces ==
    ASSUME NEW a \in Piece, NEW b \in Piece, NEW c \in Piece
    PROVE  <<a, b>> \o <<c>> = <<a, b, c>>
<1>1. <<a, b>> \in Seq(Piece) /\ <<c>> \in Seq(Piece) /\ <<a, b, c>> \in Seq(Piece)
    OBVIOUS
<1>2. Len(<<a, b>>) = 2 /\ Len(<<c>>) = 1 /\ Len(<<a, b, c>>) = 3
    OBVIOUS
<1>3. /\ <<a, b>> \o <<c>> \in Seq(Piece)
      /\ Len(<<a, b>> \o <<c>>) = 2 + 1
      /\ \A k \in 1 .. 2 + 1 :
            (<<a, b>> \o <<c>>)[k] = IF k <= 2 THEN <<a, b>>[k] ELSE <<c>>[k - 2]
    BY <1>1, <1>2, ConcatProperties
<1> DEFINE joined == <<a, b>> \o <<c>>
           triple == <<a, b, c>>
<1>4. \A k \in 1 .. Len(joined) : joined[k] = triple[k]
    BY <1>3
<1>5. joined \in Seq(Piece) /\ triple \in Seq(Piece) /\ Len(joined) = Len(triple)
    BY <1>1, <1>2, <1>3
<1> HIDE DEF joined, triple
<1>6. joined = triple
    BY <1>4, <1>5, SeqEqual
<1> QED
    BY <1>6 DEF joined, triple

LEMMA InitIInv == Init => IInv
<1> SUFFICES ASSUME Init PROVE IInv
    OBVIOUS
<1> USE DEF Init
<1>1. TypeOK
    BY Sizes DEF TypeOK, AccountType, Stages, NoAddress
<1>2. EncodingInv /\ HasherInv /\ Outcome
    BY DEF EncodingInv, HasherInv, Active, Outcome, AddressIsOfItsRequest, SoundRequestServed
<1> QED
    BY <1>1, <1>2 DEF IInv

-----------------------------------------------------------------------------
\* Each action preserves it.

LEMMA FillAddressStep == IInv /\ FillAddress => IInv'
<1> SUFFICES ASSUME IInv, FillAddress PROVE IInv'
    OBVIOUS
<1> USE DEF IInv, FillAddress, localVars, hasherVars
<1>1. TypeOK'
    BY DEF TypeOK, Stages
<1>2. EncodingInv' /\ HasherInv' /\ Outcome'
    BY DEF EncodingInv, HasherInv, Active, Outcome, AddressIsOfItsRequest, SoundRequestServed
<1> QED
    BY <1>1, <1>2

LEMMA ExtractPublicKeyStep == IInv /\ (ExtractPublicKeyFails \/ ExtractPublicKey) => IInv'
<1> SUFFICES ASSUME IInv, ExtractPublicKeyFails \/ ExtractPublicKey PROVE IInv'
    OBVIOUS
<1> USE DEF IInv, ExtractPublicKeyFails, ExtractPublicKey, localVars, hasherVars
<1>1. request \in Requests /\ request.type \in AccountType
    BY RequestTypes DEF TypeOK
<1>2. FirstEncoding(request.type) \in AccountType \ {"VAULT"}
    BY <1>1 DEF FirstEncoding, AccountType
<1>3. TypeOK'
    BY <1>1, <1>2 DEF TypeOK, Stages
<1>4. EncodingInv'
    BY <1>2 DEF EncodingInv, Active
<1>5. HasherInv' /\ Outcome'
    BY DEF HasherInv, Outcome, AddressIsOfItsRequest, SoundRequestServed
<1> QED
    BY <1>3, <1>4, <1>5

LEMMA HashInitStep == IInv /\ HashInit => IInv'
<1> SUFFICES ASSUME IInv, HashInit PROVE IInv'
    OBVIOUS
<1> USE DEF IInv, HashInit, hash_init
<1>1. TypeOK'
    BY Sizes DEF TypeOK, Stages
<1>2. EncodingInv'
    BY DEF EncodingInv, Active
<1>3. HasherInv' /\ Outcome'
    BY DEF HasherInv, Outcome, Absorbed, AddressIsOfItsRequest, SoundRequestServed
<1> QED
    BY <1>1, <1>2, <1>3

\* The template is the first input, and decides what comes next.
LEMMA HashTemplateStep == IInv /\ HashTemplate => IInv'
<1> SUFFICES ASSUME IInv, HashTemplate PROVE IInv'
    OBVIOUS
<1> USE DEF IInv, localVars
<1>1. /\ pc = "template" /\ i = 0 /\ zxblake3 = <<>> /\ accumInLen = 0
      /\ Update(<<template(encoding)>>, 24, AfterTemplate(encoding))
      /\ UNCHANGED <<request, encoding, i, addressVesting, response>>
    BY Sizes DEF HashTemplate, HasherInv, Absorbed
<1>2. encoding \in AccountType /\ template(encoding) \in Piece
    BY PieceTypes DEF TypeOK
<1>3. /\ pc' = AfterTemplate(encoding)
      /\ zxblake3' = <<>> \o <<template(encoding)>>
      /\ accumInLen' = 24 /\ accumInLen' \in 0 .. MAX_INPUT_LEN
    <2>1. pc' = AfterTemplate(encoding) /\ zxblake3' = zxblake3 \o <<template(encoding)>>
          /\ accumInLen' = accumInLen + 24 /\ accumInLen' \in 0 .. MAX_INPUT_LEN
        BY <1>1, Absorbs
    <2> QED
        BY <1>1, <2>1
<1>4. zxblake3' = <<template(encoding)>> /\ zxblake3' \in Seq(Piece)
    BY <1>2, <1>3
<1>a. \/ pc' = "pubkey" /\ encoding = "WALLET"
      \/ pc' = "settings" /\ Account
      \/ pc' = "vesting" /\ encoding = "VAULT"
    BY <1>2, <1>3 DEF AccountType, AfterTemplate, Account
<1>5. TypeOK'
    <2>1. pc' \in Stages /\ pc # "idle"
        BY <1>1, <1>a DEF Stages
    <2> QED
        BY <1>1, <1>2, <1>3, <1>4, <2>1 DEF TypeOK
<1>6. EncodingInv'
    <2>1. pc \in Active
        BY <1>1 DEF Active
    <2> QED
        BY <1>1, <2>1 DEF EncodingInv
<1>7. HasherInv'
    BY <1>1, <1>3, <1>4, <1>a DEF HasherInv, Absorbed, Account
<1>8. Outcome'
    BY <1>a DEF Outcome, AddressIsOfItsRequest, SoundRequestServed
<1> QED
    BY <1>5, <1>6, <1>7, <1>8

LEMMA HashWalletPubkeyStep == IInv /\ HashWalletPubkey => IInv'
<1> SUFFICES ASSUME IInv, HashWalletPubkey PROVE IInv'
    OBVIOUS
<1> USE DEF IInv, localVars
<1> DEFINE piece == key(request.internal)
<1>1. /\ pc = "pubkey" /\ encoding = "WALLET"
      /\ zxblake3 = <<template("WALLET")>> /\ accumInLen = 24
      /\ Update(<<piece>>, 32, "finalize")
      /\ UNCHANGED <<request, encoding, i, addressVesting, response>>
    BY Sizes DEF HashWalletPubkey, HasherInv, Absorbed
<1>2. piece \in Piece
    BY <1>1, RequestTypes, PieceTypes DEF TypeOK
<1>3. /\ pc' = "finalize" /\ zxblake3' = zxblake3 \o <<piece>>
      /\ accumInLen' \in 0 .. MAX_INPUT_LEN
    <2>1. accumInLen \in Nat /\ accumInLen + 32 <= 346
        BY <1>1
    <2>2. Update(<<piece>>, 32, "finalize") /\ 32 \in Nat \ {0}
        BY <1>1
    <2> HIDE DEF piece
    <2> QED
        BY <2>1, <2>2, Absorbs
<1>4. zxblake3' = <<template("WALLET"), piece>>
    BY <1>1, <1>2, <1>3, PieceTypes, PairOfPieces DEF AccountType
<1>5. zxblake3' \in Seq(Piece)
    BY <1>2, <1>3, AbsorbsPieces DEF TypeOK
<1>6. TypeOK'
    BY <1>1, <1>3, <1>5 DEF TypeOK, Stages
<1>7. EncodingInv'
    BY <1>1, <1>3 DEF EncodingInv, Active
<1>8. HasherInv'
    BY <1>1, <1>3, <1>4 DEF HasherInv, Account
<1>9. Outcome'
    BY <1>3 DEF Outcome, AddressIsOfItsRequest, SoundRequestServed
<1> QED
    BY <1>6, <1>7, <1>8, <1>9

\* A sound account passes the check of the settings.
LEMMA CheckSettingsStep == IInv /\ CheckSettings => IInv'
<1> SUFFICES ASSUME IInv, CheckSettings PROVE IInv'
    OBVIOUS
<1> USE DEF IInv, CheckSettings, localVars, hasherVars
<1>1. /\ request \in Requests /\ participants(request) \in Nat
      /\ request.approvers \in Nat /\ request.type \in AccountType
    <2>1. request \in Requests
        BY DEF TypeOK
    <2>2. \A b \in Byte : b \in Nat
        BY DEF Byte
    <2> QED
        BY <2>1, <2>2, RequestTypes
<1>2. TypeOK'
    BY <1>1 DEF TypeOK, Stages
<1>3. EncodingInv'
    BY DEF EncodingInv, Active
<1>4. HasherInv'
    BY DEF HasherInv, Absorbed, Account
<1>5. pc' = "refused" => request.type # "WALLET" /\ ~Sound(request)
    <2>1. ASSUME pc' = "refused" PROVE ~SettingsAccepted(request)
        BY <2>1
    <2>2. ~SettingsAccepted(request) => ~Sound(request)
        BY <1>1 DEF SettingsAccepted, Sound
    <2>3. request.type # "WALLET"
        BY <1>1 DEF EncodingInv, HasherInv, Account, Active, FirstEncoding
    <2> QED
        BY <2>1, <2>2, <2>3
<1>6. Outcome'
    BY <1>5 DEF Outcome, AddressIsOfItsRequest, SoundRequestServed
<1> QED
    BY <1>2, <1>3, <1>4, <1>6

LEMMA HashApproversStep == IInv /\ HashApprovers => IInv'
<1> SUFFICES ASSUME IInv, HashApprovers PROVE IInv'
    OBVIOUS
<1> USE DEF IInv, localVars
<1> DEFINE piece == byte((4 * request.approvers) % 256)
<1>1. /\ pc = "approvers" /\ Account /\ i = 0 /\ SettingsAccepted(request)
      /\ zxblake3 = <<template(encoding)>> /\ accumInLen = 24
      /\ UNCHANGED <<request, encoding, i, addressVesting, response>>
    BY DEF HashApprovers, HasherInv, Absorbed
<1>2. request \in Requests /\ encoding \in AccountType
    BY <1>1 DEF TypeOK
<1>3. piece \in Piece /\ template(encoding) \in Piece
    BY <1>2, RequestTypes, ScaledByte, PieceTypes
<1>4. /\ pc' = "participants" /\ zxblake3' = zxblake3 \o <<piece>>
      /\ accumInLen' = 25 /\ accumInLen' \in 0 .. MAX_INPUT_LEN
    <2>1. accumInLen \in Nat /\ accumInLen + 1 <= 346
        BY <1>1
    <2>2. Update(<<piece>>, 1, "participants") /\ 1 \in Nat \ {0}
        BY DEF HashApprovers
    <2> HIDE DEF piece
    <2>3. /\ pc' = "participants" /\ zxblake3' = zxblake3 \o <<piece>>
          /\ accumInLen' = accumInLen + 1 /\ accumInLen' \in 0 .. MAX_INPUT_LEN
        BY <2>1, <2>2, Absorbs
    <2> QED
        BY <1>1, <2>3
<1>5. zxblake3' = <<template(encoding), piece>>
    BY <1>1, <1>3, <1>4, PairOfPieces
<1>6. zxblake3' \in Seq(Piece)
    BY <1>3, <1>5
<1>7. TypeOK'
    BY <1>1, <1>4, <1>6 DEF TypeOK, Stages
<1>8. EncodingInv'
    BY <1>1, <1>4 DEF EncodingInv, Active
<1>9. HasherInv'
    BY <1>1, <1>4, <1>5 DEF HasherInv, Absorbed, Account
<1>10. Outcome'
    BY <1>4 DEF Outcome, AddressIsOfItsRequest, SoundRequestServed
<1> QED
    BY <1>7, <1>8, <1>9, <1>10

\* No key has been hashed yet.
LEMMA NoKeyPieces ==
    ASSUME NEW r \in Requests, NEW type \in AccountType
    PROVE  Header(type, r) \o KeyPieces(r, 0) = Header(type, r)
<1>1. Header(type, r) \in Seq(PlainPiece)
    BY HeaderType
<1>2. KeyPieces(r, 0) = <<>>
    BY DEF KeyPieces
<1> QED
    BY <1>1, <1>2, ConcatEmptySeq

LEMMA HashParticipantsStep == IInv /\ HashParticipants => IInv'
<1> SUFFICES ASSUME IInv, HashParticipants PROVE IInv'
    OBVIOUS
<1> USE DEF IInv, localVars
<1> DEFINE front == byte((4 * request.approvers) % 256)
           piece == byte((4 * participants(request)) % 256)
<1>1. /\ pc = "participants" /\ Account /\ i = 0 /\ SettingsAccepted(request)
      /\ zxblake3 = <<template(encoding), front>> /\ accumInLen = 25
      /\ UNCHANGED <<request, encoding, i, addressVesting, response>>
    BY DEF HashParticipants, HasherInv, Absorbed
<1>2. request \in Requests /\ encoding \in AccountType
    BY <1>1 DEF TypeOK
<1>3. piece \in Piece /\ front \in Piece /\ template(encoding) \in Piece
    BY <1>2, RequestTypes, ScaledByte, PieceTypes
<1>4. /\ pc' = "keys" /\ zxblake3' = zxblake3 \o <<piece>>
      /\ accumInLen' = 26 /\ accumInLen' \in 0 .. MAX_INPUT_LEN
    <2>1. accumInLen \in Nat /\ accumInLen + 1 <= 346
        BY <1>1
    <2>2. Update(<<piece>>, 1, "keys") /\ 1 \in Nat \ {0}
        BY DEF HashParticipants
    <2> HIDE DEF piece
    <2>3. /\ pc' = "keys" /\ zxblake3' = zxblake3 \o <<piece>>
          /\ accumInLen' = accumInLen + 1 /\ accumInLen' \in 0 .. MAX_INPUT_LEN
        BY <2>1, <2>2, Absorbs
    <2> QED
        BY <1>1, <2>3
<1>5. zxblake3' = <<template(encoding), front, piece>>
    <2> HIDE DEF front, piece
    <2> QED
        BY <1>1, <1>3, <1>4, TripleOfPieces
<1>6. zxblake3' = Header(encoding, request) \o KeyPieces(request, 0)
    BY <1>2, <1>5, NoKeyPieces DEF Header
<1>7. zxblake3' \in Seq(Piece)
    <2> HIDE DEF front, piece
    <2> QED
        BY <1>3, <1>5
<1>8. participants(request) \in Nat /\ 26 + 32 * i = 26
    BY <1>1, <1>2, RequestTypes DEF Byte
<1>9. TypeOK'
    BY <1>1, <1>4, <1>7 DEF TypeOK, Stages
<1>10. EncodingInv'
    BY <1>1, <1>4 DEF EncodingInv, Active
<1>11. HasherInv'
    <2>1. i' = 0 /\ accumInLen' = 26 + 32 * i' /\ i' <= participants(request)
        BY <1>1, <1>4, <1>8
    <2>2. zxblake3' = Header(encoding, request) \o KeyPieces(request, i')
        BY <1>6, <2>1
    <2> HIDE DEF front, piece
    <2> QED
        BY <1>1, <1>4, <2>1, <2>2 DEF HasherInv, Absorbed, Account
<1>12. Outcome'
    BY <1>4 DEF Outcome, AddressIsOfItsRequest, SoundRequestServed
<1> QED
    BY <1>9, <1>10, <1>11, <1>12

LEMMA HashKeyStep == IInv /\ HashKey => IInv'
<1> SUFFICES ASSUME IInv, HashKey PROVE IInv'
    OBVIOUS
<1> USE DEF IInv
<1> DEFINE piece == key(request.keys[i + 1])
           front == Header(encoding, request)
<1>1. /\ pc = "keys" /\ Account /\ i < participants(request) /\ SettingsAccepted(request)
      /\ zxblake3 = front \o KeyPieces(request, i) /\ accumInLen = 26 + 32 * i
      /\ i' = i + 1
      /\ UNCHANGED <<request, encoding, addressVesting, response>>
    BY DEF HashKey, HasherInv, Absorbed
<1>2. request \in Requests /\ encoding \in AccountType /\ i \in Nat
    BY <1>1 DEF TypeOK
<1>3. participants(request) \in Nat /\ participants(request) <= 10 /\ i <= 9
    BY <1>1, <1>2, RequestTypes, Sizes DEF SettingsAccepted, Byte
<1>4. piece \in PlainPiece
    <2>1. i + 1 \in 1 .. Len(request.keys)
        BY <1>1, <1>2, <1>3, RequestTypes
    <2>2. request.keys[i + 1] \in Pubkey
        BY <1>2, <2>1, RequestTypes, ElementOfSeq
    <2> QED
        BY <2>2, PieceTypes
<1>5. /\ pc' = "keys" /\ zxblake3' = zxblake3 \o <<piece>>
      /\ accumInLen' = 26 + 32 * (i + 1) /\ accumInLen' \in 0 .. MAX_INPUT_LEN
    <2>1. accumInLen \in Nat /\ accumInLen + 32 <= 346
        BY <1>1, <1>2, <1>3
    <2>2. Update(<<piece>>, 32, "keys") /\ 32 \in Nat \ {0}
        BY Sizes DEF HashKey
    <2> HIDE DEF piece
    <2>3. /\ pc' = "keys" /\ zxblake3' = zxblake3 \o <<piece>>
          /\ accumInLen' = accumInLen + 32 /\ accumInLen' \in 0 .. MAX_INPUT_LEN
        BY <2>1, <2>2, Absorbs
    <2> QED
        BY <1>1, <1>2, <2>3
<1>6. zxblake3' = front \o KeyPieces(request, i + 1)
    <2>1. /\ front \in Seq(PlainPiece) /\ KeyPieces(request, i) \in Seq(PlainPiece)
          /\ <<piece>> \in Seq(PlainPiece)
        BY <1>1, <1>2, <1>3, <1>4, HeaderType, KeyPiecesType
    <2>2. KeyPieces(request, i) \o <<piece>> = KeyPieces(request, i + 1)
        BY <1>1, <1>2, NextKeyPiece
    <2> HIDE DEF front, piece
    <2>3. (front \o KeyPieces(request, i)) \o <<piece>> = front \o (KeyPieces(request, i) \o <<piece>>)
        BY <2>1, ConcatAssociative
    <2> QED
        BY <1>1, <1>5, <2>2, <2>3
<1>7. zxblake3' \in Seq(Piece)
    BY <1>4, <1>5, PieceTypes, AbsorbsPieces DEF TypeOK
<1>8. TypeOK'
    <2>1. i' \in 0 .. MAX_MULTISIG_PUB_KEY
        BY <1>1, <1>2, <1>3, Sizes
    <2> QED
        BY <1>1, <1>5, <1>7, <2>1 DEF TypeOK, Stages
<1>9. EncodingInv'
    BY <1>1, <1>5 DEF EncodingInv, Active
<1>10. HasherInv'
    <2>1. i' <= participants(request)
        BY <1>1, <1>2, <1>3
    <2> QED
        BY <1>1, <1>5, <1>6, <2>1 DEF HasherInv, Absorbed, Account
<1>11. Outcome'
    BY <1>5 DEF Outcome, AddressIsOfItsRequest, SoundRequestServed
<1> QED
    BY <1>8, <1>9, <1>10, <1>11

LEMMA KeysDoneStep == IInv /\ KeysDone => IInv'
<1> SUFFICES ASSUME IInv, KeysDone PROVE IInv'
    OBVIOUS
<1> USE DEF IInv, KeysDone, localVars, hasherVars
<1>1. zxblake3 = AccountInput(encoding, request)
    BY AccountInputParts DEF HasherInv, Absorbed
<1>2. TypeOK'
    BY DEF TypeOK, Stages
<1>3. EncodingInv'
    BY DEF EncodingInv, Active
<1>4. HasherInv'
    BY <1>1 DEF HasherInv, Account
<1>5. Outcome'
    BY DEF Outcome, AddressIsOfItsRequest, SoundRequestServed
<1> QED
    BY <1>2, <1>3, <1>4, <1>5

LEMMA HashVestingAddressStep == IInv /\ HashVestingAddress => IInv'
<1> SUFFICES ASSUME IInv, HashVestingAddress PROVE IInv'
    OBVIOUS
<1> USE DEF IInv, localVars
<1> DEFINE piece == address(addressVesting)
<1>1. /\ pc = "vesting" /\ encoding = "VAULT" /\ i = 0
      /\ zxblake3 = <<template("VAULT")>> /\ accumInLen = 24
      /\ addressVesting = Address(AccountInput("VESTING", request))
      /\ UNCHANGED <<request, encoding, i, addressVesting, response>>
    BY DEF HashVestingAddress, HasherInv, EncodingInv, Active, Absorbed
<1>2. piece \in Piece /\ template("VAULT") \in Piece
    BY PieceTypes DEF TypeOK, AccountType
<1>3. /\ pc' = "numbers" /\ zxblake3' = zxblake3 \o <<piece>>
      /\ accumInLen' = 48 /\ accumInLen' \in 0 .. MAX_INPUT_LEN
    <2>1. accumInLen \in Nat /\ accumInLen + 24 <= 346
        BY <1>1
    <2>2. Update(<<piece>>, 24, "numbers") /\ 24 \in Nat \ {0}
        BY Sizes DEF HashVestingAddress
    <2> HIDE DEF piece
    <2>3. /\ pc' = "numbers" /\ zxblake3' = zxblake3 \o <<piece>>
          /\ accumInLen' = accumInLen + 24 /\ accumInLen' \in 0 .. MAX_INPUT_LEN
        BY <2>1, <2>2, Absorbs
    <2> QED
        BY <1>1, <2>3
<1>4. zxblake3' = <<template("VAULT"), piece>>
    <2> HIDE DEF piece
    <2> QED
        BY <1>1, <1>2, <1>3, PairOfPieces
<1>5. zxblake3' = NumbersInput(request, 0)
    BY <1>1, <1>4 DEF NumbersInput, VaultHeader
<1>6. zxblake3' \in Seq(Piece)
    BY <1>2, <1>4
<1>7. TypeOK'
    BY <1>1, <1>3, <1>6 DEF TypeOK, Stages
<1>8. EncodingInv'
    BY <1>1, <1>3 DEF EncodingInv, Active
<1>9. HasherInv'
    <2>1. i' = 0 /\ i' <= 4 /\ accumInLen' <= 48 + 9 * i' /\ zxblake3' = NumbersInput(request, i')
        BY <1>1, <1>3, <1>5
    <2> QED
        BY <1>1, <1>3, <2>1 DEF HasherInv, Account
<1>10. Outcome'
    BY <1>3 DEF Outcome, AddressIsOfItsRequest, SoundRequestServed
<1> QED
    BY <1>7, <1>8, <1>9, <1>10

\* Nine bytes more at most.
LEMMA NumberFitsInput ==
    ASSUME NEW n \in 0 .. 3, NEW absorbed \in Nat, NEW size \in 1 .. 9, absorbed <= 48 + 9 * n
    PROVE  /\ absorbed + size <= 346 /\ size \in Nat \ {0}
           /\ absorbed + size <= 48 + 9 * (n + 1)
OBVIOUS

LEMMA NumberStep == IInv /\ updateScaleEncodedNumber => IInv'
<1> SUFFICES ASSUME IInv, updateScaleEncodedNumber PROVE IInv'
    OBVIOUS
<1> USE DEF IInv
<1>1. /\ pc = "numbers" /\ encoding = "VAULT" /\ i < 4 /\ i' = i + 1
      /\ accumInLen <= 48 + 9 * i
      /\ NumbersFit(request) => zxblake3 = NumbersInput(request, i)
      /\ addressVesting = Address(AccountInput("VESTING", request))
      /\ UNCHANGED <<request, encoding, addressVesting, response>>
    BY DEF updateScaleEncodedNumber, HasherInv, EncodingInv, Active
<1>2. /\ request \in Requests /\ i \in 0 .. 3 /\ accumInLen \in Nat
      /\ zxblake3 \in Seq(Piece) /\ request.type = "VAULT"
    BY <1>1, Sizes DEF TypeOK, EncodingInv, Active, FirstEncoding
<1> DEFINE v == request.numbers[i + 1]
<1>3. v \in UInt64
    BY <1>2, RequestTypes
<1>4. PICK encNum \in ReadBack(scaleEncodeUint64(v)) :
          Update(bytes(encNum), Len(encNum), "numbers")
    BY DEF updateScaleEncodedNumber
<1>5. /\ encNum \in Seq(Byte) /\ Len(encNum) \in 1 .. 9
      /\ Len(scaleEncodeUint64(v)) <= ENC_NUM_SIZE => encNum = scaleEncodeUint64(v)
    BY <1>3, NumberReadBack
<1>6. /\ pc' = "numbers" /\ zxblake3' = zxblake3 \o bytes(encNum)
      /\ accumInLen' = accumInLen + Len(encNum) /\ accumInLen' \in 0 .. MAX_INPUT_LEN
    <2>1. accumInLen + Len(encNum) <= 346 /\ Len(encNum) \in Nat \ {0}
        BY <1>1, <1>2, <1>5, NumberFitsInput
    <2> QED
        BY <1>2, <1>4, <2>1, Absorbs
<1>7. zxblake3' \in Seq(Piece)
    <2>1. bytes(encNum) \in Seq(Piece)
        BY <1>5, BytePieces, PlainSequences
    <2> QED
        BY <1>2, <1>6, <2>1, ConcatProperties
<1>8. NumbersFit(request) => zxblake3' = NumbersInput(request, i + 1)
    <2> SUFFICES ASSUME NumbersFit(request) PROVE zxblake3' = NumbersInput(request, i + 1)
        OBVIOUS
    <2>1. i + 1 \in 1 .. 4
        BY <1>2
    <2>2. encNum = scaleEncodeUint64(v)
        BY <1>2, <1>5, <2>1 DEF NumbersFit
    <2>3. bytes(encNum) = Number(request, i + 1)
        BY <2>2 DEF Number
    <2>4. NumbersInput(request, i) \o Number(request, i + 1) = NumbersInput(request, i + 1)
        BY <1>2, NextNumber
    <2> QED
        BY <1>1, <1>6, <2>3, <2>4
<1>9. TypeOK'
    <2>1. i' \in 0 .. MAX_MULTISIG_PUB_KEY
        BY <1>1, <1>2, Sizes
    <2> QED
        BY <1>1, <1>6, <1>7, <2>1 DEF TypeOK, Stages
<1>10. EncodingInv'
    BY <1>1, <1>6 DEF EncodingInv, Active
<1>11. HasherInv'
    <2>1. i' <= 4 /\ accumInLen' <= 48 + 9 * i'
        <3>1. accumInLen + Len(encNum) <= 48 + 9 * (i + 1)
            BY <1>1, <1>2, <1>5, NumberFitsInput
        <3> QED
            BY <1>1, <1>2, <1>6, <3>1
    <2>2. NumbersFit(request) => zxblake3' = NumbersInput(request, i')
        BY <1>1, <1>8
    <2> QED
        BY <1>1, <1>6, <2>1, <2>2 DEF HasherInv, Account
<1>12. Outcome'
    BY <1>6 DEF Outcome, AddressIsOfItsRequest, SoundRequestServed
<1> QED
    BY <1>9, <1>10, <1>11, <1>12

LEMMA NumbersDoneStep == IInv /\ NumbersDone => IInv'
<1> SUFFICES ASSUME IInv, NumbersDone PROVE IInv'
    OBVIOUS
<1> USE DEF IInv, NumbersDone, localVars, hasherVars
<1>1. TypeOK'
    BY DEF TypeOK, Stages
<1>2. EncodingInv'
    BY DEF EncodingInv, Active
<1>3. HasherInv'
    BY DEF HasherInv, Account
<1>4. Outcome'
    BY DEF Outcome, AddressIsOfItsRequest, SoundRequestServed
<1> QED
    BY <1>1, <1>2, <1>3, <1>4

\* The owner's address is complete before the vault's hash begins.
LEMMA FinalizeOwnerStep == IInv /\ FinalizeOwner => IInv'
<1> SUFFICES ASSUME IInv, FinalizeOwner PROVE IInv'
    OBVIOUS
<1> USE DEF IInv, FinalizeOwner, StageAfterOwner
<1>1. request \in Requests /\ request.type \in AccountType
    BY RequestTypes DEF TypeOK
<1>2. request.type = "VAULT" /\ encoding = "VESTING"
    BY <1>1 DEF EncodingInv, Active, FirstEncoding
<1>3. addressVesting' = Address(AccountInput("VESTING", request))
    BY <1>2 DEF HasherInv, Account, hash_finalize
<1>4. addressVesting' \in Seq(PlainPiece)
    BY <1>1, <1>3, AccountInputType DEF AccountType, Address
<1>5. TypeOK'
    BY <1>4 DEF TypeOK, Stages, AccountType, hasherVars
<1>6. EncodingInv'
    BY <1>2, <1>3 DEF EncodingInv
<1>7. HasherInv'
    BY DEF HasherInv
<1>8. Outcome'
    BY DEF Outcome, AddressIsOfItsRequest, SoundRequestServed
<1> QED
    BY <1>5, <1>6, <1>7, <1>8

LEMMA FinalizeStep == IInv /\ Finalize => IInv'
<1> SUFFICES ASSUME IInv, Finalize PROVE IInv'
    OBVIOUS
<1> USE DEF IInv, localVars, hasherVars
<1>1. /\ pc = "finalize" /\ encoding = request.type /\ pc' = "done"
      /\ response' = [pubkey |-> request.internal, address |-> zxblake3]
      /\ UNCHANGED <<request, encoding, i, addressVesting, zxblake3, accumInLen>>
    BY DEF Finalize, hash_finalize, Address
<1>2. request \in Requests /\ encoding \in AccountType /\ request.internal \in Pubkey
    BY <1>1, RequestTypes DEF TypeOK
<1>3. NumbersFit(request) => zxblake3 = Input(request)
    <2>1. CASE encoding = "WALLET"
        BY <1>1, <2>1 DEF HasherInv, Input
    <2>2. CASE Account
        BY <1>1, <2>2 DEF HasherInv, Account, Input
    <2>3. CASE encoding = "VAULT"
        BY <1>1, <2>3 DEF HasherInv, Input, NumbersInput, VaultHeader
    <2> QED
        BY <1>2, <2>1, <2>2, <2>3 DEF AccountType, Account
<1>4. TypeOK'
    BY <1>1, <1>2 DEF TypeOK, Stages
<1>5. EncodingInv' /\ HasherInv'
    BY <1>1 DEF EncodingInv, HasherInv, Active
<1>6. Outcome'
    BY <1>1, <1>3 DEF Outcome, AddressIsOfItsRequest, SoundRequestServed, Address
<1> QED
    BY <1>4, <1>5, <1>6

LEMMA DismissStep == IInv /\ Dismiss => IInv'
<1> SUFFICES ASSUME IInv, Dismiss PROVE IInv'
    OBVIOUS
<1> USE DEF IInv, Dismiss, hasherVars
<1>1. TypeOK'
    BY Sizes DEF TypeOK, Stages, AccountType, NoAddress
<1>2. EncodingInv' /\ HasherInv' /\ Outcome'
    BY DEF EncodingInv, HasherInv, Active, Outcome, AddressIsOfItsRequest, SoundRequestServed
<1> QED
    BY <1>1, <1>2

LEMMA StutterStep == IInv /\ UNCHANGED vars => IInv'
<1> SUFFICES ASSUME IInv, UNCHANGED vars PROVE IInv'
    OBVIOUS
<1> USE DEF IInv, vars, localVars, hasherVars
<1>1. TypeOK'
    BY DEF TypeOK
<1>2. EncodingInv'
    BY DEF EncodingInv
<1>3. HasherInv'
    BY DEF HasherInv, Absorbed, Account
<1>4. Outcome'
    BY DEF Outcome, AddressIsOfItsRequest, SoundRequestServed
<1> QED
    BY <1>1, <1>2, <1>3, <1>4

-----------------------------------------------------------------------------
\* Encodings can be told apart.

\* The elements of two lists joined.
LEMMA Joined ==
    ASSUME NEW S, NEW front \in Seq(S), NEW back \in Seq(S)
    PROVE  /\ front \o back \in Seq(S) /\ Len(front \o back) = Len(front) + Len(back)
           /\ \A k \in 1 .. Len(front) + Len(back) :
                (front \o back)[k] = IF k <= Len(front) THEN front[k] ELSE back[k - Len(front)]
<1>1. front \o back \in Seq(S) /\ Len(front \o back) = Len(front) + Len(back)
    OBVIOUS
<1> QED
    BY <1>1, ConcatProperties

\* The bytes of a short encoding.
LEMMA ShiftedBytes ==
    ASSUME NEW v \in UInt64, NEW mode \in 0 .. 3, NEW count \in 1 .. 8
    PROVE  /\ Shifted(v, mode, count)[1] = ((4 * v[1]) % 256) + mode
           /\ \A k \in 2 .. count : Shifted(v, mode, count)[k] = ((4 * v[k]) % 256) + (v[k - 1] \div 64)
<1>1. \A k \in 1 .. count :
        Shifted(v, mode, count)[k] = ((4 * v[k]) % 256) + (IF k = 1 THEN mode ELSE v[k - 1] \div 64)
    BY DEF Shifted
<1> QED
    BY <1>1

\* What an encoding of one, two, four or more bytes says of its number.
OneByte(v, e) ==
    /\ Len(e) = 1 /\ e[1] = 4 * v[1] /\ v[1] < 64 /\ \A k \in 2 .. 8 : v[k] = 0

TwoBytes(v, e) ==
    /\ Len(e) = 2 /\ e[1] = ((4 * v[1]) % 256) + 1 /\ e[2] = ((4 * v[2]) % 256) + (v[1] \div 64)
    /\ v[2] < 64 /\ (\A k \in 3 .. 8 : v[k] = 0) /\ v[1] + 256 * v[2] >= 64

FourBytes(v, e) ==
    /\ Len(e) = 4 /\ e[1] = ((4 * v[1]) % 256) + 2
    /\ \A k \in 2 .. 4 : e[k] = ((4 * v[k]) % 256) + (v[k - 1] \div 64)
    /\ v[4] < 64 /\ (\A k \in 5 .. 8 : v[k] = 0)
    /\ v[1] + 256 * v[2] + 65536 * v[3] + 16777216 * v[4] >= 16384

ManyBytes(v, e) ==
    \E n \in 4 .. 8 :
        /\ Len(e) = n + 1 /\ e[1] = 4 * (n - 4) + 3
        /\ \A k \in 1 .. n : e[k + 1] = v[k]
        /\ v[n] # 0 /\ \A k \in n + 1 .. 8 : v[k] = 0

LEMMA EncodingForms ==
    ASSUME NEW v \in UInt64
    PROVE  LET e == scaleEncodeUint64(v) IN
           OneByte(v, e) \/ TwoBytes(v, e) \/ FourBytes(v, e) \/ ManyBytes(v, e)
<1> DEFINE e == scaleEncodeUint64(v)
<1>1. /\ v[1] \in Byte /\ v[2] \in Byte /\ v[3] \in Byte /\ v[4] \in Byte
      /\ v[5] \in Byte /\ v[6] \in Byte /\ v[7] \in Byte /\ v[8] \in Byte
    BY DEF UInt64
<1>2. CASE LeavesTwoBits(v, 1)
    <2>1. v[1] < 64 /\ \A k \in 2 .. 8 : v[k] = 0
        BY <1>2 DEF LeavesTwoBits
    <2>2. e = Shifted(v, 0, 1)
        BY <1>2 DEF scaleEncodeUint64, scaleEncodeUint8
    <2>3. Len(e) = 1 /\ e[1] = ((4 * v[1]) % 256) + 0
        BY <2>2, ShiftedIsBytes, ShiftedBytes
    <2>4. (4 * v[1]) % 256 = 4 * v[1]
        BY <1>1, <2>1 DEF Byte
    <2>5. OneByte(v, e)
        <3> HIDE DEF e
        <3> QED
            BY <1>1, <2>1, <2>3, <2>4 DEF OneByte, Byte
    <2> QED
        BY <2>5
<1>3. CASE ~LeavesTwoBits(v, 1) /\ LeavesTwoBits(v, 2)
    <2>1. v[2] < 64 /\ \A k \in 3 .. 8 : v[k] = 0
        BY <1>3 DEF LeavesTwoBits
    <2>2. v[1] + 256 * v[2] >= 64
        <3>1. ~(v[1] < 64 /\ v[2] = 0)
            <4> SUFFICES ASSUME v[1] < 64, v[2] = 0 PROVE FALSE
                OBVIOUS
            <4>1. \A k \in 2 .. 8 : k = 2 \/ k \in 3 .. 8
                OBVIOUS
            <4>2. \A k \in 2 .. 8 : v[k] = 0
                BY <2>1, <4>1
            <4> QED
                BY <1>3, <4>2 DEF LeavesTwoBits
        <3> DEFINE a == v[1]
                   b == v[2]
        <3>2. a \in Byte /\ b \in Byte /\ ~(a < 64 /\ b = 0)
            BY <1>1, <3>1
        <3> HIDE DEF a, b
        <3>3. a + 256 * b >= 64
            BY <3>2 DEF Byte
        <3> QED
            BY <3>3 DEF a, b
    <2>3. e = Shifted(v, 1, 2)
        BY <1>3 DEF scaleEncodeUint64, scaleEncodeUint16
    <2>4. Len(e) = 2 /\ e[1] = ((4 * v[1]) % 256) + 1 /\ e[2] = ((4 * v[2]) % 256) + (v[2 - 1] \div 64)
        BY <2>3, ShiftedIsBytes, ShiftedBytes
    <2>5. TwoBytes(v, e)
        <3> HIDE DEF e
        <3> QED
            BY <2>1, <2>2, <2>4 DEF TwoBytes
    <2> QED
        BY <2>5
<1>4. CASE ~LeavesTwoBits(v, 1) /\ ~LeavesTwoBits(v, 2) /\ LeavesTwoBits(v, 4)
    <2>1. v[4] < 64 /\ \A k \in 5 .. 8 : v[k] = 0
        BY <1>4 DEF LeavesTwoBits
    <2>2. v[1] + 256 * v[2] + 65536 * v[3] + 16777216 * v[4] >= 16384
        <3>1. ~(v[2] < 64 /\ v[3] = 0 /\ v[4] = 0)
            <4> SUFFICES ASSUME v[2] < 64, v[3] = 0, v[4] = 0 PROVE FALSE
                OBVIOUS
            <4>1. \A k \in 3 .. 8 : k = 3 \/ k = 4 \/ k \in 5 .. 8
                OBVIOUS
            <4>2. \A k \in 3 .. 8 : v[k] = 0
                BY <2>1, <4>1
            <4> QED
                BY <1>4, <4>2 DEF LeavesTwoBits
        <3> DEFINE a == v[1]
                   b == v[2]
                   c == v[3]
                   d == v[4]
        <3>2. /\ a \in Byte /\ b \in Byte /\ c \in Byte /\ d \in Byte
              /\ ~(b < 64 /\ c = 0 /\ d = 0)
            BY <1>1, <3>1
        <3> HIDE DEF a, b, c, d
        <3>3. a + 256 * b + 65536 * c + 16777216 * d >= 16384
            BY <3>2 DEF Byte
        <3> QED
            BY <3>3 DEF a, b, c, d
    <2>3. e = Shifted(v, 2, 4)
        BY <1>4 DEF scaleEncodeUint64, scaleEncodeUint32
    <2>4. /\ Len(e) = 4 /\ e[1] = ((4 * v[1]) % 256) + 2
          /\ \A k \in 2 .. 4 : e[k] = ((4 * v[k]) % 256) + (v[k - 1] \div 64)
        BY <2>3, ShiftedIsBytes, ShiftedBytes
    <2>5. FourBytes(v, e)
        <3> HIDE DEF e
        <3> QED
            BY <2>1, <2>2, <2>4 DEF FourBytes
    <2> QED
        BY <2>5
<1>5. CASE ~LeavesTwoBits(v, 1) /\ ~LeavesTwoBits(v, 2) /\ ~LeavesTwoBits(v, 4)
    <2> DEFINE n == Needed(v)
               low == SubSeq(v, 1, n)
               head == <<4 * (n - 4) + 3>>
    <2>1. n \in 4 .. 8
        BY <1>5, NeededPlace
    <2>2. v[n] # 0 /\ \A k \in n + 1 .. 8 : v[k] = 0
        <3>1. \E m \in 1 .. 8 : v[m] # 0 /\ \A k \in m + 1 .. 8 : v[k] = 0
            BY <1>5, LastByte
        <3> QED
            BY <3>1 DEF Needed
    <2>3. e = head \o low
        BY <1>5 DEF scaleEncodeUint64, scaleEncodeBigUint
    <2> HIDE DEF n
    <2>4. low \in Seq(Byte) /\ Len(low) = n /\ \A k \in 1 .. n : low[k] = v[k]
        <3>1. n \in Int /\ 1 <= n /\ \A k \in 1 .. n : v[k] \in Byte
            BY <2>1 DEF UInt64
        <3>2. low \in Seq(Byte) /\ Len(low) = n
            BY <3>1, SubSeqProperties
        <3>3. \A k \in 1 .. n : low[k] = v[1 + k - 1]
            BY <3>1, SubSeqProperties
        <3> QED
            BY <3>1, <3>2, <3>3
    <2>5. head \in Seq(Byte) /\ Len(head) = 1 /\ head[1] = 4 * (n - 4) + 3
        <3>1. 4 * (n - 4) + 3 \in Byte
            BY <2>1 DEF Byte
        <3> QED
            BY <3>1
    <2> HIDE DEF low, head, e
    <2>6. Len(e) = 1 + n /\ \A k \in 1 .. 1 + n : e[k] = IF k <= 1 THEN head[k] ELSE low[k - 1]
        <3>1. /\ Len(head \o low) = Len(head) + Len(low)
              /\ \A k \in 1 .. Len(head) + Len(low) :
                    (head \o low)[k] = IF k <= Len(head) THEN head[k] ELSE low[k - Len(head)]
            BY <2>4, <2>5, Joined
        <3> QED
            BY <2>3, <2>4, <2>5, <3>1
    <2>7. Len(e) = n + 1 /\ e[1] = 4 * (n - 4) + 3
        BY <2>1, <2>5, <2>6
    <2>8. ASSUME NEW k \in 1 .. n PROVE e[k + 1] = v[k]
        <3>1. k + 1 \in 1 .. 1 + n /\ ~(k + 1 <= 1) /\ k + 1 - 1 = k
            BY <2>1
        <3> QED
            BY <2>4, <2>6, <3>1
    <2>9. ManyBytes(v, e)
        BY <2>1, <2>2, <2>7, <2>8 DEF ManyBytes
    <2> QED
        BY <2>9 DEF e
<1> QED
    BY <1>2, <1>3, <1>4, <1>5

\* What a shifted byte was made of can be told from it, but for its two high bits.
LEMMA SameShifted ==
    ASSUME NEW b \in Byte, NEW c \in Byte, NEW p \in 0 .. 3, NEW q \in 0 .. 3,
           ((4 * b) % 256) + p = ((4 * c) % 256) + q
    PROVE  p = q /\ (b \div 64 = c \div 64 => b = c)
<1>1. PICK bq \in 0 .. 3, br \in 0 .. 63 :
        b = 64 * bq + br /\ (4 * b) % 256 = 4 * br /\ b \div 64 = bq
    BY ShiftedParts
<1>2. PICK cq \in 0 .. 3, cr \in 0 .. 63 :
        c = 64 * cq + cr /\ (4 * c) % 256 = 4 * cr /\ c \div 64 = cq
    BY ShiftedParts
<1>3. 4 * br + p = 4 * cr + q
    BY <1>1, <1>2
<1>4. br = cr /\ p = q
    BY <1>3
<1>5. b \div 64 = c \div 64 => bq = cq
    BY <1>1, <1>2
<1> QED
    BY <1>1, <1>2, <1>4, <1>5

\* The two low bits of a shifted byte.
LEMMA ModeOfShifted ==
    ASSUME NEW b \in Byte, NEW p \in 0 .. 3
    PROVE  (((4 * b) % 256) + p) % 4 = p
<1>1. PICK bq \in 0 .. 3, br \in 0 .. 63 :
        b = 64 * bq + br /\ (4 * b) % 256 = 4 * br /\ b \div 64 = bq
    BY ShiftedParts
<1> QED
    BY <1>1

\* Below 64 nothing is carried.
LEMMA CarryOfByte ==
    ASSUME NEW b \in Byte
    PROVE  b \div 64 \in 0 .. 3 /\ (b < 64 => b \div 64 = 0)
BY DEF Byte

LEMMA CompactLengths ==
    ASSUME NEW first \in Nat
    PROVE  /\ first % 4 = 0 => Reader!compactLen(first) = 1
           /\ first % 4 = 1 => Reader!compactLen(first) = 2
           /\ first % 4 = 2 => Reader!compactLen(first) = 4
           /\ first % 4 = 3 => Reader!compactLen(first) = (first \div 4) + 4 + 1
<1> DEFINE low == first % 4
<1>1. CASE low = 0
    BY <1>1 DEF Reader!compactLen
<1>2. CASE low = 1
    BY <1>2 DEF Reader!compactLen
<1>3. CASE low = 2
    BY <1>3 DEF Reader!compactLen
<1>4. CASE low = 3
    BY <1>4 DEF Reader!compactLen
<1> QED
    BY <1>1, <1>2, <1>3, <1>4

\* The first byte says how long an encoding is.
LEMMA FirstByteTellsLength ==
    ASSUME NEW v \in UInt64
    PROVE  Len(scaleEncodeUint64(v)) = Reader!compactLen(scaleEncodeUint64(v)[1])
<1> DEFINE e == scaleEncodeUint64(v)
           first == e[1]
<1> SUFFICES Len(e) = Reader!compactLen(first)
    OBVIOUS
<1>1. v[1] \in Byte
    BY DEF UInt64
<1>2. OneByte(v, e) \/ TwoBytes(v, e) \/ FourBytes(v, e) \/ ManyBytes(v, e)
    BY EncodingForms
<1>3. first \in Nat
    <2>1. e \in Seq(Byte) /\ Len(e) \in 1 .. 9
        BY EncodingLength
    <2> HIDE DEF e
    <2>2. e[1] \in Byte
        BY <2>1
    <2> QED
        BY <2>2 DEF Byte
<1> HIDE DEF e
<1>4. CASE OneByte(v, e)
    <2>1. Len(e) = 1 /\ first = 4 * v[1]
        BY <1>4 DEF OneByte
    <2>2. (4 * v[1]) % 4 = 0
        BY <1>1 DEF Byte
    <2> HIDE DEF first
    <2> QED
        BY <1>3, <2>1, <2>2, CompactLengths
<1>5. CASE TwoBytes(v, e)
    <2>1. Len(e) = 2 /\ first % 4 = 1
        BY <1>1, <1>5, ModeOfShifted DEF TwoBytes
    <2> HIDE DEF first
    <2> QED
        BY <1>3, <2>1, CompactLengths
<1>6. CASE FourBytes(v, e)
    <2>1. Len(e) = 4 /\ first % 4 = 2
        BY <1>1, <1>6, ModeOfShifted DEF FourBytes
    <2> HIDE DEF first
    <2> QED
        BY <1>3, <2>1, CompactLengths
<1>7. CASE ManyBytes(v, e)
    <2>1. PICK n \in 4 .. 8 : Len(e) = n + 1 /\ first = 4 * (n - 4) + 3
        BY <1>7 DEF ManyBytes
    <2> HIDE DEF first
    <2>2. first % 4 = 3 /\ (first \div 4) + 4 + 1 = n + 1
        BY <2>1
    <2> QED
        BY <1>3, <2>1, <2>2, CompactLengths
<1> QED
    BY <1>2, <1>4, <1>5, <1>6, <1>7

\* The length says which form an encoding has.
LEMMA FormOfLength ==
    ASSUME NEW v \in UInt64
    PROVE  LET e == scaleEncodeUint64(v) IN
           /\ Len(e) = 1 => OneByte(v, e)
           /\ Len(e) = 2 => TwoBytes(v, e)
           /\ Len(e) = 4 => FourBytes(v, e)
           /\ Len(e) \in {1, 2, 4} \/ ManyBytes(v, e)
<1> DEFINE e == scaleEncodeUint64(v)
<1>1. OneByte(v, e) \/ TwoBytes(v, e) \/ FourBytes(v, e) \/ ManyBytes(v, e)
    BY EncodingForms
<1> HIDE DEF e
<1>2. /\ OneByte(v, e) => Len(e) = 1
      /\ TwoBytes(v, e) => Len(e) = 2
      /\ FourBytes(v, e) => Len(e) = 4
      /\ ManyBytes(v, e) => Len(e) \in 5 .. 9
    BY DEF OneByte, TwoBytes, FourBytes, ManyBytes
<1>3. /\ Len(e) = 1 => OneByte(v, e)
      /\ Len(e) = 2 => TwoBytes(v, e)
      /\ Len(e) = 4 => FourBytes(v, e)
      /\ Len(e) \in {1, 2, 4} \/ ManyBytes(v, e)
    BY <1>1, <1>2
<1> QED
    BY <1>3 DEF e

\* Two numbers of 64 bits with the same bytes are the same.
LEMMA SameBytes ==
    ASSUME NEW u \in UInt64, NEW v \in UInt64, \A k \in 1 .. 8 : u[k] = v[k]
    PROVE  u = v
BY DEF UInt64

\* No two numbers have the same encoding.
LEMMA EncodingInjective ==
    ASSUME NEW u \in UInt64, NEW v \in UInt64, NEW e,
           e = scaleEncodeUint64(u), e = scaleEncodeUint64(v)
    PROVE  u = v
<1>1. /\ u[1] \in Byte /\ u[2] \in Byte /\ u[3] \in Byte /\ u[4] \in Byte
      /\ v[1] \in Byte /\ v[2] \in Byte /\ v[3] \in Byte /\ v[4] \in Byte
    BY DEF UInt64
<1>2. /\ Len(e) = 1 => OneByte(u, e) /\ OneByte(v, e)
      /\ Len(e) = 2 => TwoBytes(u, e) /\ TwoBytes(v, e)
      /\ Len(e) = 4 => FourBytes(u, e) /\ FourBytes(v, e)
      /\ Len(e) \in {1, 2, 4} \/ (ManyBytes(u, e) /\ ManyBytes(v, e))
    BY FormOfLength
<1>3. CASE Len(e) = 1
    <2>1. 4 * u[1] = 4 * v[1] /\ \A k \in 2 .. 8 : u[k] = v[k]
        BY <1>2, <1>3 DEF OneByte
    <2>2. u[1] = v[1]
        <3> DEFINE a == u[1]
                   b == v[1]
        <3>1. a \in Nat /\ b \in Nat /\ 4 * a = 4 * b
            BY <1>1, <2>1 DEF Byte
        <3> HIDE DEF a, b
        <3>2. a = b
            BY <3>1
        <3> QED
            BY <3>2 DEF a, b
    <2> QED
        BY <2>1, <2>2, SameBytes
<1>4. CASE Len(e) = 2
    <2>1. /\ ((4 * u[1]) % 256) + 1 = ((4 * v[1]) % 256) + 1
          /\ ((4 * u[2]) % 256) + (u[1] \div 64) = ((4 * v[2]) % 256) + (v[1] \div 64)
          /\ u[2] < 64 /\ v[2] < 64 /\ \A k \in 3 .. 8 : u[k] = v[k]
        BY <1>2, <1>4 DEF TwoBytes
    <2>2. u[1] \div 64 = v[1] \div 64 /\ u[2] = v[2]
        BY <1>1, <2>1, SameShifted, CarryOfByte
    <2>3. u[1] = v[1]
        BY <1>1, <2>1, <2>2, SameShifted
    <2>4. \A k \in 1 .. 8 : k = 1 \/ k = 2 \/ k \in 3 .. 8
        OBVIOUS
    <2> QED
        BY <2>1, <2>2, <2>3, <2>4, SameBytes
<1>5. CASE Len(e) = 4
    <2>1. /\ ((4 * u[1]) % 256) + 2 = ((4 * v[1]) % 256) + 2
          /\ \A k \in 2 .. 4 :
                ((4 * u[k]) % 256) + (u[k - 1] \div 64) = ((4 * v[k]) % 256) + (v[k - 1] \div 64)
          /\ u[4] < 64 /\ v[4] < 64 /\ \A k \in 5 .. 8 : u[k] = v[k]
        BY <1>2, <1>5 DEF FourBytes
    <2>2. /\ ((4 * u[2]) % 256) + (u[1] \div 64) = ((4 * v[2]) % 256) + (v[1] \div 64)
          /\ ((4 * u[3]) % 256) + (u[2] \div 64) = ((4 * v[3]) % 256) + (v[2] \div 64)
          /\ ((4 * u[4]) % 256) + (u[3] \div 64) = ((4 * v[4]) % 256) + (v[3] \div 64)
        <3>1. 2 \in 2 .. 4 /\ 3 \in 2 .. 4 /\ 4 \in 2 .. 4 /\ 2 - 1 = 1 /\ 3 - 1 = 2 /\ 4 - 1 = 3
            OBVIOUS
        <3> QED
            BY <2>1, <3>1
    <2>3. u[3] \div 64 = v[3] \div 64 /\ u[4] = v[4]
        BY <1>1, <2>1, <2>2, SameShifted, CarryOfByte
    <2>4. u[2] \div 64 = v[2] \div 64 /\ u[3] = v[3]
        BY <1>1, <2>2, <2>3, SameShifted, CarryOfByte
    <2>5. u[1] \div 64 = v[1] \div 64 /\ u[2] = v[2]
        BY <1>1, <2>2, <2>4, SameShifted, CarryOfByte
    <2>6. u[1] = v[1]
        BY <1>1, <2>1, <2>5, SameShifted
    <2>7. \A k \in 1 .. 8 : k = 1 \/ k = 2 \/ k = 3 \/ k = 4 \/ k \in 5 .. 8
        OBVIOUS
    <2> QED
        BY <2>1, <2>3, <2>4, <2>5, <2>6, <2>7, SameBytes
<1>6. CASE ManyBytes(u, e) /\ ManyBytes(v, e)
    <2>1. PICK n \in 4 .. 8 :
            /\ Len(e) = n + 1
            /\ \A k \in 1 .. n : e[k + 1] = u[k]
            /\ \A k \in n + 1 .. 8 : u[k] = 0
        BY <1>6 DEF ManyBytes
    <2>2. PICK m \in 4 .. 8 :
            /\ Len(e) = m + 1
            /\ \A k \in 1 .. m : e[k + 1] = v[k]
            /\ \A k \in m + 1 .. 8 : v[k] = 0
        BY <1>6 DEF ManyBytes
    <2>3. n = m
        BY <2>1, <2>2
    <2>4. \A k \in 1 .. 8 : k \in 1 .. n \/ k \in n + 1 .. 8
        OBVIOUS
    <2> QED
        BY <2>1, <2>2, <2>3, <2>4, SameBytes
<1> QED
    BY <1>2, <1>3, <1>4, <1>5, <1>6

\* An encoding fits encNum as long as the number has at most seven bytes.
LEMMA FitsSevenBytes ==
    ASSUME NEW v \in UInt64
    PROVE  Len(scaleEncodeUint64(v)) <= ENC_NUM_SIZE <=> v[8] = 0
<1> DEFINE e == scaleEncodeUint64(v)
<1>1. OneByte(v, e) \/ TwoBytes(v, e) \/ FourBytes(v, e) \/ ManyBytes(v, e)
    BY EncodingForms
<1> HIDE DEF e
<1>2. CASE OneByte(v, e) \/ TwoBytes(v, e) \/ FourBytes(v, e)
    <2> DEFINE size == Len(e)
    <2>1. v[8] = 0 /\ (size = 1 \/ size = 2 \/ size = 4)
        BY <1>2 DEF OneByte, TwoBytes, FourBytes
    <2> QED
        <3> HIDE DEF size
        <3>1. size <= 8
            BY <2>1
        <3> QED
            BY <2>1, <3>1 DEF ENC_NUM_SIZE, size, e
<1>3. CASE ManyBytes(v, e)
    <2>1. PICK n \in 4 .. 8 :
            Len(e) = n + 1 /\ v[n] # 0 /\ \A k \in n + 1 .. 8 : v[k] = 0
        BY <1>3 DEF ManyBytes
    <2>2. CASE n = 8
        <3>1. ~(Len(e) <= 8) /\ v[8] # 0
            BY <2>1, <2>2
        <3> QED
            BY <3>1 DEF ENC_NUM_SIZE, e
    <2>3. CASE n # 8
        <3>1. Len(e) <= 8 /\ v[8] = 0
            BY <2>1, <2>3
        <3> QED
            BY <3>1 DEF ENC_NUM_SIZE, e
    <2> QED
        BY <2>2, <2>3
<1> QED
    BY <1>1, <1>2, <1>3

-----------------------------------------------------------------------------
\* Inputs can be told apart.

\* Two joined lists that agree, agree in their parts if the first ones are as long.
LEMMA SameParts ==
    ASSUME NEW S, NEW a \in Seq(S), NEW b \in Seq(S), NEW s \in Seq(S), NEW t \in Seq(S),
           Len(a) = Len(b), a \o s = b \o t
    PROVE  a = b /\ s = t
<1>1. /\ Len(a) \in Nat /\ Len(b) \in Nat /\ Len(s) \in Nat /\ Len(t) \in Nat
    OBVIOUS
<1>2. /\ Len(a \o s) = Len(a) + Len(s)
      /\ \A k \in 1 .. Len(a) + Len(s) :
            (a \o s)[k] = IF k <= Len(a) THEN a[k] ELSE s[k - Len(a)]
    BY Joined
<1>3. /\ Len(b \o t) = Len(b) + Len(t)
      /\ \A k \in 1 .. Len(b) + Len(t) :
            (b \o t)[k] = IF k <= Len(b) THEN b[k] ELSE t[k - Len(b)]
    BY Joined
<1>4. Len(s) = Len(t)
    BY <1>1, <1>2, <1>3
<1>5. ASSUME NEW k \in 1 .. Len(a) PROVE a[k] = b[k]
    <2>1. k \in 1 .. Len(a) + Len(s) /\ k <= Len(a)
        BY <1>1
    <2> QED
        BY <1>2, <1>3, <1>4, <2>1
<1>6. ASSUME NEW k \in 1 .. Len(s) PROVE s[k] = t[k]
    <2> DEFINE place == k + Len(a)
    <2>1. place \in 1 .. Len(a) + Len(s) /\ ~(place <= Len(a)) /\ place - Len(a) = k
        BY <1>1
    <2> HIDE DEF place
    <2>2. (a \o s)[place] = s[k]
        BY <1>2, <2>1
    <2>3. (b \o t)[place] = t[k]
        BY <1>3, <1>4, <2>1
    <2> QED
        BY <2>2, <2>3
<1>7. a = b
    BY <1>5, SeqEqual
<1>8. s = t
    BY <1>4, <1>6, SeqEqual
<1> QED
    BY <1>7, <1>8

LEMMA FirstOfJoined ==
    ASSUME NEW S, NEW front \in Seq(S), NEW back \in Seq(S), Len(front) \in 1 .. 9
    PROVE  (front \o back)[1] = front[1]
<1>1. Len(back) \in Nat
    OBVIOUS
<1>2. 1 \in 1 .. Len(front) + Len(back) /\ 1 <= Len(front)
    <2>1. \A n \in 1 .. 9, m \in Nat : 1 \in 1 .. n + m /\ 1 <= n
        OBVIOUS
    <2> QED
        BY <1>1, <2>1
<1>3. \A k \in 1 .. Len(front) + Len(back) :
        (front \o back)[k] = IF k <= Len(front) THEN front[k] ELSE back[k - Len(front)]
    BY Joined
<1> QED
    BY <1>2, <1>3

\* The bytes of an encoding in pieces.
LEMMA SameBytePieces ==
    ASSUME NEW s \in Seq(Byte), NEW t \in Seq(Byte), bytes(s) = bytes(t)
    PROVE  s = t
<1>1. Len(s) = Len(t)
    BY BytePieces
<1>2. ASSUME NEW k \in 1 .. Len(s) PROVE s[k] = t[k]
    <2>1. bytes(s)[k] = <<"byte", s[k]>>
        BY DEF bytes, byte
    <2>2. bytes(t)[k] = <<"byte", t[k]>>
        BY <1>1 DEF bytes, byte
    <2> QED
        BY <2>1, <2>2
<1> QED
    BY <1>1, <1>2, SeqEqual

\* No encoding begins another one: numbers hashed one after the other can be told apart.
LEMMA EncodingsArePrefixFree ==
    ASSUME NEW u \in UInt64, NEW v \in UInt64, NEW s \in Seq(PlainPiece), NEW t \in Seq(PlainPiece),
           bytes(scaleEncodeUint64(u)) \o s = bytes(scaleEncodeUint64(v)) \o t
    PROVE  u = v /\ s = t
<1> DEFINE eu == scaleEncodeUint64(u)
           ev == scaleEncodeUint64(v)
           a == bytes(eu)
           b == bytes(ev)
<1>1. eu \in Seq(Byte) /\ Len(eu) \in 1 .. 9 /\ ev \in Seq(Byte) /\ Len(ev) \in 1 .. 9
    BY EncodingLength
<1>2. Len(eu) = Reader!compactLen(eu[1]) /\ Len(ev) = Reader!compactLen(ev[1])
    BY FirstByteTellsLength
<1>3. eu = ev => u = v
    BY EncodingInjective
<1>4. a \o s = b \o t
    OBVIOUS
<1> HIDE DEF eu, ev
<1>5. /\ a \in Seq(PlainPiece) /\ Len(a) = Len(eu) /\ a[1] = <<"byte", eu[1]>>
      /\ b \in Seq(PlainPiece) /\ Len(b) = Len(ev) /\ b[1] = <<"byte", ev[1]>>
    <2>1. a \in Seq(PlainPiece) /\ Len(a) = Len(eu) /\ b \in Seq(PlainPiece) /\ Len(b) = Len(ev)
        BY <1>1, BytePieces
    <2>2. 1 \in 1 .. Len(eu) /\ 1 \in 1 .. Len(ev)
        <3>1. \A n \in 1 .. 9 : 1 \in 1 .. n
            OBVIOUS
        <3> QED
            BY <1>1, <3>1
    <2>3. a[1] = <<"byte", eu[1]>> /\ b[1] = <<"byte", ev[1]>>
        BY <2>2 DEF bytes, byte
    <2> QED
        BY <2>1, <2>3
<1>6. eu = ev <=> a = b
    BY <1>1, SameBytePieces
<1> HIDE DEF a, b
<1>7. a[1] = b[1]
    <2>1. Len(a) \in 1 .. 9 /\ Len(b) \in 1 .. 9
        BY <1>1, <1>5
    <2>2. (a \o s)[1] = a[1]
        BY <1>5, <2>1, FirstOfJoined
    <2>3. (b \o t)[1] = b[1]
        BY <1>5, <2>1, FirstOfJoined
    <2> QED
        BY <1>4, <2>2, <2>3
<1>8. eu[1] = ev[1]
    BY <1>5, <1>7
<1>9. Len(a) = Len(b)
    BY <1>2, <1>5, <1>8
<1>10. a = b /\ s = t
    BY <1>4, <1>5, <1>9, SameParts
<1> QED
    BY <1>3, <1>6, <1>10

\* Six bits of it tell a count of at most ten.
LEMMA SmallCountScaled ==
    ASSUME NEW a \in 1 .. 10, NEW b \in 1 .. 10, (4 * a) % 256 = (4 * b) % 256
    PROVE  a = b
<1>1. (4 * a) % 256 = 4 * a /\ (4 * b) % 256 = 4 * b
    OBVIOUS
<1> QED
    BY <1>1

\* An account with an address has one to ten approvers.
LEMMA AcceptedApprovers ==
    ASSUME NEW r \in Requests, SettingsAccepted(r)
    PROVE  r.approvers \in 1 .. 10
<1> DEFINE few == r.approvers
           many == participants(r)
<1>1. few \in Byte /\ many \in Byte
    BY RequestTypes
<1>2. few \in Nat /\ many \in Nat
    <2> HIDE DEF few, many
    <2> QED
        BY <1>1 DEF Byte
<1> QED
    BY <1>2, Sizes DEF SettingsAccepted

LEMMA SoundAccepted ==
    ASSUME NEW r \in Requests, Sound(r)
    PROVE  SettingsAccepted(r)
<1> DEFINE few == r.approvers
           many == participants(r)
<1>1. few \in Byte /\ many \in Byte
    BY RequestTypes
<1>2. few \in Nat /\ many \in Nat
    <2> HIDE DEF few, many
    <2> QED
        BY <1>1 DEF Byte
<1> QED
    BY <1>2, Sizes DEF SettingsAccepted, Sound

\* The input of an account tells its settings and its keys.
LEMMA SameAccountInput ==
    ASSUME NEW a \in Requests, NEW b \in Requests, NEW type \in AccountType,
           SettingsAccepted(a), SettingsAccepted(b),
           AccountInput(type, a) = AccountInput(type, b)
    PROVE  a.approvers = b.approvers /\ a.keys = b.keys
<1> DEFINE ha == Header(type, a)
           hb == Header(type, b)
           ka == KeyPieces(a, participants(a))
           kb == KeyPieces(b, participants(b))
<1>1. /\ ha \in Seq(PlainPiece) /\ Len(ha) = 3 /\ hb \in Seq(PlainPiece) /\ Len(hb) = 3
    BY HeaderType
<1>2. participants(a) \in Nat /\ participants(b) \in Nat
    BY RequestTypes DEF Byte
<1>3. /\ ka \in Seq(PlainPiece) /\ Len(ka) = participants(a)
      /\ kb \in Seq(PlainPiece) /\ Len(kb) = participants(b)
    BY <1>2, KeyPiecesType
<1>4. ha \o ka = hb \o kb
    BY AccountInputParts
<1>5. ha = hb /\ ka = kb
    <2> HIDE DEF ha, hb, ka, kb
    <2> QED
        BY <1>1, <1>3, <1>4, SameParts
<1>6. a.approvers = b.approvers
    <2>1. ha[2] = byte((4 * a.approvers) % 256) /\ hb[2] = byte((4 * b.approvers) % 256)
        BY DEF Header
    <2>2. (4 * a.approvers) % 256 = (4 * b.approvers) % 256
        <3> DEFINE x == (4 * a.approvers) % 256
                   y == (4 * b.approvers) % 256
        <3>1. byte(x) = byte(y)
            BY <1>5, <2>1
        <3> HIDE DEF x, y
        <3>2. x = y
            BY <3>1 DEF byte
        <3> QED
            BY <3>2 DEF x, y
    <2> QED
        BY <2>2, AcceptedApprovers, SmallCountScaled
<1>7. a.keys = b.keys
    <2>1. /\ a.keys \in Seq(Pubkey) /\ Len(a.keys) = participants(a)
          /\ b.keys \in Seq(Pubkey) /\ Len(b.keys) = participants(b)
        BY RequestTypes
    <2>2. participants(a) = participants(b)
        BY <1>3, <1>5
    <2>3. ASSUME NEW k \in 1 .. participants(a) PROVE a.keys[k] = b.keys[k]
        <3>1. ka[k] = key(a.keys[k]) /\ kb[k] = key(b.keys[k])
            BY <2>2 DEF KeyPieces
        <3> DEFINE x == a.keys[k]
                   y == b.keys[k]
        <3>2. key(x) = key(y)
            BY <1>5, <3>1
        <3> HIDE DEF x, y
        <3>3. x = y
            BY <3>2 DEF key
        <3> QED
            BY <3>3 DEF x, y
    <2> QED
        BY <2>1, <2>2, <2>3, SeqEqual
<1> QED
    BY <1>6, <1>7

LEMMA NumberType ==
    ASSUME NEW r \in Requests, NEW k \in 1 .. 4
    PROVE  /\ Number(r, k) \in Seq(PlainPiece) /\ Number(r, k) \in Seq(Piece)
           /\ r.numbers[k] \in UInt64 /\ Number(r, k) = bytes(scaleEncodeUint64(r.numbers[k]))
<1>1. r.numbers[k] \in UInt64
    BY RequestTypes
<1>2. scaleEncodeUint64(r.numbers[k]) \in Seq(Byte)
    BY <1>1, EncodingLength
<1>3. bytes(scaleEncodeUint64(r.numbers[k])) \in Seq(PlainPiece)
    BY <1>2, BytePieces
<1> QED
    BY <1>1, <1>3, PlainSequences DEF Number

\* Concatenation by a name, for provers that need not look inside it.
Join(s, t) == s \o t

LEMMA JoinType ==
    ASSUME NEW S
    PROVE  \A s \in Seq(S), t \in Seq(S) : Join(s, t) \in Seq(S)
BY DEF Join

LEMMA JoinAssociative ==
    ASSUME NEW S
    PROVE  \A s \in Seq(S), t \in Seq(S), u \in Seq(S) :
                Join(Join(s, t), u) = Join(s, Join(t, u))
<1> SUFFICES ASSUME NEW s \in Seq(S), NEW t \in Seq(S), NEW u \in Seq(S)
             PROVE  (s \o t) \o u = s \o (t \o u)
    BY DEF Join
<1> QED
    BY ConcatAssociative

LEMMA Regrouped ==
    ASSUME NEW S, NEW h \in Seq(S), NEW a \in Seq(S), NEW b \in Seq(S), NEW c \in Seq(S),
           NEW d \in Seq(S)
    PROVE  Join(Join(Join(Join(h, a), b), c), d) = Join(h, Join(a, Join(b, Join(c, d))))
<1>1. /\ Join(h, a) \in Seq(S) /\ Join(Join(h, a), b) \in Seq(S)
      /\ Join(c, d) \in Seq(S) /\ Join(b, Join(c, d)) \in Seq(S)
    BY JoinType
<1>2. Join(Join(Join(Join(h, a), b), c), d) = Join(Join(Join(h, a), b), Join(c, d))
    BY <1>1, JoinAssociative
<1>3. Join(Join(Join(h, a), b), Join(c, d)) = Join(Join(h, a), Join(b, Join(c, d)))
    BY <1>1, JoinAssociative
<1>4. Join(Join(h, a), Join(b, Join(c, d))) = Join(h, Join(a, Join(b, Join(c, d))))
    BY <1>1, JoinAssociative
<1> QED
    BY <1>2, <1>3, <1>4

\* What a vault's four numbers are hashed as.
FourNumbers(r) == Join(Number(r, 1), Join(Number(r, 2), Join(Number(r, 3), Number(r, 4))))

LEMMA FourNumbersType == \A r \in Requests : FourNumbers(r) \in Seq(Piece)
BY NumberType, JoinType DEF FourNumbers

LEMMA VaultHeaderType ==
    ASSUME NEW r \in Requests
    PROVE  /\ VaultHeader(r) \in Seq(Piece) /\ Len(VaultHeader(r)) = 2
           /\ VaultHeader(r)[2] = address(AccountInput("VESTING", r))
<1>1. AccountInput("VESTING", r) \in Seq(PlainPiece)
    BY AccountInputType DEF AccountType
<1>2. template("VAULT") \in Piece /\ address(AccountInput("VESTING", r)) \in Piece
    BY <1>1, PieceTypes DEF AccountType
<1> QED
    BY <1>2 DEF VaultHeader, Address

LEMMA VaultInput ==
    ASSUME NEW r \in Requests, r.type = "VAULT"
    PROVE  Input(r) = VaultHeader(r) \o FourNumbers(r)
<1> DEFINE h == VaultHeader(r)
           a == Number(r, 1)
           b == Number(r, 2)
           c == Number(r, 3)
           d == Number(r, 4)
<1>1. /\ h \in Seq(Piece) /\ a \in Seq(Piece) /\ b \in Seq(Piece)
      /\ c \in Seq(Piece) /\ d \in Seq(Piece)
    BY NumberType, VaultHeaderType
<1>2. Input(r) = Join(Join(Join(Join(h, a), b), c), d)
    BY DEF Input, VaultHeader, Join
<1> HIDE DEF h, a, b, c, d
<1>3. Join(Join(Join(Join(h, a), b), c), d) = Join(h, Join(a, Join(b, Join(c, d))))
    BY <1>1, Regrouped
<1> QED
    BY <1>2, <1>3 DEF FourNumbers, Join, h, a, b, c, d

LEMMA PrefixFree ==
    \A u \in UInt64, v \in UInt64, s \in Seq(PlainPiece), t \in Seq(PlainPiece) :
        Join(bytes(scaleEncodeUint64(u)), s) = Join(bytes(scaleEncodeUint64(v)), t)
            => u = v /\ s = t
BY EncodingsArePrefixFree DEF Join

\* The four numbers can be told from their encodings.
LEMMA SameFourNumbers ==
    ASSUME NEW x \in Requests, NEW y \in Requests, FourNumbers(x) = FourNumbers(y)
    PROVE  x.numbers = y.numbers
<1> DEFINE xb == Number(x, 2)
           xc == Number(x, 3)
           xd == Number(x, 4)
           yb == Number(y, 2)
           yc == Number(y, 3)
           yd == Number(y, 4)
<1>1. /\ xb \in Seq(PlainPiece) /\ xc \in Seq(PlainPiece) /\ xd \in Seq(PlainPiece)
      /\ yb \in Seq(PlainPiece) /\ yc \in Seq(PlainPiece) /\ yd \in Seq(PlainPiece)
    BY NumberType
<1>2. /\ x.numbers[1] \in UInt64 /\ x.numbers[2] \in UInt64
      /\ x.numbers[3] \in UInt64 /\ x.numbers[4] \in UInt64
      /\ y.numbers[1] \in UInt64 /\ y.numbers[2] \in UInt64
      /\ y.numbers[3] \in UInt64 /\ y.numbers[4] \in UInt64
    BY RequestTypes
<1> DEFINE xcd == Join(xc, xd)
           xbcd == Join(xb, xcd)
           ycd == Join(yc, yd)
           ybcd == Join(yb, ycd)
           Encoded(v) == bytes(scaleEncodeUint64(v))
<1>3. Join(Number(x, 1), xbcd) = Join(Number(y, 1), ybcd)
    BY DEF FourNumbers
<1>4. /\ Number(x, 1) = Encoded(x.numbers[1]) /\ Number(y, 1) = Encoded(y.numbers[1])
      /\ xb = Encoded(x.numbers[2]) /\ yb = Encoded(y.numbers[2])
      /\ xc = Encoded(x.numbers[3]) /\ yc = Encoded(y.numbers[3])
      /\ xd = Encoded(x.numbers[4]) /\ yd = Encoded(y.numbers[4])
    BY DEF Number
<1>5. /\ xcd \in Seq(PlainPiece) /\ xbcd \in Seq(PlainPiece)
      /\ ycd \in Seq(PlainPiece) /\ ybcd \in Seq(PlainPiece)
    BY <1>1, JoinType
<1>6. x.numbers[1] = y.numbers[1] /\ xbcd = ybcd
    BY <1>2, <1>3, <1>4, <1>5, PrefixFree
<1>7. x.numbers[2] = y.numbers[2] /\ xcd = ycd
    BY <1>2, <1>4, <1>5, <1>6, PrefixFree
<1>8. x.numbers[3] = y.numbers[3] /\ xd = yd
    BY <1>1, <1>2, <1>4, <1>7, PrefixFree
<1>9. x.numbers[4] = y.numbers[4]
    <2>1. bytes(scaleEncodeUint64(x.numbers[4])) = bytes(scaleEncodeUint64(y.numbers[4]))
        BY <1>4, <1>8
    <2>2. scaleEncodeUint64(x.numbers[4]) = scaleEncodeUint64(y.numbers[4])
        BY <1>2, <2>1, EncodingLength, SameBytePieces
    <2> QED
        BY <1>2, <2>2, EncodingInjective
<1>10. x.numbers \in [1 .. 4 -> UInt64] /\ y.numbers \in [1 .. 4 -> UInt64]
    BY EncodingAssumption DEF Request
<1>11. \A k \in 1 .. 4 : x.numbers[k] = y.numbers[k]
    <2>1. \A k \in 1 .. 4 : k = 1 \/ k = 2 \/ k = 3 \/ k = 4
        OBVIOUS
    <2> QED
        BY <1>6, <1>7, <1>8, <1>9, <2>1
<1> QED
    BY <1>10, <1>11

\* The first piece tells the type.
LEMMA FirstPiece ==
    ASSUME NEW r \in Requests
    PROVE  Input(r)[1] = template(r.type)
<1>1. r.type \in AccountType
    BY RequestTypes
<1>2. CASE r.type = "WALLET"
    BY <1>2 DEF Input
<1>3. CASE r.type \in {"MULTISIG", "VESTING"}
    <2> DEFINE h == Header(r.type, r)
               ks == KeyPieces(r, participants(r))
    <2>1. Input(r) = h \o ks
        BY <1>3, AccountInputParts DEF Input
    <2>2. /\ h \in Seq(PlainPiece) /\ Len(h) = 3 /\ ks \in Seq(PlainPiece)
        BY <1>1, HeaderType, KeyPiecesType, RequestTypes DEF Byte
    <2>3. h[1] = template(r.type)
        BY DEF Header
    <2> HIDE DEF h, ks
    <2>4. (h \o ks)[1] = h[1]
        BY <2>2, FirstOfJoined
    <2> QED
        BY <2>1, <2>3, <2>4
<1>4. CASE r.type = "VAULT"
    <2> DEFINE h == VaultHeader(r)
               numbers == FourNumbers(r)
    <2>1. Input(r) = h \o numbers
        BY <1>4, VaultInput
    <2>2. h \in Seq(Piece) /\ Len(h) = 2 /\ numbers \in Seq(Piece)
        BY FourNumbersType, VaultHeaderType
    <2>3. h[1] = template(r.type)
        BY <1>4 DEF VaultHeader
    <2> HIDE DEF h, numbers
    <2>4. (h \o numbers)[1] = h[1]
        BY <2>2, FirstOfJoined
    <2> QED
        BY <2>1, <2>3, <2>4
<1> QED
    BY <1>1, <1>2, <1>3, <1>4 DEF AccountType

Accepted(r) == r.type = "WALLET" \/ SettingsAccepted(r)

\* An input tells the account whose address hashes it.
LEMMA SameInputSameAccount ==
    ASSUME NEW x \in Requests, NEW y \in Requests, Accepted(x), Accepted(y), Input(x) = Input(y)
    PROVE  SameAccount(x, y)
<1>1. x.type = y.type
    <2> DEFINE s == x.type
               t == y.type
    <2>1. template(s) = template(t)
        BY FirstPiece
    <2> HIDE DEF s, t
    <2>2. s = t
        BY <2>1 DEF template
    <2> QED
        BY <2>2 DEF s, t
<1>2. x.type \in AccountType
    BY RequestTypes
<1>3. CASE x.type = "WALLET"
    <2> DEFINE s == x.internal
               t == y.internal
    <2>1. <<template("WALLET"), key(s)>> = <<template("WALLET"), key(t)>>
        BY <1>1, <1>3 DEF Input
    <2> HIDE DEF s, t
    <2>2. s = t
        BY <2>1 DEF key
    <2>3. x.internal = y.internal
        BY <2>2 DEF s, t
    <2> QED
        BY <1>1, <1>3, <2>3 DEF SameAccount
<1>4. CASE x.type \in {"MULTISIG", "VESTING"}
    <2>1. AccountInput(x.type, x) = AccountInput(x.type, y)
        BY <1>1, <1>4 DEF Input
    <2>2. x.approvers = y.approvers /\ x.keys = y.keys
        BY <1>1, <1>2, <1>4, <2>1, SameAccountInput DEF Accepted
    <2> QED
        BY <1>1, <1>4, <2>2 DEF SameAccount
<1>5. CASE x.type = "VAULT"
    <2> DEFINE hx == VaultHeader(x)
               hy == VaultHeader(y)
               nx == FourNumbers(x)
               ny == FourNumbers(y)
               ax == AccountInput("VESTING", x)
               ay == AccountInput("VESTING", y)
    <2>1. hx \o nx = hy \o ny
        BY <1>1, <1>5, VaultInput
    <2>2. /\ hx \in Seq(Piece) /\ Len(hx) = 2 /\ hx[2] = address(ax)
          /\ hy \in Seq(Piece) /\ Len(hy) = 2 /\ hy[2] = address(ay)
        BY VaultHeaderType
    <2>3. nx \in Seq(Piece) /\ ny \in Seq(Piece)
        BY FourNumbersType
    <2>4. hx = hy /\ nx = ny
        <3> HIDE DEF hx, hy, nx, ny
        <3> QED
            BY <2>1, <2>2, <2>3, SameParts
    <2>5. x.numbers = y.numbers
        BY <2>4, SameFourNumbers
    <2>6. ax = ay
        <3>1. address(ax) = address(ay)
            BY <2>2, <2>4
        <3> HIDE DEF ax, ay
        <3> QED
            BY <3>1 DEF address
    <2>7. x.approvers = y.approvers /\ x.keys = y.keys
        BY <1>1, <1>5, <2>6, SameAccountInput DEF Accepted, AccountType
    <2> QED
        BY <1>1, <1>5, <2>5, <2>7 DEF SameAccount
<1> QED
    BY <1>2, <1>3, <1>4, <1>5 DEF AccountType

-----------------------------------------------------------------------------
\* The hashed numbers are read back.

\* The numbers of up to four bytes that the reader computes.
LEMMA LittleEndianTerms ==
    ASSUME NEW b, NEW from \in 1 .. 2, NEW to \in {2, 4}, to - from <= 3
    PROVE  Reader!LittleEndian(b, from, to) =
            IF to - from = 1 THEN b[from] + 256 * (b[from + 1] + 256 * 0)
            ELSE IF to - from = 2
                 THEN b[from] + 256 * (b[from + 1] + 256 * (b[from + 2] + 256 * 0))
            ELSE IF to - from = 3
                 THEN b[from] + 256 * (b[from + 1] + 256 * (b[from + 2] + 256 * (b[from + 3] + 256 * 0)))
            ELSE b[from] + 256 * 0
<1> DEFINE Equation(v) == v = [k \in from .. to + 1 |-> IF k > to THEN 0 ELSE b[k] + 256 * v[k + 1]]
           value == CHOOSE v : Equation(v)
           t0 == 0
           t1 == b[to] + 256 * t0
           t2 == b[to - 1] + 256 * t1
           t3 == b[to - 2] + 256 * t2
           t4 == b[to - 3] + 256 * t3
           w == [k \in from .. to + 1 |->
                    IF k = to + 1 THEN t0 ELSE IF k = to THEN t1 ELSE IF k = to - 1 THEN t2
                    ELSE IF k = to - 2 THEN t3 ELSE t4]
<1>1. Equation(w)
    <2>1. ASSUME NEW k \in from .. to + 1
          PROVE  w[k] = IF k > to THEN 0 ELSE b[k] + 256 * w[k + 1]
        <3>1. CASE k = to + 1
            BY <3>1
        <3>2. CASE k = to
            <4>1. k + 1 \in from .. to + 1 /\ k + 1 = to + 1
                BY <3>2
            <4> QED
                BY <3>2, <4>1
        <3>3. CASE k = to - 1
            <4>1. k + 1 \in from .. to + 1 /\ k + 1 = to
                BY <3>3
            <4> QED
                BY <3>3, <4>1
        <3>4. CASE k = to - 2
            <4>1. k + 1 \in from .. to + 1 /\ k + 1 = to - 1
                BY <3>4
            <4> QED
                BY <3>4, <4>1
        <3>5. CASE k = to - 3
            <4>1. k + 1 \in from .. to + 1 /\ k + 1 = to - 2
                BY <3>5
            <4> QED
                BY <3>5, <4>1
        <3>6. k = to + 1 \/ k = to \/ k = to - 1 \/ k = to - 2 \/ k = to - 3
            OBVIOUS
        <3> QED
            BY <3>1, <3>2, <3>3, <3>4, <3>5, <3>6
    <2> QED
        BY <2>1
<1>2. Equation(value)
    BY <1>1
<1>3. Reader!LittleEndian(b, from, to) = value[from]
    BY DEF Reader!LittleEndian
<1> HIDE DEF value
<1>4. ASSUME NEW k \in from .. to + 1
      PROVE  value[k] = IF k > to THEN 0 ELSE b[k] + 256 * value[k + 1]
    BY <1>2
<1>5. value[to + 1] = 0
    BY <1>4
<1>6. value[to] = b[to] + 256 * 0
    BY <1>4, <1>5
<1>7. CASE to - from = 0
    BY <1>3, <1>6, <1>7
<1>8. CASE to - from > 0
    <2>1. value[to - 1] = b[to - 1] + 256 * value[to]
        <3>1. to - 1 \in from .. to + 1 /\ ~(to - 1 > to) /\ (to - 1) + 1 = to
            BY <1>8
        <3> QED
            BY <1>4, <3>1
    <2>2. CASE to - from = 1
        <3>1. to - 1 = from /\ to = from + 1
            BY <2>2
        <3> QED
            BY <1>3, <1>6, <2>1, <2>2, <3>1
    <2>3. CASE to - from > 1
        <3>1. value[to - 2] = b[to - 2] + 256 * value[to - 1]
            <4>1. to - 2 \in from .. to + 1 /\ ~(to - 2 > to) /\ (to - 2) + 1 = to - 1
                BY <2>3
            <4> QED
                BY <1>4, <4>1
        <3>2. CASE to - from = 2
            <4>1. to - 2 = from /\ to - 1 = from + 1 /\ to = from + 2
                BY <3>2
            <4> QED
                BY <1>3, <1>6, <2>1, <3>1, <3>2, <4>1
        <3>3. CASE to - from = 3
            <4>1. to - 3 = from /\ to - 2 = from + 1 /\ to - 1 = from + 2 /\ to = from + 3
                BY <3>3
            <4>2. value[to - 3] = b[to - 3] + 256 * value[to - 2]
                <5>1. to - 3 \in from .. to + 1 /\ ~(to - 3 > to) /\ (to - 3) + 1 = to - 2
                    BY <3>3
                <5> QED
                    BY <1>4, <5>1
            <4> QED
                BY <1>3, <1>6, <2>1, <3>1, <3>3, <4>1, <4>2
        <3> QED
            BY <2>3, <3>2, <3>3
    <2> QED
        BY <1>8, <2>2, <2>3
<1> QED
    BY <1>7, <1>8

\* The value the reader compares with, of a number of up to four bytes.
LEMMA LowBytes ==
    ASSUME NEW v \in UInt64
    PROVE  Reader!LittleEndian(v, 1, 4) = v[1] + 256 * v[2] + 65536 * v[3] + 16777216 * v[4]
<1> DEFINE a == v[1]
           b == v[2]
           c == v[3]
           d == v[4]
<1>1. a \in Nat /\ b \in Nat /\ c \in Nat /\ d \in Nat
    BY DEF UInt64, Byte
<1>2. Reader!LittleEndian(v, 1, 4) = a + 256 * (b + 256 * (c + 256 * (d + 256 * 0)))
    <2>1. v[1 + 1] = b /\ v[1 + 2] = c /\ v[1 + 3] = d
        OBVIOUS
    <2>2. Reader!LittleEndian(v, 1, 4) =
            v[1] + 256 * (v[1 + 1] + 256 * (v[1 + 2] + 256 * (v[1 + 3] + 256 * 0)))
        BY LittleEndianTerms
    <2> QED
        BY <2>1, <2>2
<1> HIDE DEF a, b, c, d
<1>3. a + 256 * (b + 256 * (c + 256 * (d + 256 * 0))) = a + 256 * b + 65536 * c + 16777216 * d
    BY <1>1
<1> QED
    BY <1>2, <1>3 DEF a, b, c, d

\* An encoding is read as its number.
LEMMA ReadsItself ==
    ASSUME NEW v \in UInt64
    PROVE  ReadsAs(scaleEncodeUint64(v), v)
<1> DEFINE e == scaleEncodeUint64(v)
           a == v[1]
           b == v[2]
           c == v[3]
           d == v[4]
           low == Reader!LittleEndian(v, 1, 4)
<1>1. a \in Byte /\ b \in Byte /\ c \in Byte /\ d \in Byte
    BY DEF UInt64
<1>2. low = a + 256 * b + 65536 * c + 16777216 * d
    BY LowBytes
<1>3. OneByte(v, e) \/ TwoBytes(v, e) \/ FourBytes(v, e) \/ ManyBytes(v, e)
    BY EncodingForms
<1> SUFFICES ReadsAs(e, v)
    OBVIOUS
<1> HIDE DEF e, low
<1>4. CASE OneByte(v, e)
    <2>1. Len(e) = 1 /\ e[1] = 4 * a /\ b = 0 /\ c = 0 /\ d = 0
        BY <1>4 DEF OneByte
    <2> HIDE DEF a, b, c, d
    <2>2. (4 * a) \div 4 = a /\ low = a
        BY <1>1, <1>2, <2>1 DEF Byte
    <2>3. Reader!getValue(e) = a
        BY <2>1, <2>2 DEF Reader!getValue
    <2> QED
        BY <2>1, <2>2, <2>3 DEF ReadsAs, low
<1>5. CASE TwoBytes(v, e)
    <2>1. PICK q \in 0 .. 3, r \in 0 .. 63 : a = 64 * q + r /\ (4 * a) % 256 = 4 * r /\ a \div 64 = q
        BY <1>1, ShiftedParts
    <2>2. PICK p \in 0 .. 3, s \in 0 .. 63 : b = 64 * p + s /\ (4 * b) % 256 = 4 * s /\ b \div 64 = p
        BY <1>1, ShiftedParts
    <2> DEFINE first == e[1]
               second == e[2]
    <2>3. /\ Len(e) = 2 /\ first = 4 * r + 1 /\ second = 4 * s + q
          /\ b < 64 /\ c = 0 /\ d = 0 /\ a + 256 * b >= 64
        BY <1>5, <2>1, <2>2 DEF TwoBytes
    <2>4. Reader!LittleEndian(e, 1, 2) = first + 256 * (second + 256 * 0)
        <3>1. Reader!LittleEndian(e, 1, 2) = e[1] + 256 * (e[1 + 1] + 256 * 0)
            BY LittleEndianTerms
        <3> QED
            BY <3>1
    <2> HIDE DEF a, b, c, d, first, second
    <2>5. /\ first + 256 * (second + 256 * 0) = 4 * (a + 256 * b) + 1
          /\ (4 * (a + 256 * b) + 1) \div 4 = a + 256 * b
          /\ low = a + 256 * b /\ ~(low < 64)
        BY <1>1, <1>2, <2>1, <2>2, <2>3 DEF Byte
    <2>6. Reader!getValue(e) = Reader!AtLeast(64, low)
        BY <2>3, <2>4, <2>5 DEF Reader!getValue
    <2>7. Reader!AtLeast(64, low) = low
        BY <2>5 DEF Reader!AtLeast
    <2> QED
        BY <2>3, <2>6, <2>7 DEF ReadsAs, low
<1>6. CASE FourBytes(v, e)
    <2>1. PICK aq \in 0 .. 3, ar \in 0 .. 63 : a = 64 * aq + ar /\ (4 * a) % 256 = 4 * ar /\ a \div 64 = aq
        BY <1>1, ShiftedParts
    <2>2. PICK bq \in 0 .. 3, br \in 0 .. 63 : b = 64 * bq + br /\ (4 * b) % 256 = 4 * br /\ b \div 64 = bq
        BY <1>1, ShiftedParts
    <2>3. PICK cq \in 0 .. 3, cr \in 0 .. 63 : c = 64 * cq + cr /\ (4 * c) % 256 = 4 * cr /\ c \div 64 = cq
        BY <1>1, ShiftedParts
    <2>4. PICK dq \in 0 .. 3, dr \in 0 .. 63 : d = 64 * dq + dr /\ (4 * d) % 256 = 4 * dr /\ d \div 64 = dq
        BY <1>1, ShiftedParts
    <2> DEFINE e1 == e[1]
               e2 == e[2]
               e3 == e[3]
               e4 == e[4]
    <2>5. /\ e2 = ((4 * v[2]) % 256) + (v[1] \div 64)
          /\ e3 = ((4 * v[3]) % 256) + (v[2] \div 64)
          /\ e4 = ((4 * v[4]) % 256) + (v[3] \div 64)
        <3>1. 2 \in 2 .. 4 /\ 3 \in 2 .. 4 /\ 4 \in 2 .. 4 /\ 2 - 1 = 1 /\ 3 - 1 = 2 /\ 4 - 1 = 3
            OBVIOUS
        <3> QED
            BY <1>6, <3>1 DEF FourBytes
    <2>6. /\ Len(e) = 4 /\ e1 = ((4 * v[1]) % 256) + 2 /\ d < 64
          /\ a + 256 * b + 65536 * c + 16777216 * d >= 16384
        BY <1>6 DEF FourBytes
    <2>7. e1 = 4 * ar + 2 /\ e2 = 4 * br + aq /\ e3 = 4 * cr + bq /\ e4 = 4 * dr + cq
        BY <2>1, <2>2, <2>3, <2>4, <2>5, <2>6
    <2>8. Reader!LittleEndian(e, 2, 4) = e2 + 256 * (e3 + 256 * (e4 + 256 * 0))
        <3>1. Reader!LittleEndian(e, 2, 4) = e[2] + 256 * (e[2 + 1] + 256 * (e[2 + 2] + 256 * 0))
            BY LittleEndianTerms
        <3> QED
            BY <3>1
    <2> HIDE DEF a, b, c, d, e1, e2, e3, e4
    <2>9. /\ e1 \div 4 = ar
          /\ (e2 + 256 * (e3 + 256 * (e4 + 256 * 0))) * 64 = 64 * e2 + 16384 * e3 + 4194304 * e4
        BY <2>7
    <2>10. dq = 0
        BY <2>4, <2>6
    <2>11. low = ar + (64 * e2 + 16384 * e3 + 4194304 * e4)
        BY <1>2, <2>1, <2>2, <2>3, <2>4, <2>7, <2>10
    <2>12. low >= 16384 /\ ~(low < 16383)
        BY <1>1, <1>2, <2>6 DEF Byte
    <2>13. Reader!getValue(e) = Reader!AtLeast(16383, low)
        BY <2>6, <2>8, <2>9, <2>11 DEF Reader!getValue, Reader!MinFourByte, e1
    <2>14. Reader!AtLeast(16383, low) = low
        BY <2>12 DEF Reader!AtLeast
    <2> QED
        BY <2>6, <2>13, <2>14 DEF ReadsAs, low
<1>7. CASE ManyBytes(v, e)
    <2>1. PICK n \in 4 .. 8 :
            /\ Len(e) = n + 1
            /\ \A k \in 1 .. n : e[k + 1] = v[k]
            /\ \A k \in n + 1 .. 8 : v[k] = 0
        BY <1>7 DEF ManyBytes
    <2> DEFINE size == Len(e)
    <2>2. ~(size <= 4) /\ size - 1 = n /\ size = n + 1
        BY <2>1
    <2> HIDE DEF size
    <2>3. (\A k \in 1 .. size - 1 : e[k + 1] = v[k]) /\ \A k \in size .. 8 : v[k] = 0
        BY <2>1, <2>2
    <2> QED
        BY <2>2, <2>3 DEF ReadsAs, size
<1> QED
    BY <1>3, <1>4, <1>5, <1>6, <1>7

\* Where the number after the one at this place begins.
NextStart(encoded, place) ==
    IF place > Len(encoded) THEN place ELSE place + Reader!compactLen(encoded[place])

LEMMA NumberStarts ==
    ASSUME NEW encoded
    PROVE  /\ NumberStart(encoded)[1] = 1
           /\ \A k \in 2 .. 5 :
                NumberStart(encoded)[k] = NextStart(encoded, NumberStart(encoded)[k - 1])
<1> DEFINE Next1(place) == NextStart(encoded, place)
           Equation(f) == f = [k \in 1 .. 5 |-> IF k = 1 THEN 1 ELSE Next1(f[k - 1])]
           start == CHOOSE f : Equation(f)
           s1 == 1
           s2 == Next1(s1)
           s3 == Next1(s2)
           s4 == Next1(s3)
           s5 == Next1(s4)
           w == [k \in 1 .. 5 |->
                    IF k = 1 THEN s1 ELSE IF k = 2 THEN s2 ELSE IF k = 3 THEN s3
                    ELSE IF k = 4 THEN s4 ELSE s5]
<1>1. Equation(w)
    <2> HIDE DEF Next1
    <2>1. ASSUME NEW k \in 1 .. 5 PROVE w[k] = IF k = 1 THEN 1 ELSE Next1(w[k - 1])
        <3>1. k = 1 \/ k = 2 \/ k = 3 \/ k = 4 \/ k = 5
            OBVIOUS
        <3>2. w[1] = s1 /\ w[2] = s2 /\ w[3] = s3 /\ w[4] = s4 /\ w[5] = s5
            OBVIOUS
        <3>3. 2 - 1 = 1 /\ 3 - 1 = 2 /\ 4 - 1 = 3 /\ 5 - 1 = 4
            OBVIOUS
        <3> HIDE DEF w
        <3> QED
            BY <3>1, <3>2, <3>3
    <2> QED
        BY <2>1
<1>2. Equation(start)
    <2> HIDE DEF Next1, w
    <2> QED
        BY <1>1
<1>3. NumberStart(encoded) = start
    BY DEF NumberStart, NextStart
<1> HIDE DEF start
<1>4. \A k \in 1 .. 5 : start[k] = IF k = 1 THEN 1 ELSE Next1(start[k - 1])
    <2> HIDE DEF Next1
    <2> QED
        BY <1>2
<1> HIDE DEF Next1
<1>5. start[1] = 1 /\ \A k \in 2 .. 5 : start[k] = Next1(start[k - 1])
    BY <1>4
<1> QED
    BY <1>3, <1>5 DEF Next1

LEMMA JoinElements ==
    ASSUME NEW S, NEW s \in Seq(S), NEW t \in Seq(S)
    PROVE  /\ Join(s, t) \in Seq(S) /\ Len(Join(s, t)) = Len(s) + Len(t)
           /\ \A k \in 1 .. Len(s) + Len(t) :
                Join(s, t)[k] = IF k <= Len(s) THEN s[k] ELSE t[k - Len(s)]
BY Joined DEF Join

\* A part of a joined list.
LEMMA PartOfJoined ==
    ASSUME NEW S, NEW front \in Seq(S), NEW part \in Seq(S), NEW back \in Seq(S), Len(part) \in 1 .. 9
    PROVE  LET whole == Join(front, Join(part, back)) IN
           /\ whole \in Seq(S) /\ Len(whole) = Len(front) + Len(part) + Len(back)
           /\ whole[Len(front) + 1] = part[1]
           /\ SubSeq(whole, Len(front) + 1, Len(front) + Len(part)) = part
<1> DEFINE rest == Join(part, back)
           whole == Join(front, rest)
<1>1. Len(front) \in Nat /\ Len(part) \in Nat /\ Len(back) \in Nat
    OBVIOUS
<1>2. /\ rest \in Seq(S) /\ Len(rest) = Len(part) + Len(back)
      /\ \A k \in 1 .. Len(part) + Len(back) :
            rest[k] = IF k <= Len(part) THEN part[k] ELSE back[k - Len(part)]
    BY JoinElements
<1> HIDE DEF rest
<1>3. /\ whole \in Seq(S) /\ Len(whole) = Len(front) + Len(rest)
      /\ \A k \in 1 .. Len(front) + Len(rest) :
            whole[k] = IF k <= Len(front) THEN front[k] ELSE rest[k - Len(front)]
    <2>1. rest \in Seq(S)
        BY <1>2
    <2> QED
        BY <2>1, JoinElements
<1> HIDE DEF whole
<1>4. ASSUME NEW k \in 1 .. Len(part) PROVE whole[Len(front) + k] = part[k]
    <2> DEFINE place == Len(front) + k
    <2>1. /\ place \in 1 .. Len(front) + Len(rest) /\ ~(place <= Len(front))
          /\ place - Len(front) = k /\ k \in 1 .. Len(part) + Len(back) /\ k <= Len(part)
        BY <1>1, <1>2
    <2> HIDE DEF place
    <2>2. whole[place] = rest[k]
        BY <1>3, <2>1
    <2>3. rest[k] = part[k]
        BY <1>2, <2>1
    <2> QED
        BY <2>2, <2>3 DEF place
<1>5. whole[Len(front) + 1] = part[1]
    <2>1. 1 \in 1 .. Len(part)
        <3>1. \A n \in 1 .. 9 : 1 \in 1 .. n
            OBVIOUS
        <3> QED
            BY <3>1
    <2> QED
        BY <1>4, <2>1
<1>6. SubSeq(whole, Len(front) + 1, Len(front) + Len(part)) = part
    <2> DEFINE from == Len(front) + 1
               to == Len(front) + Len(part)
               sub == SubSeq(whole, from, to)
    <2>1. /\ from \in Int /\ to \in Int /\ 1 <= from /\ from <= to /\ to <= Len(whole)
          /\ to - from + 1 = Len(part)
        <3> DEFINE f == Len(front)
                   p == Len(part)
                   b == Len(back)
                   w == Len(whole)
        <3>1. f \in Nat /\ p \in 1 .. 9 /\ b \in Nat /\ w = f + (p + b) /\ from = f + 1 /\ to = f + p
            BY <1>1, <1>2, <1>3
        <3> HIDE DEF f, p, b, w, from, to
        <3>2. /\ from \in Int /\ to \in Int /\ 1 <= from /\ from <= to /\ to <= w
              /\ to - from + 1 = p
            BY <3>1
        <3> QED
            BY <3>2 DEF w, p
    <2> HIDE DEF from, to
    <2>2. ASSUME NEW k \in from .. to PROVE whole[k] \in S
        <3>1. k \in 1 .. Len(whole)
            <4>1. Len(whole) \in Nat
                BY <1>3
            <4> QED
                BY <2>1, <4>1
        <3> QED
            BY <1>3, <3>1, ElementOfSeq
    <2>3. sub \in Seq(S) /\ Len(sub) = Len(part)
        BY <1>3, <2>1, <2>2, SubSeqProperties
    <2>4. \A k \in 1 .. Len(part) : sub[k] = whole[from + k - 1]
        BY <1>3, <2>1, <2>2, SubSeqProperties
    <2>5. ASSUME NEW k \in 1 .. Len(part) PROVE sub[k] = part[k]
        <3>1. from + k - 1 = Len(front) + k
            BY <1>1 DEF from
        <3> QED
            BY <1>4, <2>4, <3>1
    <2> HIDE DEF sub
    <2>6. sub = part
        BY <2>3, <2>5, SeqEqual
    <2> QED
        BY <2>6 DEF sub, from, to
<1>7. Len(whole) = Len(front) + Len(part) + Len(back)
    BY <1>1, <1>2, <1>3
<1>8. whole \in Seq(S)
    BY <1>3
<1> QED
    BY <1>5, <1>6, <1>7, <1>8 DEF whole, rest

\* The reader finds the end of the number at this place and reads it.
LEMMA PartReadBack ==
    ASSUME NEW front \in Seq(Byte), NEW v \in UInt64, NEW back \in Seq(Byte)
    PROVE  LET part == scaleEncodeUint64(v)
               whole == Join(front, Join(part, back))
               from == Len(front) + 1
               next == NextStart(whole, from)
           IN  /\ next = Len(front) + Len(part) + 1
               /\ ReadsAs(SubSeq(whole, from, next - 1), v)
<1> DEFINE part == scaleEncodeUint64(v)
           whole == Join(front, Join(part, back))
           from == Len(front) + 1
           next == NextStart(whole, from)
<1>1. part \in Seq(Byte) /\ Len(part) \in 1 .. 9 /\ Len(part) = Reader!compactLen(part[1])
    BY EncodingLength, FirstByteTellsLength
<1>2. ReadsAs(part, v)
    BY ReadsItself
<1> HIDE DEF part
<1>3. /\ Len(whole) = Len(front) + Len(part) + Len(back)
      /\ whole[Len(front) + 1] = part[1]
      /\ SubSeq(whole, Len(front) + 1, Len(front) + Len(part)) = part
    <2>1. part \in Seq(Byte) /\ Len(part) \in 1 .. 9
        BY <1>1
    <2> QED
        BY <2>1, PartOfJoined
<1> HIDE DEF whole
<1>4. Len(front) \in Nat /\ Len(back) \in Nat
    OBVIOUS
<1>5. ~(from > Len(whole))
    BY <1>1, <1>3, <1>4
<1>6. next = Len(front) + Len(part) + 1
    <2>1. next = from + Len(part)
        BY <1>1, <1>3, <1>5 DEF NextStart
    <2> QED
        BY <1>1, <1>4, <2>1
<1>7. next - 1 = Len(front) + Len(part)
    BY <1>1, <1>4, <1>6
<1>8. ReadsAs(SubSeq(whole, from, next - 1), v)
    BY <1>2, <1>3, <1>7
<1> QED
    BY <1>6, <1>8 DEF part, whole

LEMMA JoinEmpty ==
    ASSUME NEW S, NEW s \in Seq(S)
    PROVE  Join(<<>>, s) = s /\ Join(s, <<>>) = s
BY ConcatEmptySeq DEF Join

\* The bytes of a vault's four numbers, one encoding after the other.
NumberBytes(r) ==
    Join(scaleEncodeUint64(r.numbers[1]),
         Join(scaleEncodeUint64(r.numbers[2]),
              Join(scaleEncodeUint64(r.numbers[3]), scaleEncodeUint64(r.numbers[4]))))

LEMMA EncodedNumbers ==
    ASSUME NEW r \in Requests, NEW k \in 1 .. 4
    PROVE  /\ r.numbers[k] \in UInt64
           /\ scaleEncodeUint64(r.numbers[k]) \in Seq(Byte)
BY RequestTypes, EncodingLength

LEMMA NumberBytesType == \A r \in Requests : NumberBytes(r) \in Seq(Byte)
BY EncodedNumbers, JoinType DEF NumberBytes

\* The reader finds the end of the number behind front and reads it.
ReadBehind(whole, front, v) ==
    LET from == Len(front) + 1
        next == NextStart(whole, from)
    IN  /\ next = Len(front) + Len(scaleEncodeUint64(v)) + 1
        /\ ReadsAs(SubSeq(whole, from, next - 1), v)

LEMMA PartRead ==
    ASSUME NEW front \in Seq(Byte), NEW v \in UInt64, NEW back \in Seq(Byte), NEW whole,
           whole = Join(front, Join(scaleEncodeUint64(v), back))
    PROVE  ReadBehind(whole, front, v)
BY PartReadBack DEF ReadBehind

\* The reader goes through the four of them to the last byte.
LEMMA NumbersReadBack ==
    ASSUME NEW r \in Requests
    PROVE  LET encoded == NumberBytes(r)
               start == NumberStart(encoded)
           IN  /\ start[5] = Len(encoded) + 1
               /\ \A k \in 1 .. 4 :
                    ReadsAs(SubSeq(encoded, start[k], start[k + 1] - 1), r.numbers[k])
<1> DEFINE encoded == NumberBytes(r)
           start == NumberStart(encoded)
           e1 == scaleEncodeUint64(r.numbers[1])
           e2 == scaleEncodeUint64(r.numbers[2])
           e3 == scaleEncodeUint64(r.numbers[3])
           e4 == scaleEncodeUint64(r.numbers[4])
           e12 == Join(e1, e2)
           e123 == Join(e12, e3)
           e34 == Join(e3, e4)
           e234 == Join(e2, e34)
<1>1. /\ e1 \in Seq(Byte) /\ e2 \in Seq(Byte) /\ e3 \in Seq(Byte) /\ e4 \in Seq(Byte)
      /\ r.numbers[1] \in UInt64 /\ r.numbers[2] \in UInt64
      /\ r.numbers[3] \in UInt64 /\ r.numbers[4] \in UInt64
    BY EncodedNumbers
<1>2. encoded = Join(e1, e234)
    BY DEF NumberBytes
<1>3. /\ start[1] = 1 /\ start[2] = NextStart(encoded, start[1])
      /\ start[3] = NextStart(encoded, start[2]) /\ start[4] = NextStart(encoded, start[3])
      /\ start[5] = NextStart(encoded, start[4])
    <2>1. 2 \in 2 .. 5 /\ 3 \in 2 .. 5 /\ 4 \in 2 .. 5 /\ 5 \in 2 .. 5
        OBVIOUS
    <2>2. 2 - 1 = 1 /\ 3 - 1 = 2 /\ 4 - 1 = 3 /\ 5 - 1 = 4
        OBVIOUS
    <2>3. start[1] = 1 /\ \A k \in 2 .. 5 : start[k] = NextStart(encoded, start[k - 1])
        BY NumberStarts
    <2> HIDE DEF start, encoded
    <2> QED
        BY <2>1, <2>2, <2>3
<1>4. e12 \in Seq(Byte) /\ e34 \in Seq(Byte) /\ e123 \in Seq(Byte) /\ e234 \in Seq(Byte)
    <2> HIDE DEF e1, e2, e3, e4
    <2> QED
        BY <1>1, JoinType
<1>5. <<>> \in Seq(Byte) /\ Len(<<>>) = 0
    OBVIOUS
<1>6. /\ encoded = Join(<<>>, Join(e1, e234)) /\ encoded = Join(e1, Join(e2, e34))
      /\ encoded = Join(e12, Join(e3, e4)) /\ encoded = Join(e123, Join(e4, <<>>))
    <2>1. Join(<<>>, Join(e1, e234)) = Join(e1, e234)
        <3> DEFINE all == Join(e1, e234)
        <3>1. all \in Seq(Byte)
            <4> HIDE DEF e1, e234
            <4> QED
                BY <1>1, <1>4, JoinType
        <3> HIDE DEF all
        <3>2. Join(<<>>, all) = all
            BY <3>1, JoinEmpty
        <3> QED
            BY <3>2 DEF all
    <2>2. Join(Join(e1, e2), e34) = Join(e1, Join(e2, e34))
        <3> HIDE DEF e1, e2, e34
        <3> QED
            BY <1>1, <1>4, JoinAssociative
    <2>3. Join(Join(e12, e3), e4) = Join(e12, Join(e3, e4))
        <3> HIDE DEF e12, e3, e4
        <3> QED
            BY <1>1, <1>4, JoinAssociative
    <2>4. Join(e4, <<>>) = e4
        <3> HIDE DEF e4
        <3> QED
            BY <1>1, JoinEmpty
    <2> QED
        BY <1>2, <2>1, <2>2, <2>3, <2>4
<1> HIDE DEF encoded, start
<1>7. ReadBehind(encoded, <<>>, r.numbers[1])
    <2> HIDE DEF e234
    <2> QED
        BY <1>1, <1>4, <1>5, <1>6, PartRead
<1>8. ReadBehind(encoded, e1, r.numbers[2])
    <2> HIDE DEF e1, e34
    <2> QED
        BY <1>1, <1>4, <1>6, PartRead
<1>9. ReadBehind(encoded, e12, r.numbers[3])
    <2> HIDE DEF e12, e4
    <2> QED
        BY <1>1, <1>4, <1>6, PartRead
<1>10. ReadBehind(encoded, e123, r.numbers[4])
    <2> HIDE DEF e123
    <2> QED
        BY <1>1, <1>4, <1>5, <1>6, PartRead
<1>11. /\ Len(e12) = Len(e1) + Len(e2) /\ Len(e123) = Len(e12) + Len(e3)
       /\ Len(encoded) = Len(e123) + Len(e4)
    <2>1. encoded = Join(e123, e4)
        <3>1. Join(e4, <<>>) = e4
            <4> HIDE DEF e4
            <4> QED
                BY <1>1, JoinEmpty
        <3> QED
            BY <1>6, <3>1
    <2>2. Len(e12) = Len(e1) + Len(e2)
        <3> HIDE DEF e1, e2
        <3> QED
            BY <1>1, JoinElements
    <2>3. Len(e123) = Len(e12) + Len(e3)
        <3> HIDE DEF e12, e3
        <3> QED
            BY <1>1, <1>4, JoinElements
    <2>4. Len(Join(e123, e4)) = Len(e123) + Len(e4)
        <3> HIDE DEF e123, e4
        <3> QED
            BY <1>1, <1>4, JoinElements
    <2> QED
        BY <2>1, <2>2, <2>3, <2>4
<1>12. /\ start[1] = 1 /\ start[2] = Len(e1) + 1 /\ start[3] = Len(e12) + 1
       /\ start[4] = Len(e123) + 1 /\ start[5] = Len(encoded) + 1
    <2>1. Len(<<>>) + 1 = 1 /\ Len(<<>>) + Len(e1) + 1 = Len(e1) + 1
        <3>1. Len(e1) \in Nat
            BY <1>1
        <3> HIDE DEF e1
        <3> QED
            BY <1>5, <3>1
    <2>2. /\ NextStart(encoded, 1) = Len(e1) + 1
          /\ NextStart(encoded, Len(e1) + 1) = Len(e12) + 1
          /\ NextStart(encoded, Len(e12) + 1) = Len(e123) + 1
          /\ NextStart(encoded, Len(e123) + 1) = Len(encoded) + 1
        BY <1>7, <1>8, <1>9, <1>10, <1>11, <2>1 DEF ReadBehind
    <2> QED
        BY <1>3, <2>2
<1>13. /\ ReadsAs(SubSeq(encoded, start[1], start[2] - 1), r.numbers[1])
       /\ ReadsAs(SubSeq(encoded, start[2], start[3] - 1), r.numbers[2])
       /\ ReadsAs(SubSeq(encoded, start[3], start[4] - 1), r.numbers[3])
       /\ ReadsAs(SubSeq(encoded, start[4], start[5] - 1), r.numbers[4])
    <2>1. Len(<<>>) + 1 = 1
        BY <1>5
    <2> HIDE DEF e1, e12, e123
    <2> QED
        BY <1>3, <1>7, <1>8, <1>9, <1>10, <1>12, <2>1 DEF ReadBehind
<1>14. ASSUME NEW k \in 1 .. 4
       PROVE  ReadsAs(SubSeq(encoded, start[k], start[k + 1] - 1), r.numbers[k])
    <2>1. k = 1 \/ k = 2 \/ k = 3 \/ k = 4
        OBVIOUS
    <2>2. 1 + 1 = 2 /\ 2 + 1 = 3 /\ 3 + 1 = 4 /\ 4 + 1 = 5
        OBVIOUS
    <2> QED
        BY <1>13, <2>1, <2>2
<1> QED
    BY <1>12, <1>14 DEF start, encoded

LEMMA BytesOfJoined ==
    ASSUME NEW s \in Seq(Byte), NEW t \in Seq(Byte)
    PROVE  bytes(Join(s, t)) = Join(bytes(s), bytes(t))
<1> DEFINE all == Join(s, t)
           left == bytes(all)
           right == Join(bytes(s), bytes(t))
<1>1. /\ all \in Seq(Byte) /\ Len(all) = Len(s) + Len(t)
      /\ \A k \in 1 .. Len(s) + Len(t) : all[k] = IF k <= Len(s) THEN s[k] ELSE t[k - Len(s)]
    BY JoinElements
<1>2. /\ bytes(s) \in Seq(PlainPiece) /\ Len(bytes(s)) = Len(s)
      /\ bytes(t) \in Seq(PlainPiece) /\ Len(bytes(t)) = Len(t)
    BY BytePieces
<1>3. /\ right \in Seq(PlainPiece) /\ Len(right) = Len(bytes(s)) + Len(bytes(t))
      /\ \A k \in 1 .. Len(bytes(s)) + Len(bytes(t)) :
            right[k] = IF k <= Len(bytes(s)) THEN bytes(s)[k] ELSE bytes(t)[k - Len(bytes(s))]
    BY <1>2, JoinElements
<1> HIDE DEF all, right
<1>4. left \in Seq(PlainPiece) /\ Len(left) = Len(s) + Len(t)
    BY <1>1, BytePieces
<1>5. Len(s) \in Nat /\ Len(t) \in Nat
    OBVIOUS
<1>6. ASSUME NEW k \in 1 .. Len(s) + Len(t) PROVE left[k] = right[k]
    <2>1. left[k] = byte(all[k])
        BY <1>1 DEF bytes
    <2>2. CASE k <= Len(s)
        <3>1. k \in 1 .. Len(s)
            BY <1>5, <2>2
        <3>2. bytes(s)[k] = byte(s[k])
            BY <3>1 DEF bytes
        <3> QED
            BY <1>1, <1>2, <1>3, <2>1, <2>2, <3>2
    <2>3. CASE ~(k <= Len(s))
        <3>1. k - Len(s) \in 1 .. Len(t)
            BY <1>5, <2>3
        <3>2. bytes(t)[k - Len(s)] = byte(t[k - Len(s)])
            BY <3>1 DEF bytes
        <3> QED
            BY <1>1, <1>2, <1>3, <2>1, <2>3, <3>2
    <2> QED
        BY <2>2, <2>3
<1>7. left = right
    <2> HIDE DEF left
    <2> QED
        BY <1>2, <1>3, <1>4, <1>6, SeqEqual
<1> QED
    BY <1>7 DEF right, all

LEMMA FourNumbersBytes ==
    ASSUME NEW r \in Requests
    PROVE  FourNumbers(r) = bytes(NumberBytes(r))
<1> DEFINE e1 == scaleEncodeUint64(r.numbers[1])
           e2 == scaleEncodeUint64(r.numbers[2])
           e3 == scaleEncodeUint64(r.numbers[3])
           e4 == scaleEncodeUint64(r.numbers[4])
           e34 == Join(e3, e4)
           e234 == Join(e2, e34)
<1>1. e1 \in Seq(Byte) /\ e2 \in Seq(Byte) /\ e3 \in Seq(Byte) /\ e4 \in Seq(Byte)
    BY EncodedNumbers
<1>2. FourNumbers(r) = Join(bytes(e1), Join(bytes(e2), Join(bytes(e3), bytes(e4))))
    BY DEF FourNumbers, Number
<1>3. NumberBytes(r) = Join(e1, e234)
    BY DEF NumberBytes
<1> HIDE DEF e1, e2, e3, e4
<1>4. e34 \in Seq(Byte) /\ bytes(e34) = Join(bytes(e3), bytes(e4))
    BY <1>1, JoinType, BytesOfJoined
<1> HIDE DEF e34
<1>5. e234 \in Seq(Byte) /\ bytes(e234) = Join(bytes(e2), bytes(e34))
    BY <1>1, <1>4, JoinType, BytesOfJoined
<1> HIDE DEF e234
<1>6. bytes(Join(e1, e234)) = Join(bytes(e1), bytes(e234))
    BY <1>1, <1>5, BytesOfJoined
<1> QED
    BY <1>2, <1>3, <1>4, <1>5, <1>6

\* Behind the two first pieces of a vault's input lie these bytes.
LEMMA HashedBytes ==
    ASSUME NEW r \in Requests, r.type = "VAULT"
    PROVE  [k \in 1 .. Len(Input(r)) - 2 |-> Input(r)[k + 2][2]] = NumberBytes(r)
<1> DEFINE h == VaultHeader(r)
           e == NumberBytes(r)
           b == bytes(e)
           in == Join(h, b)
           s == [k \in 1 .. Len(in) - 2 |-> in[k + 2][2]]
<1>1. Input(r) = in
    BY VaultInput, FourNumbersBytes DEF Join
<1>2. h \in Seq(Piece) /\ Len(h) = 2
    BY VaultHeaderType
<1>3. e \in Seq(Byte)
    BY NumberBytesType
<1> HIDE DEF e
<1>4. b \in Seq(Piece) /\ Len(b) = Len(e) /\ \A k \in 1 .. Len(e) : b[k] = <<"byte", e[k]>>
    <2>1. b \in Seq(Piece) /\ Len(b) = Len(e)
        BY <1>3, BytePieces, PlainSequences
    <2> QED
        BY <2>1 DEF bytes, byte
<1> HIDE DEF h, b
<1>5. /\ Len(in) = Len(h) + Len(b)
      /\ \A k \in 1 .. Len(h) + Len(b) : in[k] = IF k <= Len(h) THEN h[k] ELSE b[k - Len(h)]
    BY <1>2, <1>4, JoinElements
<1> HIDE DEF in
<1>6. Len(e) \in Nat
    BY <1>3
<1>7. Len(in) - 2 = Len(e)
    BY <1>2, <1>4, <1>5, <1>6
<1>8. ASSUME NEW k \in 1 .. Len(e) PROVE in[k + 2][2] = e[k]
    <2>1. k + 2 \in 1 .. 2 + Len(e) /\ ~(k + 2 <= 2) /\ k + 2 - 2 = k
        BY <1>6
    <2>2. in[k + 2] = b[k]
        BY <1>2, <1>4, <1>5, <2>1
    <2> QED
        BY <1>4, <2>2
<1>9. s = [k \in 1 .. Len(e) |-> e[k]]
    BY <1>7, <1>8
<1>10. [k \in 1 .. Len(e) |-> e[k]] = e
    BY <1>3
<1>11. s = e
    BY <1>9, <1>10
<1> QED
    BY <1>1, <1>11 DEF e

-----------------------------------------------------------------------------
\* No account is hashed to its end before its settings are checked.

\* The settings of an account are accepted once its keys are hashed, and those of a
\* vault's owner all through the vault's own hash.
CheckedInv ==
    /\ pc \in {"vesting", "numbers", "finalize", "done"} => Accepted(request)
    /\ pc \in {"init", "template"} /\ encoding = "VAULT" => Accepted(request)

LEMMA NextCheckedInv == IInv /\ CheckedInv /\ [Next]_vars => CheckedInv'
<1> SUFFICES ASSUME IInv, CheckedInv, [Next]_vars PROVE CheckedInv'
    OBVIOUS
<1> USE DEF localVars, hasherVars
<1>1. CASE FillAddress \/ ExtractPublicKeyFails \/ Dismiss
    BY <1>1 DEF FillAddress, ExtractPublicKeyFails, Dismiss, CheckedInv
<1>2. CASE ExtractPublicKey
    <2>1. encoding' # "VAULT"
        BY <1>2 DEF ExtractPublicKey, FirstEncoding
    <2> QED
        BY <1>2, <2>1 DEF ExtractPublicKey, CheckedInv
<1>3. CASE HashInit
    BY <1>3 DEF HashInit, CheckedInv
<1>4. CASE HashTemplate
    <2>1. pc = "template" /\ pc' \in {AfterTemplate(encoding), "refused"} /\ UNCHANGED <<request, encoding>>
        BY <1>4 DEF HashTemplate, Update
    <2>2. AfterTemplate(encoding) = "vesting" \/ AfterTemplate(encoding) \in {"pubkey", "settings"}
        BY DEF AfterTemplate, IInv, TypeOK, AccountType
    <2>3. AfterTemplate(encoding) = "vesting" => encoding = "VAULT"
        BY DEF AfterTemplate, IInv, TypeOK, AccountType
    <2> QED
        BY <2>1, <2>2, <2>3 DEF CheckedInv, Accepted
<1>5. CASE HashWalletPubkey
    <2>1. request.type = "WALLET"
        BY <1>5, RequestTypes
        DEF HashWalletPubkey, IInv, TypeOK, EncodingInv, HasherInv, Active, FirstEncoding
    <2>2. request' = request /\ pc' \in {"finalize", "refused"}
        BY <1>5 DEF HashWalletPubkey, Update
    <2> QED
        BY <2>1, <2>2 DEF CheckedInv, Accepted
<1>6. CASE CheckSettings \/ HashApprovers \/ HashParticipants
    <2>1. pc' \in {"approvers", "participants", "keys", "refused"}
        BY <1>6 DEF CheckSettings, HashApprovers, HashParticipants, Update
    <2> QED
        BY <2>1 DEF CheckedInv
<1>7. CASE HashKey
    <2>1. pc' \in {"keys", "refused"}
        BY <1>7 DEF HashKey, Update
    <2> QED
        BY <2>1 DEF CheckedInv
<1>8. CASE KeysDone
    <2>1. SettingsAccepted(request)
        BY <1>8 DEF KeysDone, IInv, HasherInv
    <2> QED
        BY <1>8, <2>1 DEF KeysDone, CheckedInv, Accepted
<1>9. CASE HashVestingAddress
    BY <1>9 DEF HashVestingAddress, Update, CheckedInv, Accepted
<1>10. CASE updateScaleEncodedNumber
    <2>1. pc = "numbers" /\ pc' \in {"numbers", "refused"} /\ request' = request
        BY <1>10 DEF updateScaleEncodedNumber, Update
    <2> QED
        BY <2>1 DEF CheckedInv, Accepted
<1>11. CASE NumbersDone
    BY <1>11 DEF NumbersDone, CheckedInv, Accepted
<1>12. CASE FinalizeOwner
    BY <1>12 DEF FinalizeOwner, StageAfterOwner, CheckedInv, Accepted
<1>13. CASE Finalize
    BY <1>13 DEF Finalize, CheckedInv, Accepted
<1>14. CASE UNCHANGED vars
    BY <1>14 DEF vars, CheckedInv, Accepted
<1> QED
    BY <1>1, <1>2, <1>3, <1>4, <1>5, <1>6, <1>7, <1>8, <1>9, <1>10, <1>11, <1>12, <1>13, <1>14
    DEF Next

-----------------------------------------------------------------------------
\* Theorems.

LEMMA NextIInv == IInv /\ [Next]_vars => IInv'
BY FillAddressStep, ExtractPublicKeyStep, HashInitStep, HashTemplateStep, HashWalletPubkeyStep,
   CheckSettingsStep, HashApproversStep, HashParticipantsStep, HashKeyStep, KeysDoneStep,
   HashVestingAddressStep, NumberStep, NumbersDoneStep, FinalizeOwnerStep, FinalizeStep,
   DismissStep, StutterStep DEF Next

LEMMA IInvAlways == Spec => []IInv
BY InitIInv, NextIInv, PTL DEF Spec

\* The state keeps its types: no loop of the encoders leaves its array and the count of
\* the input stays below its limit.
THEOREM EncodingTypes == Spec => []TypeOK
<1>1. IInv => TypeOK
    BY DEF IInv
<1> QED
    BY <1>1, IInvAlways, PTL

\* Every address in a reply is the hash of its own request, for any requests, in any
\* order, refused ones among them.
THEOREM AddressOfItsRequest == Spec => []AddressIsOfItsRequest
<1>1. IInv => AddressIsOfItsRequest
    BY DEF IInv, Outcome
<1> QED
    BY <1>1, IInvAlways, PTL

\* No sound request is ever refused, whatever the hasher was fed before.
THEOREM SoundRequestsServed == Spec => []SoundRequestServed
<1>1. IInv => SoundRequestServed
    BY DEF IInv, Outcome
<1> QED
    BY <1>1, IInvAlways, PTL

LEMMA CheckedAlways == Spec => []CheckedInv
<1>1. Init => CheckedInv
    BY DEF Init, CheckedInv
<1> QED
    BY <1>1, IInvAlways, NextCheckedInv, PTL DEF Spec

\* Different accounts never get the same address, for any keys, any counts of
\* participants and any numbers: the hashed input is uniquely readable, once
\* the settings have been checked.
THEOREM AddressesTellAccountsApart == Spec => []DistinctAccountsDistinctAddresses
<1>1. IInv /\ CheckedInv => DistinctAccountsDistinctAddresses
    <2> SUFFICES ASSUME IInv, CheckedInv, pc = "done", NumbersFit(request), NEW other \in Requests,
                        other.type = "WALLET" \/ Sound(other),
                        response.address = Address(Input(other))
                 PROVE  SameAccount(other, request)
        BY DEF DistinctAccountsDistinctAddresses
    <2>1. request \in Requests
        BY DEF IInv, TypeOK
    <2>2. Accepted(request)
        BY DEF CheckedInv
    <2>3. Accepted(other)
        BY SoundAccepted DEF Accepted
    <2>4. response = [pubkey |-> request.internal, address |-> Address(Input(request))]
        BY DEF IInv, Outcome, AddressIsOfItsRequest
    <2>5. Input(other) = Input(request)
        BY <2>4 DEF Address
    <2> QED
        BY <2>1, <2>2, <2>3, <2>5, SameInputSameAccount
<1> QED
    BY <1>1, IInvAlways, CheckedAlways, PTL

\* Where every number of every request is below 2^56, no encoding is longer than the
\* array it is written to (docs/APDUSPEC.md allows 64 bits: see NumbersFitTheirArray).
THEOREM SevenBytesFit ==
    ASSUME \A r \in Requests, k \in 1 .. 4 : r.numbers[k][8] = 0
    PROVE  Spec => []NumbersFitTheirArray
<1>1. IInv => NumbersFitTheirArray
    <2> SUFFICES ASSUME IInv, pc = "numbers", i < 4
                 PROVE  Len(scaleEncodeUint64(request.numbers[i + 1])) <= ENC_NUM_SIZE
        BY DEF NumbersFitTheirArray
    <2>1. request \in Requests /\ i + 1 \in 1 .. 4
        BY Sizes DEF IInv, TypeOK
    <2>2. request.numbers[i + 1] \in UInt64 /\ request.numbers[i + 1][8] = 0
        BY <2>1, RequestTypes
    <2> QED
        BY <2>2, FitsSevenBytes
<1> QED
    BY <1>1, IInvAlways, PTL

\* What a vault's address hashes of its four numbers is read back by the application's
\* own reader of compact integers, for any four numbers below 2^56.
THEOREM HashedNumbersReadBackAlways == Spec => []HashedNumbersReadBack
<1>1. IInv => HashedNumbersReadBack
    <2> SUFFICES ASSUME IInv, pc = "done", request.type = "VAULT", NumbersFit(request)
                 PROVE  HashedNumbersReadBack
        BY DEF HashedNumbersReadBack
    <2>1. request \in Requests
        BY DEF IInv, TypeOK
    <2>2. response.address = Input(request)
        BY DEF IInv, Outcome, AddressIsOfItsRequest, Address
    <2> DEFINE hashed == [k \in 1 .. Len(response.address) - 2 |-> response.address[k + 2][2]]
    <2>3. hashed = NumberBytes(request)
        BY <2>1, <2>2, HashedBytes
    <2>4. /\ NumberStart(hashed)[5] = Len(hashed) + 1
          /\ \A k \in 1 .. 4 :
                ReadsAs(SubSeq(hashed, NumberStart(hashed)[k], NumberStart(hashed)[k + 1] - 1),
                        request.numbers[k])
        BY <2>1, <2>3, NumbersReadBack
    <2> HIDE DEF hashed
    <2> QED
        BY <2>4 DEF HashedNumbersReadBack, hashed
<1> QED
    BY <1>1, IInvAlways, PTL
=============================================================================
