------------------------ MODULE MessageReview_proofs ------------------------
(***************************************************************************)
(* Proofs about MessageReview for every set of payloads, every memory and  *)
(* every history of messages and other uploads.                            *)
(***************************************************************************)
EXTENDS MessageReview, SequenceTheorems, TLAPS

\* Where the cursor is, as a sum of the lengths read so far.
Cursor ==
    /\ pc = "lengths" => offset = 0 /\ len > 0
    /\ pc \in {"prefix", "domain", "message", "end", "review", "signed"} =>
        /\ prefix_len = readUInt16(0)
        /\ message_len = readUInt16(PARSER_MESSAGE_PREFIX_LEN)
    /\ pc = "prefix" => offset = HeaderLen /\ offset <= len
    /\ pc = "domain" => offset = HeaderLen + prefix_len /\ offset <= len
    /\ pc = "message" => offset = HeaderLen + prefix_len + 1 /\ offset <= len
    /\ pc = "end" => offset = HeaderLen + prefix_len + 1 + message_len /\ offset <= len
    /\ pc \in {"review", "signed"} => len = HeaderLen + prefix_len + 1 + message_len

\* What the object holds of the fields the payload has.
ObjectRead ==
    /\ pc \in {"domain", "message", "end", "review", "signed"} =>
        (prefix_len > 0 => obj.prefix = FieldAt(HeaderLen, prefix_len))
    /\ pc \in {"message", "end", "review", "signed"} =>
        obj.domain = mem[HeaderLen + prefix_len] /\ obj.domain \in Domain
    /\ pc \in {"end", "review", "signed"} =>
        (message_len > 0 => obj.message = FieldAt(HeaderLen + prefix_len + 1, message_len))

\* What is signed, and what is refused.
Outcome ==
    /\ pc = "signed" => signed = Slice(mem, HeaderLen, len - HeaderLen)
    /\ pc = "refused" => ~WellFormed

IInv == TypeOK /\ Cursor /\ ObjectRead /\ Outcome

-----------------------------------------------------------------------------

\* The constants as numbers.
LEMMA Sizes ==
    /\ PARSER_MESSAGE_PREFIX_LEN = 2 /\ HeaderLen = 4
    /\ MemSize \in Nat /\ MemSize < 65536 /\ 4 < MemSize
    /\ 0 \in Byte /\ \A b \in Byte : b \in Nat /\ b < 256
    /\ \A payload \in Payloads : payload \in Seq(Byte) /\ Len(payload) <= MemSize
BY MemoryAssumption DEF PARSER_MESSAGE_PREFIX_LEN, PARSER_MESSAGE_MESSAGE_LEN, HeaderLen, UInt16

\* The bytes behind the memory.
LEMMA BehindIsBytes ==
    ASSUME NEW behind \in Behinds, NEW n \in Nat, n < 65536
    PROVE  behind[n] \in Byte
<1>1. MaxUInt16 \in Nat /\ n <= MaxUInt16
    BY DEF MaxUInt16
<1>2. n \in 0 .. MaxUInt16
    BY <1>1
<1>3. Behinds \subseteq [0 .. MaxUInt16 -> Byte]
    BY MemoryAssumption DEF MemoryAssumption
<1>4. behind \in [0 .. MaxUInt16 -> Byte]
    BY <1>3
<1> QED
    BY <1>2, <1>4

\* A slice of the memory is a sequence of its bytes.
LEMMA SliceIsBytes ==
    ASSUME NEW memory \in [0 .. MemSize - 1 -> Byte], NEW at \in Nat, NEW size \in Nat,
           at + size <= MemSize
    PROVE  Slice(memory, at, size) \in Seq(Byte) /\ Len(Slice(memory, at, size)) = size
<1>1. ASSUME NEW k \in 1 .. size PROVE memory[at + k - 1] \in Byte
    <2>1. at + k - 1 \in 0 .. MemSize - 1
        BY Sizes
    <2> QED
        BY <2>1
<1> QED
    BY <1>1 DEF Slice

\* A screen shows bytes, wherever the object points.
LEMMA ShownIsBytes ==
    ASSUME NEW behind \in Behinds, NEW field \in Bytes_t, TypeOK
    PROVE  Shown(field, behind) \in Seq(Byte)
<1> DEFINE at(k) == field.ptr + k - 1
<1>1. field.ptr \in Nat /\ field.ptr <= MemSize /\ field.len \in Nat /\ field.len < 65536
    BY Sizes DEF Bytes_t, UInt16
<1>2. ASSUME NEW k \in 1 .. field.len
      PROVE  (IF at(k) < MemSize THEN mem[at(k)] ELSE behind[at(k) - MemSize]) \in Byte
    <2>1. CASE at(k) < MemSize
        <3>1. at(k) \in 0 .. MemSize - 1
            BY <1>1, <2>1, Sizes
        <3> QED
            BY <2>1, <3>1 DEF TypeOK
    <2>2. CASE ~(at(k) < MemSize)
        <3>1. at(k) - MemSize \in Nat /\ at(k) - MemSize < 65536
            BY <1>1, <2>2, Sizes
        <3> HIDE DEF at
        <3>2. behind[at(k) - MemSize] \in Byte
            BY <3>1, BehindIsBytes
        <3> QED
            BY <2>2, <3>2
    <2> QED
        BY <2>1, <2>2
<1> QED
    BY <1>1, <1>2 DEF Shown

\* A field inside the memory is shown as it lies there.
LEMMA ShownInside ==
    ASSUME NEW behind, NEW at \in Nat, NEW size \in Nat, at + size <= MemSize
    PROVE  Shown(FieldAt(at, size), behind) = Slice(mem, at, size)
<1>1. \A k \in 1 .. size : at + k - 1 < MemSize
    BY Sizes
<1> QED
    BY <1>1 DEF Shown, FieldAt, Slice

\* Two adjacent slices, one behind the other, are a slice.
LEMMA SlicesJoin ==
    ASSUME NEW memory \in [0 .. MemSize - 1 -> Byte], NEW at \in Nat, NEW m \in Nat, NEW n \in Nat,
           NEW next, NEW total, next = at + m, total = m + n, at + total <= MemSize
    PROVE  Slice(memory, at, m) \o Slice(memory, next, n) = Slice(memory, at, total)
<1> DEFINE front == Slice(memory, at, m)
           back == Slice(memory, next, n)
           all == Slice(memory, at, total)
<1>1. front \in Seq(Byte) /\ Len(front) = m
    BY Sizes, SliceIsBytes
<1>2. back \in Seq(Byte) /\ Len(back) = n
    BY Sizes, SliceIsBytes
<1>3. all \in Seq(Byte) /\ Len(all) = m + n
    BY Sizes, SliceIsBytes
<1>4. front \o back \in Seq(Byte) /\ Len(front \o back) = m + n
    BY <1>1, <1>2
<1>5. ASSUME NEW k \in 1 .. m + n PROVE (front \o back)[k] = all[k]
    <2>1. all[k] = memory[at + k - 1]
        BY DEF Slice
    <2>2. CASE k <= m
        <3>1. (front \o back)[k] = front[k]
            BY <1>1, <1>2, <2>2
        <3>2. front[k] = memory[at + k - 1]
            BY <2>2 DEF Slice
        <3> QED
            BY <2>1, <3>1, <3>2
    <2>3. CASE m < k
        <3>1. (front \o back)[k] = back[k - m]
            BY <1>1, <1>2, <2>3
        <3>2. k - m \in 1 .. n /\ next + (k - m) - 1 = at + k - 1
            BY <2>3
        <3>3. back[k - m] = memory[next + (k - m) - 1]
            BY <3>2 DEF Slice
        <3> QED
            BY <2>1, <3>1, <3>2, <3>3
    <2>4. k \in Int /\ m \in Int
        OBVIOUS
    <2>5. k <= m \/ m < k
        BY <2>4
    <2> QED
        BY <2>2, <2>3, <2>5
<1> QED
    <2> HIDE DEF front, back, all
    <2>1. front \o back = all
        BY <1>3, <1>4, <1>5, SeqEqual
    <2> QED
        BY <2>1 DEF front, back, all

\* Two bytes of the memory are a uint16_t.
LEMMA ReadsUInt16 ==
    ASSUME TypeOK, NEW at \in Nat, at + 1 < MemSize
    PROVE  readUInt16(at) \in Nat /\ readUInt16(at) < 65536
<1>1. at \in 0 .. MemSize - 1 /\ at + 1 \in 0 .. MemSize - 1
    BY Sizes
<1>2. mem[at] \in Byte /\ mem[at + 1] \in Byte
    BY <1>1 DEF TypeOK
<1>3. mem[at] \in Nat /\ mem[at + 1] \in Nat /\ mem[at] < 256 /\ mem[at + 1] < 256
    BY <1>2, Sizes
<1> QED
    BY <1>3 DEF readUInt16

\* The numbers of the state, for arithmetic.
LEMMA Numbers ==
    ASSUME TypeOK
    PROVE  /\ len \in Nat /\ offset \in Nat /\ len <= MemSize /\ offset <= MemSize
           /\ prefix_len \in Nat /\ prefix_len < 65536
           /\ message_len \in Nat /\ message_len < 65536
BY Sizes DEF TypeOK, UInt16

-----------------------------------------------------------------------------

LEMMA InitIInv == Init => IInv
<1> SUFFICES ASSUME Init PROVE IInv
    OBVIOUS
<1>1. NoBytes \in Bytes_t
    BY Sizes DEF NoBytes, Bytes_t, UInt16
<1>2. TypeOK
    BY <1>1, Sizes DEF Init, TypeOK, ClearedObject, Object, Stages, UInt16
<1> QED
    BY <1>2 DEF Init, IInv, Cursor, ObjectRead, Outcome

\* The memory and the length an upload leaves.
LEMMA UploadTypes ==
    ASSUME TypeOK, NEW payload \in Payloads
    PROVE  Overwritten(payload) \in [0 .. MemSize - 1 -> Byte] /\ Len(payload) \in 0 .. MemSize
<1>1. payload \in Seq(Byte) /\ Len(payload) \in Nat /\ Len(payload) <= MemSize
    BY Sizes
<1>2. ASSUME NEW k \in 0 .. MemSize - 1
      PROVE  (IF k < Len(payload) THEN payload[k + 1] ELSE mem[k]) \in Byte
    <2>1. CASE k < Len(payload)
        <3>1. k + 1 \in 1 .. Len(payload)
            BY <1>1, <2>1
        <3> QED
            BY <1>1, <2>1, <3>1
    <2>2. CASE ~(k < Len(payload))
        BY <2>2 DEF TypeOK
    <2> QED
        BY <2>1, <2>2
<1> QED
    BY <1>1, <1>2, Sizes DEF Overwritten

\* A byte that is there is a byte.
LEMMA NextByte ==
    ASSUME TypeOK, Available(1)
    PROVE  offset \in 0 .. MemSize - 1 /\ mem[offset] \in Byte /\ offset + 1 \in 0 .. MemSize
<1>1. offset \in 0 .. MemSize - 1
    BY Numbers, Sizes DEF Available
<1> QED
    BY <1>1, Sizes DEF TypeOK

\* A field that is read starts in the memory, and ends there if it fits.
LEMMA NextField ==
    ASSUME TypeOK, NEW size \in UInt16
    PROVE  /\ FieldAt(offset, size) \in Bytes_t
           /\ Fits(size) => offset + size \in 0 .. MemSize
<1>1. offset \in 0 .. MemSize
    BY DEF TypeOK
<1>2. size \in Nat
    BY DEF UInt16
<1>3. Fits(size) => offset + size \in 0 .. MemSize
    BY <1>2, Numbers, Sizes DEF Fits, Available
<1> QED
    BY <1>1, <1>3 DEF FieldAt, Bytes_t

\* No message that reaches the review is shorter than its lengths, so the length to
\* sign does not wrap.
LEMMA LengthToSign ==
    ASSUME TypeOK, Cursor, pc = "review"
    PROVE  /\ messageLength = len - HeaderLen /\ messageLength \in Nat
           /\ HeaderLen + messageLength <= MemSize
<1>1. len - HeaderLen \in Nat /\ len - HeaderLen < 65536
    BY Numbers, Sizes DEF Cursor
<1>2. messageLength = len - HeaderLen
    BY <1>1 DEF messageLength
<1> QED
    BY <1>1, <1>2, Numbers, Sizes

\* The types are kept by every step.
LEMMA NextTypeOK == TypeOK /\ Cursor /\ [Next]_vars => TypeOK'
<1> SUFFICES ASSUME TypeOK, Cursor, [Next]_vars PROVE TypeOK'
    OBVIOUS
<1> USE DEF TypeOK
<1>1. ASSUME NEW payload \in Payloads, Receive(payload) PROVE TypeOK'
    <2>1. 0 \in 0 .. MemSize
        BY Sizes
    <2> QED
        BY <1>1, <2>1, UploadTypes DEF Receive, Stages
<1>2. ASSUME NEW payload \in Payloads, OtherUpload(payload) PROVE TypeOK'
    BY <1>2, UploadTypes DEF OtherUpload
<1>3. CASE Restart
    <2>1. NoBytes \in Bytes_t
        BY Sizes DEF NoBytes, Bytes_t, UInt16
    <2> QED
        BY <1>3, <2>1, Sizes DEF Restart, ClearedObject, Object, Stages, UInt16
<1>4. CASE ReadLengths
    <2>1. CASE Available(HeaderLen)
        <3>1. offset \in Nat /\ offset + 4 <= MemSize
            BY <2>1, Numbers, Sizes DEF Available
        <3>2. offset + 4 \in 0 .. MemSize
            BY <3>1, Sizes
        <3>3. readUInt16(offset) \in UInt16
            BY <3>1, Sizes, ReadsUInt16 DEF UInt16
        <3>4. readUInt16(offset + 2) \in UInt16
            BY <3>1, Sizes, ReadsUInt16 DEF UInt16
        <3> QED
            BY <1>4, <2>1, <3>2, <3>3, <3>4, Sizes DEF ReadLengths, Stages
    <2>2. CASE ~Available(HeaderLen)
        BY <1>4, <2>2 DEF ReadLengths, Refuse, Stages
    <2> QED
        BY <2>1, <2>2
<1>5. CASE ReadPrefix
    <2>1. offset' \in 0 .. MemSize
        BY <1>5, NextField DEF ReadPrefix
    <2>2. obj' \in Object
        BY <1>5, NextField DEF ReadPrefix, Object
    <2> QED
        BY <1>5, <2>1, <2>2 DEF ReadPrefix, Refuse, Stages
<1>6. CASE ReadDomain
    BY <1>6, NextByte DEF ReadDomain, Refuse, Stages, Object
<1>7. CASE ReadMessage
    <2>1. offset' \in 0 .. MemSize
        BY <1>7, NextField DEF ReadMessage
    <2>2. obj' \in Object
        BY <1>7, NextField DEF ReadMessage, Object
    <2> QED
        BY <1>7, <2>1, <2>2 DEF ReadMessage, Refuse, Stages
<1>8. CASE ReadEnd
    BY <1>8 DEF ReadEnd, Stages
<1>9. CASE AppMessageSign
    <2>1. mem \in [0 .. MemSize - 1 -> Byte] /\ HeaderLen \in Nat
        BY Sizes DEF TypeOK
    <2>2. messageLength \in Nat /\ HeaderLen + messageLength <= MemSize
        BY <1>9, LengthToSign, Numbers, Sizes DEF AppMessageSign
    <2>3. Slice(mem, HeaderLen, messageLength) \in Seq(Byte)
        BY <2>1, <2>2, SliceIsBytes
    <2> QED
        BY <1>9, <2>3 DEF AppMessageSign, Stages
<1>10. CASE Answer
    BY <1>10 DEF Answer, Stages, UInt16
<1>11. CASE UNCHANGED vars
    BY <1>11 DEF vars
<1> QED
    BY <1>1, <1>2, <1>3, <1>4, <1>5, <1>6, <1>7, <1>8, <1>9, <1>10, <1>11 DEF Next

-----------------------------------------------------------------------------

\* The cursor after every step.
LEMMA NextCursor == TypeOK /\ Cursor /\ [Next]_vars => Cursor'
<1> SUFFICES ASSUME TypeOK, Cursor, [Next]_vars PROVE Cursor'
    OBVIOUS
<1> USE DEF Cursor
<1>1. ASSUME NEW payload \in Payloads, Receive(payload) PROVE Cursor'
    <2>1. payload # <<>> => Len(payload) > 0
        BY Sizes
    <2> QED
        BY <1>1, <2>1 DEF Receive
<1>2. ASSUME NEW payload \in Payloads, OtherUpload(payload) PROVE Cursor'
    BY <1>2 DEF OtherUpload
<1>3. CASE Restart
    BY <1>3 DEF Restart
<1>4. CASE ReadLengths
    BY <1>4, Numbers, Sizes DEF ReadLengths, Refuse, Available, readUInt16
<1>5. CASE ReadPrefix
    BY <1>5, Numbers, Sizes DEF ReadPrefix, Refuse, Fits, Available, readUInt16
<1>6. CASE ReadDomain
    BY <1>6, Numbers, Sizes DEF ReadDomain, Refuse, Available, readUInt16
<1>7. CASE ReadMessage
    BY <1>7, Numbers, Sizes DEF ReadMessage, Refuse, Fits, Available, readUInt16
<1>8. CASE ReadEnd
    BY <1>8 DEF ReadEnd, AllParsed, readUInt16
<1>9. CASE AppMessageSign
    BY <1>9 DEF AppMessageSign, readUInt16
<1>10. CASE Answer
    BY <1>10 DEF Answer
<1>11. CASE UNCHANGED vars
    BY <1>11 DEF vars, readUInt16
<1> QED
    BY <1>1, <1>2, <1>3, <1>4, <1>5, <1>6, <1>7, <1>8, <1>9, <1>10, <1>11 DEF Next

\* The object after every step.
LEMMA NextObjectRead == TypeOK /\ Cursor /\ ObjectRead /\ [Next]_vars => ObjectRead'
<1> SUFFICES ASSUME TypeOK, Cursor, ObjectRead, [Next]_vars PROVE ObjectRead'
    OBVIOUS
<1> USE DEF ObjectRead
<1>1. ASSUME NEW payload \in Payloads, Receive(payload) \/ OtherUpload(payload) PROVE ObjectRead'
    BY <1>1 DEF Receive, OtherUpload
<1>2. CASE Restart \/ ReadLengths
    BY <1>2 DEF Restart, ReadLengths, Refuse
<1>3. CASE ReadPrefix
    <2>1. offset = HeaderLen
        BY <1>3 DEF ReadPrefix, Cursor
    <2> QED
        BY <1>3, <2>1 DEF ReadPrefix, Refuse, TypeOK, Object
<1>4. CASE ReadDomain
    <2>1. offset = HeaderLen + prefix_len
        BY <1>4 DEF ReadDomain, Cursor
    <2> QED
        BY <1>4, <2>1 DEF ReadDomain, Refuse, TypeOK, Object
<1>5. CASE ReadMessage
    <2>1. offset = HeaderLen + prefix_len + 1
        BY <1>5 DEF ReadMessage, Cursor
    <2> QED
        BY <1>5, <2>1, Numbers DEF ReadMessage, Refuse, TypeOK, Object
<1>6. CASE ReadEnd
    BY <1>6 DEF ReadEnd
<1>7. CASE AppMessageSign
    BY <1>7 DEF AppMessageSign
<1>8. CASE Answer
    BY <1>8 DEF Answer
<1>9. CASE UNCHANGED vars
    BY <1>9 DEF vars
<1> QED
    BY <1>1, <1>2, <1>3, <1>4, <1>5, <1>6, <1>7, <1>8, <1>9 DEF Next

\* The format only depends on the upload.
LEMMA FormatKept == mem' = mem /\ len' = len => (WellFormed' <=> WellFormed)
BY DEF WellFormed, readUInt16

\* What is signed is the slice behind the lengths, and nothing well-formed is refused.
LEMMA NextOutcome == TypeOK /\ Cursor /\ ObjectRead /\ Outcome /\ [Next]_vars => Outcome'
<1> SUFFICES ASSUME TypeOK, Cursor, ObjectRead, Outcome, [Next]_vars PROVE Outcome'
    OBVIOUS
<1> USE DEF Outcome
<1>1. ASSUME NEW payload \in Payloads, Receive(payload) PROVE Outcome'
    <2>1. CASE payload = <<>>
        <3>1. len' = 0
            BY <1>1, <2>1 DEF Receive
        <3>2. ~WellFormed'
            BY <3>1, Sizes DEF WellFormed
        <3> QED
            BY <1>1, <2>1, <3>2 DEF Receive
    <2>2. CASE payload # <<>>
        BY <1>1, <2>2 DEF Receive
    <2> QED
        BY <2>1, <2>2
<1>2. ASSUME NEW payload \in Payloads, OtherUpload(payload) PROVE Outcome'
    BY <1>2 DEF OtherUpload
<1>3. CASE Restart
    BY <1>3 DEF Restart
<1>4. CASE ReadLengths
    <2>1. ~Available(HeaderLen) => ~WellFormed
        BY <1>4, Numbers, Sizes DEF ReadLengths, Cursor, Available, WellFormed
    <2> QED
        BY <1>4, <2>1, FormatKept DEF ReadLengths, Refuse
<1>5. CASE ReadPrefix
    <2>1. pc = "prefix" /\ offset = HeaderLen /\ prefix_len = readUInt16(0)
        BY <1>5 DEF ReadPrefix, Cursor
    <2>2. ~Available(1) \/ ~Fits(prefix_len) => ~WellFormed
        <3>1. readUInt16(PARSER_MESSAGE_PREFIX_LEN) \in Nat
            BY <1>5, Numbers DEF ReadPrefix, Cursor
        <3> QED
            BY <2>1, <3>1, Numbers, Sizes DEF Fits, Available, WellFormed
    <2> QED
        BY <1>5, <2>2, FormatKept DEF ReadPrefix, Refuse
<1>6. CASE ReadDomain
    <2>1. /\ offset = HeaderLen + prefix_len
          /\ prefix_len = readUInt16(0) /\ message_len = readUInt16(PARSER_MESSAGE_PREFIX_LEN)
        BY <1>6 DEF ReadDomain, Cursor
    <2>2. ~Available(1) \/ mem[offset] \notin Domain => ~WellFormed
        BY <2>1, Numbers, Sizes DEF Available, WellFormed
    <2> QED
        BY <1>6, <2>2, FormatKept DEF ReadDomain, Refuse
<1>7. CASE ReadMessage
    <2>1. /\ offset = HeaderLen + prefix_len + 1
          /\ prefix_len = readUInt16(0) /\ message_len = readUInt16(PARSER_MESSAGE_PREFIX_LEN)
        BY <1>7 DEF ReadMessage, Cursor
    <2>2. message_len > 0 /\ (~Available(1) \/ ~Fits(message_len)) => ~WellFormed
        BY <2>1, Numbers, Sizes DEF Fits, Available, WellFormed
    <2> QED
        BY <1>7, <2>2, FormatKept DEF ReadMessage, Refuse
<1>8. CASE ReadEnd
    <2>1. /\ offset = HeaderLen + prefix_len + 1 + message_len
          /\ prefix_len = readUInt16(0) /\ message_len = readUInt16(PARSER_MESSAGE_PREFIX_LEN)
        BY <1>8 DEF ReadEnd, Cursor
    <2>2. ~AllParsed => ~WellFormed
        BY <2>1, Numbers, Sizes DEF AllParsed, WellFormed
    <2> QED
        BY <1>8, <2>2, FormatKept DEF ReadEnd
<1>9. CASE AppMessageSign
    <2>1. messageLength = len - HeaderLen
        BY <1>9, LengthToSign DEF AppMessageSign
    <2> QED
        BY <1>9, <2>1 DEF AppMessageSign
<1>10. CASE Answer
    BY <1>10 DEF Answer
<1>11. CASE UNCHANGED vars
    BY <1>11, FormatKept DEF vars
<1> QED
    BY <1>1, <1>2, <1>3, <1>4, <1>5, <1>6, <1>7, <1>8, <1>9, <1>10, <1>11 DEF Next

\* The invariant is inductive.
LEMMA IInvInductive == (Init => IInv) /\ (IInv /\ [Next]_vars => IInv')
BY InitIInv, NextTypeOK, NextCursor, NextObjectRead, NextOutcome DEF IInv

-----------------------------------------------------------------------------

\* The state keeps its types: the cursor stays inside the memory.
THEOREM TypeCorrect == Spec => []TypeOK
<1>1. IInv => TypeOK
    BY DEF IInv
<1> QED
    BY <1>1, IInvInductive, PTL DEF Spec

\* The parser accepts the format and nothing else.
THEOREM FormatIsAccepted == Spec => []AcceptsTheFormat
<1>1. IInv => AcceptsTheFormat
    <2> SUFFICES ASSUME IInv, pc \in {"review", "signed"} PROVE WellFormed
        BY DEF IInv, Outcome, AcceptsTheFormat
    <2>1. TypeOK /\ Cursor /\ ObjectRead
        BY DEF IInv
    <2>2. /\ len = HeaderLen + prefix_len + 1 + message_len
          /\ prefix_len = readUInt16(0) /\ message_len = readUInt16(PARSER_MESSAGE_PREFIX_LEN)
          /\ mem[HeaderLen + prefix_len] \in Domain
        BY <2>1 DEF Cursor, ObjectRead
    <2>3. len > HeaderLen
        BY <2>1, <2>2, Numbers, Sizes
    <2> QED
        BY <2>2, <2>3 DEF WellFormed
<1> QED
    BY <1>1, IInvInductive, PTL DEF Spec

\* What a screen shows of a field the payload has is the part of the memory where
\* the format puts that field, whatever lies behind the memory.
LEMMA KeptFields ==
    ASSUME TypeOK, Cursor, ObjectRead, pc \in {"review", "signed"}, NEW behind \in Behinds
    PROVE  /\ mem \in [0 .. MemSize - 1 -> Byte] /\ prefix_len \in Nat /\ message_len \in Nat
           /\ len = 4 + prefix_len + 1 + message_len /\ len \in Nat /\ len <= MemSize
           /\ Kept(prefix_len, Shown(obj.prefix, behind)) = Slice(mem, 4, prefix_len)
           /\ obj.domain = mem[4 + prefix_len] /\ obj.domain \in Domain
           /\ Kept(message_len, Shown(obj.message, behind)) = Slice(mem, 4 + prefix_len + 1, message_len)
<1>1. /\ mem \in [0 .. MemSize - 1 -> Byte] /\ prefix_len \in Nat /\ message_len \in Nat
      /\ len \in Nat /\ len <= MemSize
    BY Numbers DEF TypeOK
<1>2. len = 4 + prefix_len + 1 + message_len
    BY Sizes DEF Cursor
<1>3. Kept(prefix_len, Shown(obj.prefix, behind)) = Slice(mem, 4, prefix_len)
    <2>1. CASE prefix_len = 0
        BY <2>1 DEF Kept, Slice
    <2>2. CASE prefix_len > 0
        <3>1. obj.prefix = FieldAt(4, prefix_len)
            BY <2>2, Sizes DEF ObjectRead
        <3>2. 4 \in Nat /\ 4 + prefix_len <= MemSize
            BY <1>1, <1>2, Sizes
        <3> QED
            BY <1>1, <2>2, <3>1, <3>2, ShownInside DEF Kept
    <2> QED
        BY <1>1, <2>1, <2>2
<1>4. Kept(message_len, Shown(obj.message, behind)) = Slice(mem, 4 + prefix_len + 1, message_len)
    <2>1. CASE message_len = 0
        BY <2>1 DEF Kept, Slice
    <2>2. CASE message_len > 0
        <3>1. obj.message = FieldAt(4 + prefix_len + 1, message_len)
            BY <2>2, Sizes DEF ObjectRead
        <3>2. 4 + prefix_len + 1 \in Nat /\ 4 + prefix_len + 1 + message_len <= MemSize
            BY <1>1, <1>2, Sizes
        <3> QED
            BY <1>1, <2>2, <3>1, <3>2, ShownInside DEF Kept
    <2> QED
        BY <1>1, <2>1, <2>2
<1>5. obj.domain = mem[4 + prefix_len] /\ obj.domain \in Domain
    BY Sizes DEF ObjectRead
<1> QED
    BY <1>1, <1>2, <1>3, <1>4, <1>5

\* Every byte that is signed is on screen, in order, and a field with a length is
\* signed as a whole; a field without one may be on screen all the same, left over
\* from an earlier message, and the theorem does not say that it is signed.
THEOREM SignedMessagesWereShown == Spec => []SignedIsOnScreen
<1>1. IInv => SignedIsOnScreen
    <2> SUFFICES ASSUME IInv, pc = "signed", NEW behind \in Behinds PROVE
            signed = Kept(prefix_len, Shown(obj.prefix, behind)) \o <<obj.domain>>
                        \o Kept(message_len, Shown(obj.message, behind))
        BY DEF SignedIsOnScreen
    <2> DEFINE at == HeaderLen + prefix_len
    <2>1. TypeOK /\ Cursor /\ ObjectRead /\ Outcome
        BY DEF IInv
    <2>2. /\ mem \in [0 .. MemSize - 1 -> Byte]
          /\ HeaderLen \in Nat /\ prefix_len \in Nat /\ message_len \in Nat /\ at \in Nat
          /\ len = at + 1 + message_len /\ len <= MemSize /\ MemSize \in Nat
        BY <2>1, KeptFields, Sizes
    <2>3. Kept(prefix_len, Shown(obj.prefix, behind)) = Slice(mem, HeaderLen, prefix_len)
        BY <2>1, KeptFields, Sizes
    <2>4. Kept(message_len, Shown(obj.message, behind)) = Slice(mem, at + 1, message_len)
        BY <2>1, KeptFields, Sizes
    <2>5. <<obj.domain>> = Slice(mem, at, 1)
        <3>1. obj.domain = mem[at]
            BY <2>1 DEF ObjectRead
        <3>2. Slice(mem, at, 1) = <<mem[at + 1 - 1]>>
            BY DEF Slice
        <3>3. at + 1 - 1 = at
            BY <2>2
        <3> QED
            BY <3>1, <3>2, <3>3
    <2>6. Slice(mem, HeaderLen, prefix_len) \o Slice(mem, at, 1) = Slice(mem, HeaderLen, prefix_len + 1)
        <3>1. at = HeaderLen + prefix_len /\ HeaderLen + (prefix_len + 1) <= MemSize /\ 1 \in Nat
            BY <2>2
        <3> HIDE DEF at
        <3> QED
            BY <2>2, <3>1, SlicesJoin
    <2>7. Slice(mem, HeaderLen, prefix_len + 1) \o Slice(mem, at + 1, message_len)
            = Slice(mem, HeaderLen, prefix_len + 1 + message_len)
        <3> DEFINE m == prefix_len + 1
                   next == at + 1
                   total == m + message_len
        <3>1. /\ mem \in [0 .. MemSize - 1 -> Byte] /\ HeaderLen \in Nat
              /\ m \in Nat /\ message_len \in Nat /\ next = HeaderLen + m
              /\ total = m + message_len /\ HeaderLen + total <= MemSize
            BY <2>2
        <3> HIDE DEF at, m, next, total
        <3>2. Slice(mem, HeaderLen, m) \o Slice(mem, next, message_len) = Slice(mem, HeaderLen, total)
            BY <3>1, SlicesJoin
        <3> QED
            BY <3>2 DEF m, next, total
    <2>8. len - HeaderLen = prefix_len + 1 + message_len
        BY <2>2
    <2>9. signed = Slice(mem, HeaderLen, prefix_len + 1 + message_len)
        BY <2>1, <2>8 DEF Outcome
    <2> HIDE DEF at
    <2> QED
        BY <2>3, <2>4, <2>5, <2>6, <2>7, <2>9
<1> QED
    BY <1>1, IInvInductive, PTL DEF Spec

-----------------------------------------------------------------------------
\* Fields can be told apart by their screens, and so can domains.

\* The halves of a byte.
LEMMA HalvesOfByte ==
    ASSUME NEW a \in 0 .. 255
    PROVE  a \div 16 \in 0 .. 15 /\ a % 16 \in 0 .. 15 /\ a = 16 * (a \div 16) + (a % 16)
<1>1. a \div 16 \in 0 .. 15
    OBVIOUS
<1>2. a % 16 \in 0 .. 15
    OBVIOUS
<1>3. \A n \in Int : n = 16 * (n \div 16) + (n % 16)
    OBVIOUS
<1> QED
    BY <1>1, <1>2, <1>3

\* The digits of a byte.
LEMMA DigitsTellByte ==
    ASSUME NEW a \in 0 .. 255, NEW b \in 0 .. 255,
           HexDigit(a \div 16) = HexDigit(b \div 16), HexDigit(a % 16) = HexDigit(b % 16)
    PROVE  a = b
<1>1. /\ a \div 16 \in 0 .. 15 /\ a % 16 \in 0 .. 15 /\ a = 16 * (a \div 16) + (a % 16)
      /\ b \div 16 \in 0 .. 15 /\ b % 16 \in 0 .. 15 /\ b = 16 * (b \div 16) + (b % 16)
    BY HalvesOfByte
<1>2. \A m \in 0 .. 15, n \in 0 .. 15 : HexDigit(m) = HexDigit(n) => m = n
    BY DEF HexDigit
<1>3. a \div 16 = b \div 16 /\ a % 16 = b % 16
    BY <1>1, <1>2
<1> QED
    BY <1>1, <1>3

\* The digits at the places of a byte.
LEMMA HexPlaces ==
    ASSUME NEW s \in Seq(Byte), NEW k \in 1 .. Len(s)
    PROVE  /\ Hex(s)[2 * k - 1] = HexDigit(s[k] \div 16)
           /\ Hex(s)[2 * k] = HexDigit(s[k] % 16)
<1> DEFINE odd == 2 * k - 1
           even == 2 * k
<1>1. Len(s) \in Nat
    OBVIOUS
<1>2. odd \in 1 .. 2 * Len(s) /\ (odd + 1) \div 2 = k /\ odd % 2 = 1
    BY <1>1
<1>3. even \in 1 .. 2 * Len(s) /\ (even + 1) \div 2 = k /\ even % 2 = 0
    BY <1>1
<1> HIDE DEF odd, even
<1>4. Hex(s)[odd] = HexDigit(s[k] \div 16)
    BY <1>2 DEF Hex
<1>5. Hex(s)[even] = HexDigit(s[k] % 16)
    BY <1>3 DEF Hex
<1> QED
    BY <1>4, <1>5 DEF odd, even

LEMMA ByteRange == \A b \in Byte : b \in 0 .. 255
<1> SUFFICES ASSUME NEW b \in Byte PROVE b \in 0 .. 255
    OBVIOUS
<1>1. b \in Nat /\ b < 256
    BY Sizes
<1> QED
    BY <1>1

LEMMA HexTellsBytes ==
    ASSUME NEW s \in Seq(Byte), NEW t \in Seq(Byte), Hex(s) = Hex(t)
    PROVE  s = t
<1>1. Len(s) \in Nat /\ Len(t) \in Nat
    OBVIOUS
<1>2. Len(s) = Len(t)
    <2>1. DOMAIN Hex(s) = 1 .. 2 * Len(s) /\ DOMAIN Hex(t) = 1 .. 2 * Len(t)
        BY DEF Hex
    <2>2. 1 .. 2 * Len(s) = 1 .. 2 * Len(t)
        BY <2>1
    <2>3. \A m \in Nat, n \in Nat : 1 .. 2 * m = 1 .. 2 * n => m = n
        <3> SUFFICES ASSUME NEW m \in Nat, NEW n \in Nat, 1 .. 2 * m = 1 .. 2 * n PROVE m = n
            OBVIOUS
        <3>1. m > 0 => 2 * m \in 1 .. 2 * n
            OBVIOUS
        <3>2. n > 0 => 2 * n \in 1 .. 2 * m
            OBVIOUS
        <3> QED
            BY <3>1, <3>2
    <2> QED
        BY <1>1, <2>2, <2>3
<1>3. ASSUME NEW k \in 1 .. Len(s) PROVE s[k] = t[k]
    <2>1. s[k] \in 0 .. 255 /\ t[k] \in 0 .. 255
        BY <1>2, ElementOfSeq, ByteRange
    <2>2. /\ Hex(s)[2 * k - 1] = HexDigit(s[k] \div 16) /\ Hex(s)[2 * k] = HexDigit(s[k] % 16)
        BY HexPlaces
    <2>3. /\ Hex(t)[2 * k - 1] = HexDigit(t[k] \div 16) /\ Hex(t)[2 * k] = HexDigit(t[k] % 16)
        BY <1>2, HexPlaces
    <2>4. HexDigit(s[k] \div 16) = HexDigit(t[k] \div 16) /\ HexDigit(s[k] % 16) = HexDigit(t[k] % 16)
        BY <2>2, <2>3
    <2> QED
        BY <2>1, <2>4, DigitsTellByte
<1> QED
    BY <1>2, <1>3, SeqEqual

\* A field is shown as text or in hexadecimal, and the label tells which.
TextForm(out, label, s) == out.key = <<label>> /\ out.val = IF s = <<>> THEN EmptyText ELSE s

HexForm(out, label, s) == out.key = hexLabel(label) /\ out.val = Hex(s)

LEMMA FieldForms ==
    ASSUME NEW label, NEW s \in Seq(Byte)
    PROVE  LET out == formatOutput(label, s) IN TextForm(out, label, s) \/ HexForm(out, label, s)
<1>1. CASE s = <<>>
    BY <1>1 DEF formatOutput, TextForm
<1>2. CASE s # <<>> /\ allPrintable(s)
    <2> DEFINE glyphs == [k \in 1 .. Len(s) |-> Glyph(s[k])]
    <2>1. glyphs = s
        BY <1>2 DEF allPrintable, Glyph
    <2>2. formatOutput(label, s) = [key |-> <<label>>, val |-> glyphs]
        BY <1>2 DEF formatOutput
    <2> QED
        BY <1>2, <2>1, <2>2 DEF TextForm
<1>3. CASE s # <<>> /\ ~allPrintable(s)
    BY <1>3 DEF formatOutput, HexForm
<1> QED
    BY <1>1, <1>2, <1>3

\* Two fields with the same screen are the same, or the one has no bytes and the
\* other spells the word for that.
LEMMA FieldTold ==
    ASSUME NEW label, NEW s \in Seq(Byte), NEW t \in Seq(Byte),
           formatOutput(label, s) = formatOutput(label, t)
    PROVE  s = t \/ {s, t} = {<<>>, EmptyText}
<1> DEFINE out == formatOutput(label, s)
<1>1. TextForm(out, label, s) \/ HexForm(out, label, s)
    BY FieldForms
<1>2. TextForm(out, label, t) \/ HexForm(out, label, t)
    BY FieldForms
<1> HIDE DEF out
<1>3. <<label>> # hexLabel(label)
    BY DEF hexLabel
<1>4. CASE TextForm(out, label, s) /\ TextForm(out, label, t)
    BY <1>4 DEF TextForm
<1>5. CASE HexForm(out, label, s) /\ HexForm(out, label, t)
    <2>1. Hex(s) = Hex(t)
        BY <1>5 DEF HexForm
    <2> QED
        BY <2>1, HexTellsBytes
<1>6. ~(TextForm(out, label, s) /\ HexForm(out, label, t))
    BY <1>3 DEF TextForm, HexForm
<1>7. ~(HexForm(out, label, s) /\ TextForm(out, label, t))
    BY <1>3 DEF TextForm, HexForm
<1> QED
    BY <1>1, <1>2, <1>4, <1>5, <1>6, <1>7

\* Each domain has a name of its own.
LEMMA DomainNames ==
    /\ printDomain(0) = "ATX" /\ printDomain(1) = "PROPOSAL" /\ printDomain(2) = "BALLOT"
    /\ printDomain(3) = "HARE" /\ printDomain(4) = "POET"
    /\ printDomain(10) = "BEACON FIRST MSG" /\ printDomain(11) = "BEACON FOLLOWUP MSG"
<1>1. printDomain(0) = "ATX"
    BY DEF printDomain
<1>2. printDomain(1) = "PROPOSAL"
    BY DEF printDomain
<1>3. printDomain(2) = "BALLOT"
    BY DEF printDomain
<1>4. printDomain(3) = "HARE"
    BY DEF printDomain
<1>5. printDomain(4) = "POET"
    BY DEF printDomain
<1>6. printDomain(10) = "BEACON FIRST MSG"
    BY DEF printDomain
<1>7. printDomain(11) = "BEACON FOLLOWUP MSG"
    BY DEF printDomain
<1> QED
    BY <1>1, <1>2, <1>3, <1>4, <1>5, <1>6, <1>7

LEMMA DomainTold ==
    ASSUME NEW d \in Domain, NEW e \in Domain, printDomain(d) = printDomain(e)
    PROVE  d = e
<1> DEFINE P(val) == printDomain(val)
<1>1. /\ P(0) # P(1) /\ P(0) # P(2) /\ P(0) # P(3) /\ P(0) # P(4) /\ P(0) # P(10) /\ P(0) # P(11)
      /\ P(1) # P(2) /\ P(1) # P(3) /\ P(1) # P(4) /\ P(1) # P(10) /\ P(1) # P(11)
      /\ P(2) # P(3) /\ P(2) # P(4) /\ P(2) # P(10) /\ P(2) # P(11)
      /\ P(3) # P(4) /\ P(3) # P(10) /\ P(3) # P(11)
      /\ P(4) # P(10) /\ P(4) # P(11)
      /\ P(10) # P(11)
    BY DomainNames, Zenon
<1> HIDE DEF P
<1>2. P(d) = P(e) => d = e
    BY <1>1 DEF Domain
<1> QED
    BY <1>2 DEF P

\* The fields of a payload of the format.
LEMMA FieldsOfPayload ==
    ASSUME NEW payload \in Seq(Byte), HasFormat(payload)
    PROVE  /\ PrefixOf(payload) \in Seq(Byte)
           /\ DomainOf(payload) \in Domain
           /\ MessageOf(payload) \in Seq(Byte)
<1> DEFINE p == PrefixLen(payload)
           m == MessageLen(payload)
           size == Len(payload)
           to == 4 + p
           from == 4 + p + 2
<1>1. size > 4 /\ size = 4 + p + 1 + m /\ DomainOf(payload) \in Domain
    BY Sizes DEF HasFormat
<1>2. size \in Nat /\ \A k \in 1 .. size : payload[k] \in Byte
    BY ElementOfSeq
<1>3. p \in Nat /\ m \in Nat
    <2>1. 1 \in 1 .. size /\ 2 \in 1 .. size /\ 3 \in 1 .. size /\ 4 \in 1 .. size
        <3> HIDE DEF size
        <3> QED
            BY <1>1, <1>2
    <2>2. /\ payload[1] \in 0 .. 255 /\ payload[2] \in 0 .. 255
          /\ payload[3] \in 0 .. 255 /\ payload[4] \in 0 .. 255
        BY <1>2, <2>1, ByteRange
    <2>3. \A x \in 0 .. 255, y \in 0 .. 255 : x + 256 * y \in Nat
        OBVIOUS
    <2> QED
        BY <2>2, <2>3 DEF PrefixLen, MessageLen
<1>4. PrefixOf(payload) = SubSeq(payload, 5, to)
    <2>1. 4 + 1 = 5
        OBVIOUS
    <2> QED
        BY Sizes, <2>1 DEF PrefixOf
<1>5. MessageOf(payload) = SubSeq(payload, from, size)
    BY Sizes DEF MessageOf
<1> HIDE DEF p, m, size
<1>6. /\ to \in Int /\ from \in Int
      /\ \A k \in 5 .. to : k \in 1 .. size
      /\ \A k \in from .. size : k \in 1 .. size
    BY <1>1, <1>2, <1>3
<1> HIDE DEF to, from
<1>7. PrefixOf(payload) \in Seq(Byte)
    BY <1>2, <1>4, <1>6, SubSeqProperties
<1>8. MessageOf(payload) \in Seq(Byte)
    BY <1>2, <1>5, <1>6, SubSeqProperties
<1> QED
    BY <1>1, <1>7, <1>8

LEMMA ScreensParts ==
    ASSUME NEW p, NEW d, NEW m
    PROVE  /\ ScreensOf(p, d, m)[2] = formatOutput("Prefix", p)
           /\ ScreensOf(p, d, m)[3].val = printDomain(d)
           /\ ScreensOf(p, d, m)[4] = formatOutput("Msg", m)
BY DEF ScreensOf

\* A part of a slice from the start is a slice.
LEMMA PartOfSlice ==
    ASSUME NEW memory \in [0 .. MemSize - 1 -> Byte], NEW size \in Nat, size <= MemSize,
           NEW at \in Nat, NEW n \in Nat, at + n <= size
    PROVE  SubSeq(Slice(memory, 0, size), at + 1, at + n) = Slice(memory, at, n)
<1> DEFINE all == Slice(memory, 0, size)
           from == at + 1
           to == at + n
           sub == SubSeq(all, from, to)
           part == Slice(memory, at, n)
<1>1. all \in Seq(Byte) /\ Len(all) = size
    BY SliceIsBytes, Sizes
<1>2. part \in Seq(Byte) /\ Len(part) = n
    BY SliceIsBytes, Sizes
<1>3. /\ from \in Int /\ to \in Int /\ to - from + 1 = n /\ (from <= to <=> n > 0)
      /\ \A k \in from .. to : k \in 1 .. size
    OBVIOUS
<1>4. ASSUME NEW k \in 1 .. n PROVE all[from + k - 1] = part[k]
    <2>1. from + k - 1 \in 1 .. size /\ 0 + (from + k - 1) - 1 = at + k - 1
        OBVIOUS
    <2> HIDE DEF from
    <2>2. all[from + k - 1] = memory[0 + (from + k - 1) - 1]
        BY <2>1 DEF Slice
    <2>3. part[k] = memory[at + k - 1]
        BY DEF Slice
    <2> QED
        BY <2>1, <2>2, <2>3
<1> HIDE DEF all, from, to, part
<1>5. \A k \in from .. to : all[k] \in Byte
    BY <1>1, <1>3, ElementOfSeq
<1>6. /\ sub \in Seq(Byte) /\ Len(sub) = IF from <= to THEN to - from + 1 ELSE 0
      /\ \A k \in 1 .. to - from + 1 : sub[k] = all[from + k - 1]
    BY <1>3, <1>5, SubSeqProperties
<1> HIDE DEF sub
<1>7. Len(sub) = n /\ \A k \in 1 .. n : sub[k] = part[k]
    BY <1>3, <1>4, <1>6
<1>8. sub = part
    BY <1>2, <1>6, <1>7, SeqEqual
<1> QED
    BY <1>8 DEF sub, all, from, to, part

\* The fields of the payload in memory are those the parser has measured.
LEMMA FieldsInMemory ==
    ASSUME TypeOK, Cursor, ObjectRead, pc = "review"
    PROVE  LET payload == Slice(mem, 0, len) IN
           /\ PrefixOf(payload) = Slice(mem, 4, prefix_len)
           /\ DomainOf(payload) = mem[4 + prefix_len]
           /\ MessageOf(payload) = Slice(mem, 4 + prefix_len + 1, message_len)
<1> DEFINE payload == Slice(mem, 0, len)
           from == 4 + prefix_len + 1
<1>1. /\ mem \in [0 .. MemSize - 1 -> Byte] /\ prefix_len \in Nat /\ message_len \in Nat
      /\ len = 4 + prefix_len + 1 + message_len /\ len \in Nat /\ len <= MemSize
    BY Numbers, Sizes DEF TypeOK, Cursor
<1>2. Len(payload) = len
    BY <1>1, SliceIsBytes
<1>3. ASSUME NEW k \in 1 .. len PROVE payload[k] = mem[k - 1]
    <2>1. 0 + k - 1 = k - 1
        OBVIOUS
    <2> QED
        BY <2>1 DEF Slice
<1>4. PrefixLen(payload) = prefix_len
    <2>1. 1 \in 1 .. len /\ 2 \in 1 .. len /\ 1 - 1 = 0 /\ 2 - 1 = 1 /\ 0 + 1 = 1
        BY <1>1
    <2>2. payload[1] = mem[0] /\ payload[2] = mem[1]
        BY <1>3, <2>1
    <2>3. prefix_len = mem[0] + 256 * mem[1]
        BY <2>1 DEF Cursor, readUInt16
    <2> HIDE DEF payload
    <2> QED
        BY <2>2, <2>3 DEF PrefixLen
<1>5. SubSeq(payload, 4 + 1, 4 + prefix_len) = Slice(mem, 4, prefix_len)
    <2> DEFINE at == 4
    <2>1. at \in Nat /\ at + prefix_len <= len
        BY <1>1
    <2> HIDE DEF at
    <2>2. SubSeq(payload, at + 1, at + prefix_len) = Slice(mem, at, prefix_len)
        BY <1>1, <2>1, PartOfSlice
    <2> QED
        BY <2>2 DEF at
<1>6. SubSeq(payload, 4 + prefix_len + 2, len) = Slice(mem, from, message_len)
    <2>1. /\ from \in Nat /\ from + message_len = len /\ from + message_len <= len
          /\ from + 1 = 4 + prefix_len + 2
        BY <1>1
    <2> HIDE DEF from
    <2>2. SubSeq(payload, from + 1, from + message_len) = Slice(mem, from, message_len)
        BY <1>1, <2>1, PartOfSlice
    <2> QED
        BY <2>1, <2>2
<1>7. payload[4 + prefix_len + 1] = mem[4 + prefix_len]
    <2> DEFINE place == 4 + prefix_len + 1
    <2>1. place \in 1 .. len /\ place - 1 = 4 + prefix_len
        BY <1>1
    <2> HIDE DEF payload, place
    <2>2. payload[place] = mem[place - 1]
        BY <1>3, <2>1
    <2> QED
        BY <2>1, <2>2 DEF place
<1> HIDE DEF payload
<1> QED
    BY <1>2, <1>4, <1>5, <1>6, <1>7, Sizes DEF PrefixOf, DomainOf, MessageOf, payload, from

\* A field tells its bytes, unless it has none: then the screen may show what an
\* earlier message left, or be taken for the word "Empty".
LEMMA ScreenTellsField ==
    ASSUME TypeOK, NEW behind \in Behinds, NEW field \in Bytes_t, NEW size \in Nat, NEW label,
           NEW mine, mine = Kept(size, Shown(field, behind)), NEW theirs \in Seq(Byte),
           formatOutput(label, theirs) = formatOutput(label, Shown(field, behind))
    PROVE  Told(mine, theirs, field)
<1>1. Shown(field, behind) \in Seq(Byte)
    BY ShownIsBytes
<1>2. theirs = Shown(field, behind) \/ {theirs, Shown(field, behind)} = {<<>>, EmptyText}
    BY <1>1, FieldTold
<1>3. CASE size > 0
    BY <1>2, <1>3 DEF Kept, Told
<1>4. CASE size = 0 /\ field.len > 0
    BY <1>4 DEF Kept, Told
<1>5. CASE size = 0 /\ field.len = 0
    <2>1. Shown(field, behind) = <<>>
        BY <1>5 DEF Shown
    <2> QED
        BY <1>2, <1>5, <2>1 DEF Kept, Told
<1>6. field.len \in Nat
    BY DEF Bytes_t, UInt16
<1> QED
    BY <1>3, <1>4, <1>5, <1>6

\* A message that looks as another would, for any payloads and any object left by
\* earlier ones, has that one's domain and its fields, but for a field of length
\* zero: that may be left over from an earlier message or read as the word "Empty".
THEOREM ScreensTellTheMessageAlways == Spec => []ScreensTellTheMessage
<1>1. IInv => ScreensTellTheMessage
    <2> DEFINE payload == Slice(mem, 0, len)
    <2> SUFFICES ASSUME IInv, pc = "review", NEW behind \in Behinds, NEW other \in Payloads,
                        HasFormat(other), ScreensOfPayload(other) = Screens(behind)
                 PROVE  /\ Told(PrefixOf(payload), PrefixOf(other), obj.prefix)
                        /\ DomainOf(payload) = DomainOf(other)
                        /\ Told(MessageOf(payload), MessageOf(other), obj.message)
        BY DEF ScreensTellTheMessage
    <2>1. TypeOK /\ Cursor /\ ObjectRead
        BY DEF IInv
    <2>2. /\ PrefixOf(payload) = Kept(prefix_len, Shown(obj.prefix, behind))
          /\ DomainOf(payload) = obj.domain /\ obj.domain \in Domain
          /\ MessageOf(payload) = Kept(message_len, Shown(obj.message, behind))
          /\ prefix_len \in Nat /\ message_len \in Nat
        BY <2>1, KeptFields, FieldsInMemory
    <2> HIDE DEF payload
    <2>3. PrefixOf(other) \in Seq(Byte) /\ DomainOf(other) \in Domain /\ MessageOf(other) \in Seq(Byte)
        BY Sizes, FieldsOfPayload
    <2>4. obj.prefix \in Bytes_t /\ obj.message \in Bytes_t
        BY <2>1 DEF TypeOK, Object
    <2>5. /\ formatOutput("Prefix", PrefixOf(other)) = formatOutput("Prefix", Shown(obj.prefix, behind))
          /\ printDomain(DomainOf(other)) = printDomain(obj.domain)
          /\ formatOutput("Msg", MessageOf(other)) = formatOutput("Msg", Shown(obj.message, behind))
        <3>1. ScreensOf(PrefixOf(other), DomainOf(other), MessageOf(other))
                = ScreensOf(Shown(obj.prefix, behind), obj.domain, Shown(obj.message, behind))
            BY DEF ScreensOfPayload, Screens
        <3> QED
            BY <3>1, ScreensParts
    <2>6. Told(PrefixOf(payload), PrefixOf(other), obj.prefix)
        BY <2>1, <2>2, <2>3, <2>4, <2>5, ScreenTellsField
    <2>7. DomainOf(payload) = DomainOf(other)
        BY <2>2, <2>3, <2>5, DomainTold
    <2>8. Told(MessageOf(payload), MessageOf(other), obj.message)
        BY <2>1, <2>2, <2>3, <2>4, <2>5, ScreenTellsField
    <2> QED
        BY <2>6, <2>7, <2>8
<1> QED
    BY <1>1, IInvInductive, PTL DEF Spec
=============================================================================
