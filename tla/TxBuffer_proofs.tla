-------------------------- MODULE TxBuffer_proofs --------------------------
(***************************************************************************)
(* The two memories implement the bounded sequence of AnsweredBuffer, for  *)
(* memories of any size and chunks of any length.                          *)
(***************************************************************************)
EXTENDS TxBuffer, TLAPS

\* The bytes below a position are a sequence of that length.
LEMMA ContentsOfMemory ==
    ASSUME NEW n \in Nat, NEW memory \in Memory(n), NEW pos \in 0 .. n
    PROVE  Contents(memory, pos) \in Seq(Byte) /\ Len(Contents(memory, pos)) = pos
<1>1. \A k \in 1 .. pos : k - 1 \in 0 .. n - 1
    OBVIOUS
<1> QED
    BY <1>1 DEF Contents, Memory

\* Copying data behind the bytes in use appends it to them.
LEMMA CopyAppends ==
    ASSUME NEW n \in Nat, NEW memory \in Memory(n), NEW at \in 0 .. n,
           NEW data \in Seq(Byte), at + Len(data) <= n
    PROVE  /\ Copied(memory, at, data) \in Memory(n)
           /\ Contents(Copied(memory, at, data), at + Len(data)) = Contents(memory, at) \o data
<1> DEFINE copy == Copied(memory, at, data)
           left == Contents(copy, at + Len(data))
           right == Contents(memory, at) \o data
<1>1. Len(data) \in Nat /\ at \in Nat
    OBVIOUS
<1>2. copy = [k \in 0 .. n - 1 |->
                IF at <= k /\ k < at + Len(data) THEN data[k - at + 1] ELSE memory[k]]
    BY DEF Copied, Memory
<1>3. copy \in Memory(n)
    <2>1. ASSUME NEW k \in 0 .. n - 1, at <= k, k < at + Len(data) PROVE data[k - at + 1] \in Byte
        <3>1. k - at + 1 \in 1 .. Len(data)
            BY <1>1, <2>1
        <3> QED
            BY <3>1
    <2> QED
        BY <1>2, <2>1 DEF Memory
<1>4. left \in Seq(Byte) /\ Len(left) = at + Len(data)
    BY <1>1, <1>3, ContentsOfMemory
<1>5. Contents(memory, at) \in Seq(Byte) /\ Len(Contents(memory, at)) = at
    BY ContentsOfMemory
<1>6. right \in Seq(Byte) /\ Len(right) = at + Len(data)
    BY <1>5
<1>7. ASSUME NEW k \in 1 .. at + Len(data) PROVE left[k] = right[k]
    <2>1. left[k] = copy[k - 1] /\ k - 1 \in 0 .. n - 1
        BY <1>1 DEF Contents
    <2>2. CASE k <= at
        <3>1. copy[k - 1] = memory[k - 1]
            BY <1>1, <1>2, <2>1, <2>2
        <3>2. k \in 1 .. at
            BY <1>1, <2>2
        <3>3. right[k] = Contents(memory, at)[k]
            BY <1>5, <3>2
        <3>4. Contents(memory, at)[k] = memory[k - 1]
            BY <3>2 DEF Contents
        <3> QED
            BY <2>1, <3>1, <3>3, <3>4
    <2>3. CASE at < k
        <3>1. copy[k - 1] = data[k - 1 - at + 1]
            BY <1>1, <1>2, <2>1, <2>3
        <3>2. k - 1 - at + 1 = k - at
            BY <1>1
        <3>3. right[k] = data[k - at]
            BY <1>1, <1>5, <2>3
        <3> QED
            BY <2>1, <3>1, <3>2, <3>3
    <2>4. k \in Int /\ at \in Int
        BY <1>1
    <2>5. k <= at \/ at < k
        BY <2>4
    <2> QED
        BY <2>2, <2>3, <2>5
<1>8. left = right
    <2> HIDE DEF left, right
    <2> QED
        BY <1>4, <1>6, <1>7
<1> QED
    BY <1>3, <1>8

-----------------------------------------------------------------------------

\* The sizes are sizes, and RAM is cleared to a memory.
LEMMA Sizes ==
    /\ RamSize \in Nat /\ FlashSize \in Nat
    /\ 0 \in 0 .. RamSize /\ 0 \in 0 .. FlashSize
    /\ ClearedRam \in Memory(RamSize)
BY SizeAssumption DEF ClearedRam, Memory

\* The calls and their answers.
LEMMA Calls ==
    NoCall \in Call /\ ResetCall \in Call /\
        \A chunk \in Chunk : \A whole \in BOOLEAN : AppendCall(chunk, whole) \in Call
BY DEF NoCall, ResetCall, AppendCall, Call

\* A chunk that fits in RAM: what the copy leaves there.
LEMMA RamCopy ==
    ASSUME TypeOK, NEW chunk \in Chunk, FitsRam(chunk)
    PROVE  /\ chunk \in Seq(Byte) /\ ramPos + Len(chunk) \in 0 .. RamSize
           /\ Copied(ram, ramPos, chunk) \in Memory(RamSize)
           /\ Contents(Copied(ram, ramPos, chunk), ramPos + Len(chunk)) = Contents(ram, ramPos) \o chunk
<1>1. chunk \in Seq(Byte) /\ Len(chunk) \in Nat
    BY SizeAssumption
<1>2. ram \in Memory(RamSize) /\ ramPos \in 0 .. RamSize
    BY DEF TypeOK
<1>3. ramPos + Len(chunk) \in 0 .. RamSize
    BY <1>1, <1>2, Sizes DEF FitsRam, RamRoom
<1>4. ramPos + Len(chunk) <= RamSize
    BY <1>3, Sizes
<1> QED
    BY <1>1, <1>2, <1>3, <1>4, Sizes, CopyAppends

\* The upload's length is the position of the memory in use.
LEMMA UploadLength ==
    ASSUME TypeOK
    PROVE  Upload \in Seq(Byte) /\ Len(Upload) = IF inRam THEN ramPos ELSE flashPos
<1>1. /\ Contents(ram, ramPos) \in Seq(Byte) /\ Len(Contents(ram, ramPos)) = ramPos
      /\ Contents(flash, flashPos) \in Seq(Byte) /\ Len(Contents(flash, flashPos)) = flashPos
    BY Sizes, ContentsOfMemory DEF TypeOK
<1> QED
    BY <1>1 DEF Upload

\* What is in flash once the upload has moved there is the upload.
LEMMA MovedUpload ==
    ASSUME TypeOK
    PROVE  /\ MovedFlash \in Memory(FlashSize)
           /\ MovedPos \in 0 .. FlashSize
           /\ Contents(MovedFlash, MovedPos) = Upload
<1>1. CASE inRam
    <2>1. Contents(ram, ramPos) \in Seq(Byte) /\ Len(Contents(ram, ramPos)) = ramPos
        BY <1>1, UploadLength DEF Upload
    <2>2. ramPos \in 0 .. FlashSize /\ 0 + ramPos = ramPos /\ 0 \in 0 .. FlashSize
        BY SizeAssumption DEF TypeOK
    <2>3. /\ Copied(flash, 0, Contents(ram, ramPos)) \in Memory(FlashSize)
          /\ Contents(Copied(flash, 0, Contents(ram, ramPos)), 0 + ramPos) =
                Contents(flash, 0) \o Contents(ram, ramPos)
        <3>1. FlashSize \in Nat /\ flash \in Memory(FlashSize) /\ 0 + ramPos <= FlashSize
            BY Sizes, <2>2 DEF TypeOK
        <3>2. 0 + Len(Contents(ram, ramPos)) = 0 + ramPos
            BY <2>1
        <3> QED
            BY <2>1, <2>2, <3>1, <3>2, CopyAppends
    <2>4. Contents(flash, 0) = <<>>
        BY DEF Contents
    <2>5. <<>> \o Contents(ram, ramPos) = Contents(ram, ramPos)
        BY <2>1
    <2> QED
        BY <1>1, <2>2, <2>3, <2>4, <2>5 DEF MovedFlash, MovedPos, MovedAt, Upload
<1>2. CASE ~inRam
    BY <1>2 DEF MovedFlash, MovedPos, Upload, TypeOK
<1> QED
    BY <1>1, <1>2

\* A chunk that fits in flash, behind the upload that has moved there or lies there.
LEMMA FlashCopy ==
    ASSUME TypeOK, NEW chunk \in Chunk, FitsFlash(chunk)
    PROVE  /\ chunk \in Seq(Byte) /\ MovedPos + Len(chunk) \in 0 .. FlashSize
           /\ Copied(MovedFlash, MovedPos, chunk) \in Memory(FlashSize)
           /\ Contents(Copied(MovedFlash, MovedPos, chunk), MovedPos + Len(chunk)) = Upload \o chunk
<1>1. chunk \in Seq(Byte) /\ Len(chunk) \in Nat
    BY SizeAssumption
<1>2. /\ MovedFlash \in Memory(FlashSize) /\ MovedPos \in 0 .. FlashSize
      /\ Contents(MovedFlash, MovedPos) = Upload
    BY MovedUpload
<1>3. MovedPos + Len(chunk) \in 0 .. FlashSize
    BY <1>1, <1>2, Sizes DEF FitsFlash, FlashRoom
<1>4. MovedPos + Len(chunk) <= FlashSize
    BY <1>3, Sizes
<1> QED
    BY <1>1, <1>2, <1>3, <1>4, Sizes, CopyAppends

\* The types are kept by every step.
LEMMA NextTypeOK == TypeOK /\ [Next]_vars => TypeOK'
<1> SUFFICES ASSUME TypeOK, [Next]_vars PROVE TypeOK'
    OBVIOUS
<1>1. CASE Open \/ Restart
    BY <1>1, Sizes, Calls DEF Open, Restart, TypeOK
<1>2. ASSUME NEW chunk \in Chunk, AppendRam(chunk) PROVE TypeOK'
    BY <1>2, RamCopy, Calls DEF AppendRam, TypeOK
<1>3. ASSUME NEW chunk \in Chunk, AppendFlash(chunk) PROVE TypeOK'
    BY <1>3, Sizes, FlashCopy, Calls DEF AppendFlash, TypeOK
<1>4. ASSUME NEW chunk \in Chunk, AppendRefused(chunk) PROVE TypeOK'
    BY <1>4, Sizes, MovedUpload, Calls DEF AppendRefused, TypeOK
<1>5. CASE UNCHANGED vars
    BY <1>5 DEF vars, TypeOK
<1> QED
    BY <1>1, <1>2, <1>3, <1>4, <1>5 DEF Next

\* Every step is a step of the bounded sequence, or leaves it alone.
LEMMA NextImplements == TypeOK /\ [Next]_vars => [Abstract!Next]_<<Upload, call>>
<1> SUFFICES ASSUME TypeOK, [Next]_vars PROVE [Abstract!Next]_<<Upload, call>>
    OBVIOUS
<1>1. CASE Open \/ Restart
    <2>1. Upload' = <<>>
        BY <1>1 DEF Open, Restart, Upload, Contents
    <2> QED
        BY <1>1, <2>1 DEF Open, Restart, NoCall, ResetCall,
            Abstract!Next, Abstract!Reset, Abstract!Restart, Abstract!ResetAnswered, Abstract!NoCall, Abstract!ResetCall
<1>2. ASSUME NEW chunk \in Chunk, AppendRam(chunk) PROVE Abstract!StoreAnswered(chunk)
    <2>1. inRam /\ FitsRam(chunk) /\ chunk \in Seq(Byte) /\ Len(chunk) \in Nat
        BY <1>2, SizeAssumption DEF AppendRam
    <2>2. Upload' = Upload \o chunk
        BY <1>2, <2>1, RamCopy DEF AppendRam, Upload
    <2>3. Len(Upload) + Len(chunk) <= FlashSize
        BY <2>1, UploadLength, SizeAssumption DEF FitsRam, RamRoom, TypeOK
    <2> QED
        BY <1>2, <2>2, <2>3 DEF AppendRam, AppendCall,
            Abstract!StoreAnswered, Abstract!Store, Abstract!Fits, Abstract!AppendCall
<1>3. ASSUME NEW chunk \in Chunk, AppendFlash(chunk) PROVE Abstract!StoreAnswered(chunk)
    <2>1. FitsFlash(chunk) /\ chunk \in Seq(Byte) /\ Len(chunk) \in Nat
        BY <1>3, SizeAssumption DEF AppendFlash
    <2>2. Upload' = Upload \o chunk
        BY <1>3, <2>1, FlashCopy DEF AppendFlash, Upload
    <2>3. MovedPos \in Int /\ FlashSize \in Int /\ Len(Upload) = MovedPos
        BY Sizes, MovedUpload, UploadLength DEF MovedPos
    <2>4. Len(Upload) + Len(chunk) <= FlashSize
        BY <2>1, <2>3 DEF FitsFlash, FlashRoom
    <2> QED
        BY <1>3, <2>2, <2>4 DEF AppendFlash, AppendCall,
            Abstract!StoreAnswered, Abstract!Store, Abstract!Fits, Abstract!AppendCall
<1>4. ASSUME NEW chunk \in Chunk, AppendRefused(chunk) PROVE Abstract!RefuseAnswered(chunk)
    <2>1. Upload' = Upload
        BY <1>4, MovedUpload DEF AppendRefused, Upload
    <2>2. ~FitsFlash(chunk) /\ chunk \in Seq(Byte) /\ Len(chunk) \in Nat
        BY <1>4, SizeAssumption DEF AppendRefused
    <2>3. MovedPos \in Int /\ FlashSize \in Int /\ Len(Upload) = MovedPos
        BY Sizes, MovedUpload, UploadLength DEF MovedPos
    <2>4. ~(Len(Upload) + Len(chunk) <= FlashSize)
        BY <2>2, <2>3 DEF FitsFlash, FlashRoom
    <2> QED
        BY <1>4, <2>1, <2>4 DEF AppendRefused, AppendCall,
            Abstract!RefuseAnswered, Abstract!Refuse, Abstract!Fits, Abstract!AppendCall
<1>5. CASE UNCHANGED vars
    BY <1>5 DEF vars, Upload
<1> QED
    BY <1>1, <1>2, <1>3, <1>4, <1>5 DEF Next, Abstract!Next

\* The initial state.
LEMMA InitTypeOK == Init => TypeOK /\ Abstract!Init
<1>1. Init => TypeOK
    BY Sizes, Calls DEF Init, TypeOK
<1>2. Init => Upload = <<>>
    BY DEF Init, Upload, Contents
<1> QED
    BY <1>1, <1>2 DEF Init, NoCall, Abstract!Init, Abstract!NoCall

\* The positions never leave their memories.
THEOREM TypeCorrect == Spec => []TypeOK
BY InitTypeOK, NextTypeOK, PTL DEF Spec

\* The handlers may take the two memories for one bounded sequence.
THEOREM MemoriesImplementBuffer == Spec => ImplementsUploadBuffer
<1>1. Spec => []TypeOK
    BY TypeCorrect
<1> QED
    BY <1>1, InitTypeOK, NextImplements, PTL DEF Spec, ImplementsUploadBuffer, Abstract!Spec
=============================================================================
