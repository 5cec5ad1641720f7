------------------------------ MODULE TxBuffer ------------------------------
(***************************************************************************)
(* The two memories of common/tx.c: an upload starts in RAM and moves to   *)
(* flash when it no longer fits.  tx.c hands both to the buffering helper  *)
(* of the vendor's library, which is not in the repository: its part is    *)
(* modelled from how tx.c and process_chunk use it.                        *)
(***************************************************************************)
EXTENDS Integers, Sequences

CONSTANTS
    Byte,       \* The byte values that are told apart.
    ZeroByte,   \* What RAM holds when the application starts.
    Chunk,      \* The chunks a command may carry.
    RamSize,    \* RAM_BUFFER_SIZE.
    FlashSize   \* FLASH_BUFFER_SIZE.

ASSUME SizeAssumption ==
    /\ RamSize \in Nat /\ FlashSize \in Nat /\ RamSize <= FlashSize
    /\ ZeroByte \in Byte
    /\ Chunk \subseteq Seq(Byte)

VARIABLES
    ram,            \* ram_buffer.
    ramPos,         \* The bytes of it in use.
    flash,          \* N_appdata.buffer: kept while the application is not running.
    flashPos,
    inRam,          \* Which of the two holds the upload.
    call            \* The last call since the application started and its answer.

vars == <<ram, ramPos, flash, flashPos, inRam, call>>

Memory(size) == [0 .. size - 1 -> Byte]

Call == [op : {"none", "reset", "append"}, chunk : Chunk \cup {<<>>}, whole : BOOLEAN]

\* Types of the state; neither position leaves its memory.
TypeOK ==
    /\ ram \in Memory(RamSize)
    /\ flash \in Memory(FlashSize)
    /\ ramPos \in 0 .. RamSize
    /\ flashPos \in 0 .. FlashSize
    /\ inRam \in BOOLEAN
    /\ call \in Call

-----------------------------------------------------------------------------

\* MEMCPY of data to a position of a memory.
Copied(memory, at, data) ==
    [k \in DOMAIN memory |->
        IF at <= k /\ k < at + Len(data) THEN data[k - at + 1] ELSE memory[k]]

\* The bytes of a memory below a position, as a sequence.
Contents(memory, pos) == [k \in 1 .. pos |-> memory[k - 1]]

ClearedRam == [k \in 0 .. RamSize - 1 |-> ZeroByte]

NoCall == [op |-> "none", chunk |-> <<>>, whole |-> FALSE]

ResetCall == [op |-> "reset", chunk |-> <<>>, whole |-> TRUE]

\* tx_append: whole is added = rx - OFFSET_DATA in process_chunk.
AppendCall(chunk, whole) == [op |-> "append", chunk |-> chunk, whole |-> whole]

\* tx_initialize has run since the application started.
Opened == call.op # "none"

Init ==
    /\ ram = ClearedRam
    /\ flash \in Memory(FlashSize)
    /\ ramPos = 0
    /\ flashPos = 0
    /\ inRam = TRUE
    /\ call = NoCall

\* Mutant: the positions of the last upload are kept.
OpenInPlace ==
    /\ call' = ResetCall
    /\ UNCHANGED <<ram, ramPos, flash, flashPos, inRam>>

\* The init chunk: tx_initialize, then tx_reset.  No byte is erased.
Open ==
    /\ ramPos' = 0
    /\ flashPos' = 0
    /\ inRam' = TRUE
    /\ call' = ResetCall
    /\ UNCHANGED <<ram, flash>>

\* Mutant: the size of the other memory.
RamRoomOfFlash == FlashSize

\* The sizes tx_initialize hands to the helper with the memories.
RamRoom == RamSize

FlashRoom == FlashSize

FitsRam(chunk) == Len(chunk) <= RamRoom - ramPos

\* Where in flash an upload that moves there goes.
MovedAt == 0

\* The memory and the position the upload has in flash once it has moved there.
MovedFlash == IF inRam THEN Copied(flash, MovedAt, Contents(ram, ramPos)) ELSE flash

MovedPos == IF inRam THEN ramPos ELSE flashPos

FitsFlash(chunk) == Len(chunk) <= FlashRoom - MovedPos

AppendRam(chunk) ==
    /\ Opened /\ inRam
    /\ FitsRam(chunk)
    /\ ram' = Copied(ram, ramPos, chunk)
    /\ ramPos' = ramPos + Len(chunk)
    /\ call' = AppendCall(chunk, TRUE)
    /\ UNCHANGED <<flash, flashPos, inRam>>

AppendFlash(chunk) ==
    /\ Opened
    /\ inRam => ~FitsRam(chunk)
    /\ FitsFlash(chunk)
    /\ flash' = Copied(MovedFlash, MovedPos, chunk)
    /\ flashPos' = MovedPos + Len(chunk)
    /\ inRam' = FALSE
    /\ ramPos' = 0
    /\ call' = AppendCall(chunk, TRUE)
    /\ UNCHANGED ram

\* The upload has moved to flash, the chunk is not stored.
AppendRefused(chunk) ==
    /\ Opened
    /\ inRam => ~FitsRam(chunk)
    /\ ~FitsFlash(chunk)
    /\ flash' = MovedFlash
    /\ flashPos' = MovedPos
    /\ inRam' = FALSE
    /\ ramPos' = 0
    /\ call' = AppendCall(chunk, FALSE)
    /\ UNCHANGED ram

\* The application is left and started again.  (Flash is also rewritten by later
\* uploads only.)
Restart ==
    /\ ram' = ClearedRam
    /\ ramPos' = 0
    /\ flashPos' = 0
    /\ inRam' = TRUE
    /\ call' = NoCall
    /\ UNCHANGED flash

Next ==
    \/ Open
    \/ \E chunk \in Chunk : AppendRam(chunk) \/ AppendFlash(chunk) \/ AppendRefused(chunk)
    \/ Restart

Spec == Init /\ [][Next]_vars

-----------------------------------------------------------------------------
\* Properties.

\* What tx_get_buffer and tx_get_buffer_length give.
Upload == IF inRam THEN Contents(ram, ramPos) ELSE Contents(flash, flashPos)

Abstract == INSTANCE AnsweredBuffer WITH Capacity <- FlashSize, content <- Upload

\* The two memories behave as the one bounded sequence the handlers take them for:
\* a chunk is appended whole, or refused because it does not fit, and the caller is
\* told which; what came before it stays, across the move to flash and over whatever
\* earlier uploads left there (tx.c:52-62, apdu_handler.c:85-104).
ImplementsUploadBuffer == Abstract!Spec
=============================================================================
