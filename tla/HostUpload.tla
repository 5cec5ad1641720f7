----------------------------- MODULE HostUpload -----------------------------
(***************************************************************************)
(* The device of ApduSession with a host that wants one thing granted and  *)
(* repeats its upload from the first chunk whenever an answer is not the   *)
(* one it needs, and an owner who unlocks the device, approves the host's  *)
(* request and rejects every other (both external, after the way           *)
(* docs/APDUSPEC.md has a host send chunks).  Between their steps anything *)
(* else may happen that ApduSession has: another program's commands on the *)
(* same link, a lock, a USB reset, a restart, a refusal by the owner, a    *)
(* failure to derive or to sign; only not for ever.                        *)
(***************************************************************************)
EXTENDS ApduSession

CONSTANTS
    Jobs,           \* What hosts want: [kind, path, chunks].
    Disturbances    \* The number of other events: a bound.

ASSUME JobsAssumption ==
    /\ \A job \in Jobs :
        /\ job.kind \in Kind \ {"WALLET"}
        /\ job.path \in ValidPath
        /\ job.chunks \in Seq(Chunk) \ {<<>>}
    /\ Disturbances \in Nat

VARIABLES
    job,            \* What this host wants.
    at,             \* Its next chunk; 0 before the init, one more than there are while
                    \* it waits for the owner.
    left            \* The disturbances still to come.

hostVars == <<job, at, left>>

allVars == <<vars, hostVars>>

chunks == Len(job.chunks)

Payload ==
    LET prefix[k \in 0 .. chunks] == IF k = 0 THEN <<>> ELSE prefix[k - 1] \o job.chunks[k]
    IN  prefix[chunks]

Wanted == [kind |-> job.kind, path |-> job.path, payload |-> Payload]

-----------------------------------------------------------------------------

HostInit ==
    /\ Init
    /\ job \in Jobs
    /\ at = 0
    /\ left = Disturbances

\* The host goes on after the answer it needs and starts again after any other.
HostHears(sw, next) ==
    /\ at' = IF reply'.sw = sw THEN next ELSE 0
    /\ UNCHANGED <<job, left>>

SendInit ==
    /\ at = 0
    /\ InitUpload(job.path)
    /\ HostHears("OK", 1)

SendAdd ==
    /\ at \in 1 .. chunks - 1
    /\ \/ AddChunk(job.chunks[at])
       \/ ChunkTooLong(job.chunks[at])
       \/ ~tx_initialized /\ ChunkRefused
    /\ HostHears("OK", at + 1)

\* The last chunk, when nothing fails inside the device.
SendLast ==
    /\ at = chunks
    /\ \/ job.kind = "TX" /\ HandleSign(job.chunks[at])
       \/ job.kind = "MESSAGE" /\ HandleSignMessage(job.chunks[at])
       \/ \E valid \in BOOLEAN :
            job.kind \in AddressType /\ HandleMultisig(job.kind, job.chunks[at], valid, TRUE)
            /\ (buffer' = Payload => valid)
       \/ ChunkTooLong(job.chunks[at])
       \/ ~tx_initialized /\ ChunkRefused
    /\ HostHears("REVIEW", at + 1)

\* While the device is locked every command is refused, and the host tries again.
SendWhileLocked ==
    /\ at <= chunks
    /\ RefusedWhileLocked
    /\ HostHears("OK", at)

\* The answer to the review has come: all over again, whatever it is.
HearAnswer ==
    /\ at > chunks
    /\ review = NoReview
    /\ at' = 0
    /\ UNCHANGED <<vars, job, left>>

HostStep == SendInit \/ SendAdd \/ SendLast \/ SendWhileLocked \/ HearAnswer

\* The owner approves what the host wants, and signing does not fail.
OwnerApproves ==
    /\ review # NoReview
    /\ Displayed = Wanted
    /\ AppSign \/ AppMessageSign \/ AppReplyAddress
    /\ reply'.sw = "OK"
    /\ UNCHANGED hostVars

OwnerRejects ==
    /\ review # NoReview
    /\ Displayed # Wanted
    /\ AppReject
    /\ UNCHANGED hostVars

OwnerUnlocks ==
    /\ locked
    /\ LockOrUnlock
    /\ UNCHANGED hostVars

\* Any event of the device, whoever causes it.
Disturbed ==
    /\ left > 0
    /\ Next
    /\ left' = left - 1
    /\ UNCHANGED <<job, at>>

HostNext == HostStep \/ OwnerApproves \/ OwnerRejects \/ OwnerUnlocks \/ Disturbed

\* The host goes on, and the owner attends to the device.
HostSpec ==
    /\ HostInit /\ [][HostNext]_allVars
    /\ WF_allVars(HostStep)
    /\ WF_allVars(OwnerApproves)
    /\ WF_allVars(OwnerRejects)
    /\ WF_allVars(OwnerUnlocks)

-----------------------------------------------------------------------------
\* Properties.

\* A host that repeats its upload gets what it wants granted, again and again, whatever
\* happened before: no refusal, overflow, foreign upload, reset, restart or failed
\* derivation leaves the device in a state from which the init chunk does not recover it
\* (apdu_handler.c:70-110, 173-206).
WantedGranted == []<>(reply.granted = Wanted)
=============================================================================
