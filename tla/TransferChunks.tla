--------------------------- MODULE TransferChunks ---------------------------
(***************************************************************************)
(* The life of transfers to a block blob, uploads or service-to-service    *)
(* copies: anyToRemote_file and scheduleSendChunks in the goroutine that   *)
(* initiates a transfer, chunk funcs in a pool of workers, the epilogue in *)
(* whichever worker ends the last chunk, and failure or cancellation at    *)
(* any moment. Transfers may want the same destination.                    *)
(***************************************************************************)
EXTENDS Integers, FiniteSets, FiniteSetsExt

CONSTANTS
    Xfers,
    NumChunks,      \* s.NumChunks() of each transfer
    Empty,          \* files of no bytes, which have one chunk
    BlocksAnyway,   \* sources of one chunk a copy must take as a block: Azure
                    \* files, and blobs too large for one Put Blob From URL
    Dests, DestOf,  \* the blobs and the one each transfer writes
    NoBlob,
    OldBlob, OldPut, \* blobs from before the job: of committed blocks, put whole
    Workers,        \* goroutines running chunkProcessor
    ChunkChSize,    \* capacity of normalChunckCh
    RamLimit        \* strict limit of the cache limiter, in chunks

ASSUME TransfersShape ==
    /\ IsFiniteSet(Xfers)
    /\ NumChunks \in [Xfers -> Nat \ {0}]
    /\ \A t \in Empty \union BlocksAnyway : t \in Xfers /\ NumChunks[t] = 1
    /\ DestOf \in [Xfers -> Dests]
    /\ {NoBlob, OldBlob, OldPut} \cap Xfers = {}
ASSUME PositiveCapacities == {Workers, ChunkChSize, RamLimit} \subseteq Nat \ {0}

VARIABLES
    status,        \* atomicTransferStatus in the plan file
    cancelled,     \* the transfer's context is cancelled
    jobCancelled,  \* ... and so is the job's, from which it derives
    isLocal,       \* srcInfoProvider.IsLocal(): uploads, else S2S copies
    xpc, next,     \* the initiating goroutine, the chunk it is at
    prefetchErr, reader, hashed,  \* its locals: is there an error, the chunk of
                   \* the last chunkReader (0: none), chunks hashed
    md5,           \* the MD5 channel
    cpc,           \* each chunk func
    chunksDone, destModified, written, \* atomicChunksDone,
                   \* atomicDestModifiedIndicator, atomicChunksWritten
    epc,           \* the epilogue
    inUse, holds,  \* the exclusive destination map, atomicDestLockHeldIndicator
    buffered,      \* chunks in RAM, hence the count of the cache limiter
    content, uncommitted, landed, \* the service: what each blob holds, its
                   \* uncommitted blocks, the chunks committed per transfer
    successBytes, activeBytes,  \* atomicSuccessfulBytes of the transfer,
                   \* atomicSuccessfulBytesInActiveFiles of the job, in chunks
    reports, shown \* ReportTransferDone calls; successes the status manager
                   \* has added to TotalBytesTransferred

job == <<jobCancelled, isLocal>>
initiator == <<xpc, next, prefetchErr, reader, hashed, md5>>
service == <<content, uncommitted, landed>>
locks == <<inUse, holds>>
bytes == <<successBytes, activeBytes>>
counters == <<chunksDone, destModified, written>>
xferVars == <<status, cancelled, job, initiator, cpc, counters, epc, locks,
              buffered, service, bytes, reports, shown>>

Chunks(t) == 1..NumChunks[t]
AllChunks == UNION {{t} \X Chunks(t) : t \in Xfers}
TransferOf(c) == c[1]
DestinationOf(c) == DestOf[c[1]]

\* Negative statuses are failures; "Started" is the status of a new plan.
FailedStatuses == {"Failed", "Cancelled", "Skipped"}
IsLive(t) == status[t] \notin FailedStatuses /\ ~cancelled[t]

Running == {c \in AllChunks : cpc[c] \notin {"none", "queued", "badQueued", "done"}}
Queued == {c \in AllChunks : cpc[c] \in {"queued", "badQueued"}}

TransferTypeOK ==
    /\ status \in [Xfers -> FailedStatuses \union {"Started", "Success"}]
    /\ cancelled \in [Xfers -> BOOLEAN] /\ jobCancelled \in BOOLEAN /\ isLocal \in BOOLEAN
    /\ xpc \in [Xfers -> {"start", "checks", "lock", "prefetch", "prologue",
                              "schedule", "hash", "report", "end"}]
    /\ next \in [Xfers -> Nat \ {0}]
    /\ prefetchErr \in [Xfers -> BOOLEAN]
    /\ reader \in [Xfers -> Nat] /\ hashed \in [Xfers -> Nat]
    /\ md5 \in [Xfers -> {"open", "whole", "partial", "closed"}]
    /\ cpc \in [AllChunks -> {"none", "queued", "badQueued", "body", "fail",
                              "setFailed", "addBytes", "count", "epilogue", "done"}]
    /\ chunksDone \in [Xfers -> Nat] /\ written \in [Xfers -> Nat]
    /\ destModified \in [Xfers -> BOOLEAN]
    /\ epc \in [Xfers -> {"none", "start", "source", "sender", "commit",
                              "length", "cleanup", "unlock", "finish", "report",
                              "subtract", "done"}]
    /\ inUse \subseteq Dests /\ holds \subseteq Xfers
    /\ buffered \subseteq AllChunks /\ uncommitted \subseteq AllChunks
    /\ content \in [Dests -> Xfers \union {NoBlob, OldBlob, OldPut}]
    /\ landed \in [Xfers -> SUBSET Nat]
    /\ successBytes \in [Xfers -> Nat] /\ activeBytes \in Nat
    /\ reports \in [Xfers -> Nat] /\ shown \subseteq Xfers

TransferInit ==
    /\ status = [t \in Xfers |-> "Started"]
    /\ cancelled = [t \in Xfers |-> FALSE] /\ jobCancelled = FALSE
    /\ isLocal \in BOOLEAN
    /\ xpc = [t \in Xfers |-> "start"]
    /\ next = [t \in Xfers |-> 1]
    /\ prefetchErr = [t \in Xfers |-> FALSE]
    /\ reader = [t \in Xfers |-> 0] /\ hashed = [t \in Xfers |-> 0]
    /\ md5 = [t \in Xfers |-> "open"]
    /\ cpc = [c \in AllChunks |-> "none"]
    /\ chunksDone = [t \in Xfers |-> 0] /\ written = [t \in Xfers |-> 0]
    /\ destModified = [t \in Xfers |-> FALSE]
    /\ epc = [t \in Xfers |-> "none"]
    /\ inUse = {} /\ holds = {}
    /\ buffered = {} /\ uncommitted = {}
    /\ content \in [Dests -> {NoBlob, OldBlob, OldPut}]
    /\ landed = [t \in Xfers |-> {}]
    /\ successBytes = [t \in Xfers |-> 0] /\ activeBytes = 0
    /\ reports = [t \in Xfers |-> 0] /\ shown = {}

-----------------------------------------------------------------------------
(* What every goroutine of a transfer uses.                                *)

\* SetTransferStatus without overwriting: a failure stays.
Morph(old, new) == IF old \in FailedStatuses THEN old ELSE new
SetStatus(t, s) == status' = [status EXCEPT ![t] = Morph(@, s)]

Cancel(t) == cancelled' = [cancelled EXCEPT ![t] = TRUE]

\* failActiveTransfer where no other goroutine of the transfer can see its
\* steps apart: in the epilogue, and before the first chunk is scheduled.
FailActive(t) == IF cancelled[t] THEN UNCHANGED <<status, cancelled>>
                                 ELSE Cancel(t) /\ SetStatus(t, "Failed")

ReportTransferDone(t) ==
    /\ Cancel(t)
    /\ reports' = [reports EXCEPT ![t] = @ + 1]

-----------------------------------------------------------------------------
(* The initiating goroutine.                                               *)

GoOn(t, pc) == xpc' = [xpc EXCEPT ![t] = pc]

\* startTransfer and step 1 of anyToRemote_file.
StartXfer(t) ==
    /\ xpc[t] = "start"
    /\ IF cancelled[t] THEN SetStatus(t, "Cancelled") /\ GoOn(t, "report")
                       ELSE GoOn(t, "checks") /\ UNCHANGED status
    /\ UNCHANGED <<cancelled, job, next, prefetchErr, reader, hashed, md5, cpc,
                   counters, epc, locks, buffered, service, bytes, reports, shown>>

\* The same item, sender, existence, open and modified-time checks, each of
\* which fails or skips the transfer.
InitialChecks(t) ==
    /\ xpc[t] = "checks"
    /\ \/ GoOn(t, "lock") /\ UNCHANGED status
       \/ \E s \in {"Failed", "Skipped"} : SetStatus(t, s) /\ GoOn(t, "report")
    /\ UNCHANGED <<cancelled, job, next, prefetchErr, reader, hashed, md5, cpc,
                   counters, epc, locks, buffered, service, bytes, reports, shown>>

\* Mutant: the map takes the same destination twice.
LockAnyway(t) ==
    /\ xpc[t] = "lock"
    /\ inUse' = inUse \union {DestOf[t]}
    /\ holds' = holds \union {t}
    /\ GoOn(t, "prefetch") /\ UNCHANGED status
    /\ UNCHANGED <<cancelled, job, next, prefetchErr, reader, hashed, md5, cpc,
                   counters, epc, buffered, service, bytes, reports, shown>>

\* Nobody waits for a destination: the second to want it fails.
WaitUntilLockDestination(t) ==
    /\ xpc[t] = "lock"
    /\ IF DestOf[t] \in inUse
       THEN SetStatus(t, "Failed") /\ GoOn(t, "report") /\ UNCHANGED locks
       ELSE /\ inUse' = inUse \union {DestOf[t]}
            /\ holds' = holds \union {t}
            /\ GoOn(t, "prefetch") /\ UNCHANGED status
    /\ UNCHANGED <<cancelled, job, next, prefetchErr, reader, hashed, md5, cpc,
                   counters, epc, buffered, service, bytes, reports, shown>>

\* The reports of the early returns.
ReportEarly(t) ==
    /\ xpc[t] = "report"
    /\ ReportTransferDone(t)
    /\ GoOn(t, "end")
    /\ UNCHANGED <<status, job, next, prefetchErr, reader, hashed, md5, cpc,
                   counters, epc, locks, buffered, service, bytes, shown>>

AfterPrefetch(t) == GoOn(t, IF next[t] = 1 THEN "prologue" ELSE "schedule")

PrefetchUnchanged ==
    UNCHANGED <<status, cancelled, job, next, md5, cpc, counters, epc,
                locks, service, bytes, reports, shown>>

\* BlockingPrefetch waits for room, reads, and the data is hashed; the read
\* may fail, giving the room back.
Prefetch(t) ==
    /\ xpc[t] = "prefetch" /\ isLocal /\ ~cancelled[t] /\ ~prefetchErr[t]
    /\ Cardinality(buffered) < RamLimit
    /\ reader' = [reader EXCEPT ![t] = next[t]]
    /\ \/ /\ buffered' = buffered \union {<<t, next[t]>>}
          /\ hashed' = [hashed EXCEPT ![t] = @ + 1]
          /\ UNCHANGED prefetchErr
       \/ /\ prefetchErr' = [prefetchErr EXCEPT ![t] = TRUE]
          /\ UNCHANGED <<buffered, hashed>>
    /\ AfterPrefetch(t)
    /\ PrefetchUnchanged

\* The cancellation is seen before the reader is made, or by the reader while
\* it waits for room.
PrefetchCancelled(t) ==
    /\ xpc[t] = "prefetch" /\ isLocal /\ cancelled[t]
    /\ prefetchErr' = [prefetchErr EXCEPT ![t] = TRUE]
    /\ \/ UNCHANGED reader
       \/ ~prefetchErr[t] /\ reader' = [reader EXCEPT ![t] = next[t]]
    /\ AfterPrefetch(t)
    /\ UNCHANGED <<hashed, buffered>> /\ PrefetchUnchanged

NoPrefetch(t) ==
    /\ xpc[t] = "prefetch"
    /\ isLocal => ~cancelled[t] /\ prefetchErr[t]
    /\ AfterPrefetch(t)
    /\ UNCHANGED <<prefetchErr, reader, hashed, buffered>> /\ PrefetchUnchanged

\* An uploader's prologue can fail reading the source's POSIX properties.
Prologue(t) ==
    /\ xpc[t] = "prologue"
    /\ \/ UNCHANGED <<status, cancelled>>
       \/ isLocal /\ FailActive(t)
    /\ GoOn(t, "schedule")
    /\ UNCHANGED <<job, next, prefetchErr, reader, hashed, md5, cpc, counters,
                   epc, locks, buffered, service, bytes, reports, shown>>

\* Mutant: once there is an error the remaining chunks are not scheduled.
ScheduleUntilError(t) ==
    /\ xpc[t] = "schedule"
    /\ Cardinality(Queued) < ChunkChSize
    /\ IF prefetchErr[t]
       THEN GoOn(t, "hash") /\ UNCHANGED <<cpc, next>>
       ELSE /\ cpc' = [cpc EXCEPT ![<<t, next[t]>>] = "queued"]
            /\ next' = [next EXCEPT ![t] = @ + 1]
            /\ GoOn(t, IF next[t] = NumChunks[t] THEN "hash" ELSE "prefetch")
    /\ UNCHANGED <<status, cancelled, job, prefetchErr, reader, hashed, md5,
                   counters, epc, locks, buffered, service, bytes, reports, shown>>

\* Every chunk is scheduled, with a func that fails if there has been an error.
\* chunkReader is then closed: it may belong to the previous chunk.
ScheduleChunk(t) ==
    /\ xpc[t] = "schedule"
    /\ Cardinality(Queued) < ChunkChSize
    /\ cpc' = [cpc EXCEPT ![<<t, next[t]>>] =
                  IF prefetchErr[t] THEN "badQueued" ELSE "queued"]
    /\ buffered' = IF prefetchErr[t] THEN buffered \ {<<t, reader[t]>>} ELSE buffered
    /\ next' = [next EXCEPT ![t] = @ + 1]
    /\ GoOn(t, IF next[t] = NumChunks[t] THEN "hash" ELSE "prefetch")
    /\ UNCHANGED <<status, cancelled, job, prefetchErr, reader, hashed, md5,
                   counters, epc, locks, service, bytes, reports, shown>>

\* A read error makes the hash unsafe, a cancellation seen in the loop does not:
\* the hash of a part of the file is sent then. The channel is closed.
SendHash(t) ==
    /\ xpc[t] = "hash"
    /\ md5' = [md5 EXCEPT ![t] = IF ~isLocal \/ reader[t] > hashed[t] THEN "closed"
                                 ELSE IF hashed[t] = NumChunks[t] THEN "whole"
                                 ELSE "partial"]
    /\ GoOn(t, "end")
    /\ UNCHANGED <<status, cancelled, job, next, prefetchErr, reader, hashed,
                   cpc, counters, epc, locks, buffered, service, bytes, reports, shown>>

Initiate(t) == \/ StartXfer(t)
               \/ InitialChecks(t)
               \/ WaitUntilLockDestination(t)
               \/ ReportEarly(t)
               \/ Prefetch(t)
               \/ PrefetchCancelled(t)
               \/ NoPrefetch(t)
               \/ Prologue(t)
               \/ ScheduleChunk(t)
               \/ SendHash(t)

-----------------------------------------------------------------------------
(* The chunk funcs, run by the workers of the pool.                        *)

Step(c, pc) == cpc' = [cpc EXCEPT ![c] = pc]

ChunkUnchanged ==
    UNCHANGED <<job, initiator, epc, locks, reports, shown>>

\* The prefix of every chunk func. One that finds its transfer cancelled does
\* not run its body, which would have used up (and freed) the buffer.
StartChunk(c) ==
    LET t == TransferOf(c)
    IN  /\ cpc[c] \in {"queued", "badQueued"}
        /\ Cardinality(Running) < Workers
        /\ IF cancelled[t]
           THEN Step(c, "addBytes") /\ UNCHANGED destModified
           ELSE /\ destModified' = [destModified EXCEPT ![t] = TRUE]
                /\ Step(c, IF cpc[c] = "queued" THEN "body" ELSE "fail")
        /\ UNCHANGED <<status, cancelled, chunksDone, written, buffered, service, bytes>>
        /\ ChunkUnchanged

\* The request went well, or it failed, with or without effect at the service.
\* Either way its body, the chunk's reader, has been read up or closed.
Respond(c, effect, noEffect) ==
    /\ \/ /\ effect /\ Step(c, "addBytes")
          /\ written' = [written EXCEPT ![TransferOf(c)] = @ + 1]
       \/ (effect \/ noEffect) /\ Step(c, "fail") /\ UNCHANGED written
    /\ buffered' = buffered \ {c}
    /\ UNCHANGED <<status, cancelled, chunksDone, destModified, bytes>>
    /\ ChunkUnchanged

\* What makes a chunk a block rather than the whole blob.
ByList(t) == NumChunks[t] > 1 \/ (~isLocal /\ t \in BlocksAnyway)

\* generatePutBlock, generatePutBlockFromURL.
PutBlock(c) ==
    /\ cpc[c] = "body" /\ ByList(TransferOf(c))
    /\ Respond(c, /\ uncommitted' = uncommitted \union {c}
                  /\ UNCHANGED <<content, landed>>,
                  UNCHANGED service)

BlocksOf(d) == {c \in AllChunks : DestinationOf(c) = d}

\* What a put of a whole blob or of a block list does at the service: the blob
\* has the given chunks of t, and no uncommitted blocks.
Commit(t, chunks) ==
    /\ content' = [content EXCEPT ![DestOf[t]] = t]
    /\ landed' = [landed EXCEPT ![t] = chunks]
    /\ uncommitted' = uncommitted \ BlocksOf(DestOf[t])

\* An upload sends the hash along, unless there is nothing to hash.
NeedsHash(t) == isLocal /\ t \notin Empty

\* generatePutWholeBlob, generateStartPutBlobFromURL, generateCreateEmptyBlob:
\* an upload waits for the hash and fails without one.
PutWholeBlob(c) ==
    LET t == TransferOf(c)
    IN  /\ cpc[c] = "body" /\ ~ByList(t)
        /\ NeedsHash(t) => md5[t] # "open"
        /\ IF NeedsHash(t) /\ md5[t] = "closed"
           THEN /\ Step(c, "fail")
                /\ UNCHANGED <<status, cancelled, counters, buffered, service, bytes>>
                /\ ChunkUnchanged
           ELSE Respond(c, Commit(t, {c[2]}), UNCHANGED service)

FailUnchanged == /\ UNCHANGED <<counters, buffered, service, bytes>>
                 /\ ChunkUnchanged

\* failActiveTransfer: other chunks may see the cancellation before the status.
\* (That two of them may both find it not cancelled changes nothing: the
\* status they go on to store is the same.)
Fail(c) ==
    /\ cpc[c] = "fail"
    /\ IF cancelled[TransferOf(c)]
       THEN Step(c, "addBytes") /\ UNCHANGED cancelled
       ELSE Step(c, "setFailed") /\ Cancel(TransferOf(c))
    /\ UNCHANGED status /\ FailUnchanged

SetFailed(c) ==
    /\ cpc[c] = "setFailed"
    /\ SetStatus(TransferOf(c), "Failed")
    /\ Step(c, "addBytes")
    /\ UNCHANGED cancelled /\ FailUnchanged

\* ReportChunkDone, first the bytes, then the count.
AddBytes(c) ==
    LET t == TransferOf(c)
    IN  /\ cpc[c] = "addBytes"
        /\ IF IsLive(t) THEN /\ successBytes' = [successBytes EXCEPT ![t] = @ + 1]
                             /\ activeBytes' = activeBytes + 1
                        ELSE UNCHANGED bytes
        /\ Step(c, "count")
        /\ UNCHANGED <<status, cancelled, counters, buffered, service>>
        /\ ChunkUnchanged

\* Mutant: the last chunk but one already runs the epilogue.
LastButOne(n, t) == n >= NumChunks[t] - 1
LastChunk(n, t) == n = NumChunks[t]

CountChunk(c) ==
    LET t == TransferOf(c)
    IN  /\ cpc[c] = "count"
        /\ chunksDone' = [chunksDone EXCEPT ![t] = @ + 1]
        /\ IF LastChunk(chunksDone[t] + 1, t)
           THEN Step(c, "epilogue") /\ epc' = [epc EXCEPT ![t] = "start"]
           ELSE Step(c, "done") /\ UNCHANGED epc
        /\ UNCHANGED <<status, cancelled, job, initiator, destModified, written,
                       locks, buffered, service, bytes, reports, shown>>

RunChunk(c) == \/ PutBlock(c)
               \/ PutWholeBlob(c)
               \/ Fail(c)
               \/ SetFailed(c)
               \/ AddBytes(c)
               \/ CountChunk(c)

-----------------------------------------------------------------------------
(* The epilogue: epilogueWithCleanupSendToRemote, commonSenderCompletion.  *)

Epilogue(t, from, to) == epc[t] = from /\ epc' = [epc EXCEPT ![t] = to]

EpilogueUnchanged ==
    UNCHANGED <<job, initiator, cpc, counters, buffered, bytes, reports, shown>>

DetectCancellation(t) ==
    /\ Epilogue(t, "start", "source")
    /\ IF cancelled[t] THEN SetStatus(t, "Cancelled") ELSE UNCHANGED status
    /\ UNCHANGED <<cancelled, locks, service>> /\ EpilogueUnchanged

\* Has the source been changed? (S2S copies may be told not to ask.)
CheckSource(t) ==
    /\ Epilogue(t, "source", "sender")
    /\ \/ UNCHANGED <<status, cancelled>>
       \/ IsLive(t) /\ FailActive(t)
    /\ UNCHANGED <<locks, service>> /\ EpilogueUnchanged

\* putListNeeded is set when the func of a block is made, unless it is one that
\* just fails.
PutListNeeded(t) ==
    /\ ByList(t)
    /\ isLocal => hashed[t] > 0
\* ... and neither this nor the opposite if all the funcs just fail.
PutListNeedUnknown(t) == isLocal /\ hashed[t] = 0

\* blockBlobUploader.Epilogue waits for the hash. Without one the base's
\* Epilogue is not run.
ReceiveHash(t) ==
    /\ epc[t] = "sender"
    /\ IF isLocal /\ IsLive(t) /\ PutListNeeded(t)
       THEN /\ md5[t] # "open"
            /\ \/ /\ md5[t] = "closed" /\ FailActive(t)
                  /\ Epilogue(t, "sender", "length")
               \/ /\ md5[t] # "closed" /\ UNCHANGED <<status, cancelled>>
                  /\ Epilogue(t, "sender", "commit")
       ELSE Epilogue(t, "sender", "commit") /\ UNCHANGED <<status, cancelled>>
    /\ UNCHANGED <<locks, service>> /\ EpilogueUnchanged

\* blockBlobSenderBase.Epilogue: CommitBlockList, which can fail having been
\* carried out. The service is taken to accept whatever blocks there are.
CommitBlockList(t) ==
    /\ Epilogue(t, "commit", "length")
    /\ IF IsLive(t) /\ PutListNeeded(t)
       THEN /\ \/ UNCHANGED <<status, cancelled>>
               \/ FailActive(t)
            /\ \/ Commit(t, {i \in Chunks(t) : <<t, i>> \in uncommitted})
               \/ cancelled'[t] /\ UNCHANGED service
       ELSE UNCHANGED <<status, cancelled, service>>
    /\ UNCHANGED locks /\ EpilogueUnchanged

\* Is the destination as long as the source? (If one is told to ask.)
CheckLength(t) ==
    /\ Epilogue(t, "length", "cleanup")
    /\ \/ UNCHANGED <<status, cancelled>>
       \/ IsLive(t) /\ FailActive(t)
    /\ UNCHANGED <<locks, service>> /\ EpilogueUnchanged

IsDeadInflight(t) == ~IsLive(t) /\ destModified[t]

Delete(d) == /\ content' = [content EXCEPT ![d] = NoBlob]
             /\ uncommitted' = uncommitted \ BlocksOf(d)
             /\ UNCHANGED landed

\* Mutant: a cancelled transfer deletes the blob whatever is committed there.
DeleteAnyway(t) ==
    /\ Epilogue(t, "cleanup", "unlock")
    /\ IF t \in holds /\ IsDeadInflight(t) /\ written[t] # 0
       THEN Delete(DestOf[t])
       ELSE UNCHANGED service
    /\ UNCHANGED <<status, cancelled, locks>> /\ EpilogueUnchanged

\* What GetBlockList answers: a blob put whole has no committed blocks.
HasCommittedBlocks(d) == content[d] = OldBlob \/ \E t \in Xfers : content[d] = t /\ ByList(t)

\* After a cancellation the blob is deleted if it has uncommitted blocks only.
\* The calls may fail, which is ignored.
Cleanup(t) ==
    LET d == DestOf[t]
    IN  /\ Epilogue(t, "cleanup", "unlock")
        /\ \/ UNCHANGED service
           \/ /\ t \in holds /\ IsDeadInflight(t) /\ written[t] # 0
              /\ cancelled[t] =>
                    ~HasCommittedBlocks(d) /\ BlocksOf(d) \cap uncommitted # {}
              /\ Delete(d)
        /\ UNCHANGED <<status, cancelled, locks>> /\ EpilogueUnchanged

EnsureDestinationUnlocked(t) ==
    /\ Epilogue(t, "unlock", "finish")
    /\ inUse' = IF t \in holds THEN inUse \ {DestOf[t]} ELSE inUse
    /\ holds' = holds \ {t}
    /\ UNCHANGED <<status, cancelled, service>> /\ EpilogueUnchanged

\* Mutant: success is claimed of every transfer that has not failed.
FinishCancelled(t) ==
    /\ Epilogue(t, "finish", "report")
    /\ SetStatus(t, "Success")
    /\ UNCHANGED <<cancelled, locks, service>> /\ EpilogueUnchanged

Finish(t) ==
    /\ Epilogue(t, "finish", "report")
    /\ IF IsLive(t) THEN SetStatus(t, "Success") ELSE UNCHANGED status
    /\ UNCHANGED <<cancelled, locks, service>> /\ EpilogueUnchanged

ReportDone(t) ==
    /\ Epilogue(t, "report", "subtract")
    /\ ReportTransferDone(t)
    /\ UNCHANGED <<status, job, initiator, cpc, counters, locks, buffered, service,
                   bytes, shown>>

\* The end of ReportChunkDone for the last chunk.
SubtractBytes(t) ==
    /\ Epilogue(t, "subtract", "done")
    /\ activeBytes' = activeBytes - successBytes[t]
    /\ cpc' = [c \in AllChunks |-> IF TransferOf(c) = t /\ cpc[c] = "epilogue"
                                   THEN "done" ELSE cpc[c]]
    /\ UNCHANGED <<status, cancelled, job, initiator, counters, locks, buffered,
                   service, successBytes, reports, shown>>

RunEpilogue(t) == \/ DetectCancellation(t)
                  \/ CheckSource(t)
                  \/ ReceiveHash(t)
                  \/ CommitBlockList(t)
                  \/ CheckLength(t)
                  \/ Cleanup(t)
                  \/ EnsureDestinationUnlocked(t)
                  \/ Finish(t)
                  \/ ReportDone(t)
                  \/ SubtractBytes(t)

-----------------------------------------------------------------------------
(* The rest of the job.                                                    *)

\* The status manager takes the xferDoneMsg of a success.
AddToTotal(t) ==
    /\ reports[t] > 0 /\ status[t] = "Success" /\ t \notin shown
    /\ shown' = shown \union {t}
    /\ UNCHANGED <<status, cancelled, job, initiator, cpc, counters, epc, locks,
                   buffered, service, bytes, reports>>

\* CancelPauseJobOrder cancels the context all transfers derive theirs from.
CancelJob ==
    /\ ~jobCancelled
    /\ jobCancelled' = TRUE
    /\ cancelled' = [t \in Xfers |-> TRUE]
    /\ UNCHANGED <<status, isLocal, initiator, cpc, counters, epc, locks, buffered, service,
                   bytes, reports, shown>>

Over(t) == xpc[t] = "end" /\ epc[t] \in {"none", "done"} /\ reports[t] > 0
XferTerminated == (\A t \in Xfers : Over(t)) /\ UNCHANGED xferVars

TransferNext == \/ \E t \in Xfers : Initiate(t) \/ RunEpilogue(t) \/ AddToTotal(t)
                \/ \E c \in AllChunks : StartChunk(c) \/ RunChunk(c)
                \/ CancelJob
                \/ XferTerminated

TransferSpec == TransferInit /\ [][TransferNext]_xferVars

\* Each goroutine goes on when it can; requests are answered; the pool takes
\* chunks as long as there are some. Nobody need cancel.
TransferFairness ==
    /\ \A t \in Xfers : WF_xferVars(Initiate(t)) /\ WF_xferVars(RunEpilogue(t))
    /\ \A c \in AllChunks : WF_xferVars(RunChunk(c))
    /\ WF_xferVars(\E c \in AllChunks : StartChunk(c))

FairTransferSpec == TransferSpec /\ TransferFairness

-----------------------------------------------------------------------------
(* Properties.                                                             *)

\* "defensive programming check, to make sure this method is not called twice
\* for the same transfer": a transfer is reported at most once, and when it is
\* no chunk func of it is still to run and its destination is free again.
ReportedOnceAtTheEnd ==
    \A t \in Xfers :
        /\ reports[t] <= 1
        /\ reports[t] = 1 =>
              /\ t \notin holds
              /\ \A i \in Chunks(t) : cpc[<<t, i>>] \in {"none", "epilogue", "done"}

SuccessIsWhole ==
    \A t \in Xfers : status[t] = "Success" =>
        /\ landed[t] = Chunks(t)
        /\ NeedsHash(t) => md5[t] = "whole"

FailureIsRecorded ==
    \A t \in Xfers :
        reports[t] > 0 /\ ~jobCancelled => status[t] \in {"Success", "Failed", "Skipped"}

ActiveBytesBalance ==
    /\ activeBytes >= 0
    /\ (\A t \in Xfers : Over(t)) => activeBytes = 0

PutListNeedIsKnown ==
    \A t \in Xfers : epc[t] = "commit" /\ PutListNeedUnknown(t) => cancelled[t]

\* A transfer that ends as a success has put all its chunks, and an upload the
\* hash of the whole file, in its destination. A transfer of a job nobody
\* cancels ends as a success, a skip or a failure, although a failure is known
\* to the other chunks as a cancellation at first. The counter of bytes in
\* active files returns to zero and is never negative ("should never happen,
\* but would result in nasty over/underflow"), and "'put list' need flag was
\* never set" does not happen to a live transfer.
OutcomesAreTrue ==
    TransferTypeOK /\ SuccessIsWhole /\ FailureIsRecorded /\ ActiveBytesBalance /\ PutListNeedIsKnown

ReplacedWhole(d) == /\ content'[d] \in Xfers
                    /\ landed'[content'[d]] = Chunks(content'[d])

CleanedUp(d) == /\ ~HasCommittedBlocks(d) /\ content'[d] = NoBlob
                /\ \E t \in holds : /\ DestOf[t] = d /\ epc[t] = "cleanup"
                                   /\ cancelled[t] /\ written[t] # 0

\* "if there are committed blocks, leave them there (since they still safely
\* represent the state before our job even started)": no outcome of a transfer
\* tears what a destination held, or loses it if it is a list of blocks. (A
\* blob put whole has no such list, and the clean-up of a cancelled transfer
\* that has put blocks beside it deletes it.)
BlockListsSurvive ==
    [][\A d \in Dests : content'[d] # content[d] =>
                            ReplacedWhole(d) \/ CleanedUp(d)]_xferVars

\* The comment taken at its word, whatever the blob is made of: what was there
\* before the job is only ever replaced by a whole file.
OnlyReplacedWhole ==
    [][\A d \in Dests : content'[d] # content[d] => ReplacedWhole(d)]_xferVars

\* While a transfer holds its destination no other one removes its blocks.
BlocksUndisturbed ==
    [][\A t \in holds : \A i \in Chunks(t) :
          <<t, i>> \in uncommitted \ uncommitted' =>
              epc[t] \in {"commit", "cleanup"} /\ epc'[t] # epc[t]]_xferVars

\* Every transfer ends, whatever fails.
TransfersEnd == <>(\A t \in Xfers : Over(t))

=============================================================================
