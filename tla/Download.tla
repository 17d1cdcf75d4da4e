------------------------------ MODULE Download ------------------------------
(***************************************************************************)
(* A download to a local file: the transfer's initiation                   *)
(* (ste/xfer-remoteToLocal-file.go), its chunk functions                   *)
(* (ste/downloader-blob.go), the ChunkedFileWriter that puts the chunks in *)
(* order (common/chunkedFileWriter.go) with the limiter of the RAM they    *)
(* may occupy (common/cacheLimiter.go), and the epilogue of the last chunk.*)
(*                                                                         *)
(* Actors: per file the initiator, one chunk function per chunk, the       *)
(* writer's goroutine and the epilogue; a user who may cancel a transfer.  *)
(* A chunk counts one unit of RAM.                                         *)
(***************************************************************************)
EXTENDS Integers, Sequences, FiniteSets, Functions

CONSTANTS Files,       \* the transfers
          NumChunks,   \* NumChunks[f]
          RamLimit,    \* the cacheLimiter's limit
          FewChunks,   \* maxDesirableActiveChunks: up to so many, the relaxed limit applies
          TempPath     \* whether a file is downloaded to a temporary name first

ASSUME DownloadAssumption ==
    /\ NumChunks \in [Files -> Nat \ {0}]
    /\ RamLimit \in Nat \ {0} /\ FewChunks \in Nat /\ TempPath \in BOOLEAN

VARIABLES cancelled,  \* jptm.ctx is done
          status,     \* the transfer's status in the plan: started, success, failed, cancelled
          init,       \* the initiator: how many chunks it has scheduled
          chunk,      \* chunk[f][c]: where the chunk function stands
          chunksDone,
          queue,      \* newUnorderedChunks, and whether Flush closed it
          writer,     \* workerRoutine: pc, the unsaved chunks, the next to save, its err
          reserved,   \* currentReservedCapacity (and, but for its timing, activeChunkCount)
          ram,        \* the cacheLimiter's value
          epilogue,   \* where the epilogue stands
          disk        \* how many chunks, from the first, are under the temporary and under
                      \* the final name, and the error of a file operation that is only logged

downloadVars == <<cancelled, status, init, chunk, chunksDone, queue, writer,
                  reserved, ram, epilogue, disk>>

ChunksOf(f) == 1..NumChunks[f]

DownloadInit ==
    /\ cancelled = [f \in Files |-> FALSE]
    /\ status = [f \in Files |-> "started"]
    /\ init = [f \in Files |-> 0]
    /\ chunk = [f \in Files |-> [c \in ChunksOf(f) |-> "unscheduled"]]
    /\ chunksDone = [f \in Files |-> 0]
    /\ queue = [f \in Files |-> [chunks |-> << >>, closed |-> FALSE]]
    /\ writer = [f \in Files |-> [pc |-> "select", unsaved |-> {}, next |-> 1, failed |-> FALSE]]
    /\ reserved = [f \in Files |-> 0]
    /\ ram = 0
    /\ epilogue = [f \in Files |-> "none"]
    /\ disk = [f \in Files |-> [temp |-> 0, final |-> 0, logged |-> "none"]]

IsDead(f) == status[f] \in {"failed", "cancelled"} \/ cancelled[f]

(* The file the writer writes, under the name it has while downloading.    *)
Written(f) == IF TempPath THEN disk[f].temp ELSE disk[f].final

(* failActiveTransfer: only the first failure of a live transfer counts.   *)
FailActive(f) ==
    IF cancelled[f] THEN UNCHANGED <<cancelled, status>>
    ELSE /\ cancelled' = [cancelled EXCEPT ![f] = TRUE]
         /\ status' = [status EXCEPT ![f] = "failed"]

CancelTransfer(f) ==
    /\ ~cancelled[f] /\ epilogue[f] # "reported"
    /\ cancelled' = [cancelled EXCEPT ![f] = TRUE]
    /\ UNCHANGED <<status, init, chunk, chunksDone, queue, writer, reserved, ram, epilogue, disk>>

(***************************************************************************)
(* TryAdd: within the limit, or within 3/4 of it when this file already    *)
(* has more than a few chunks in flight.                                   *)
(***************************************************************************)
TryAdd(f) == ram + 1 <= IF reserved[f] <= FewChunks THEN RamLimit ELSE (RamLimit * 3) \div 4

(***************************************************************************)
(* The next chunk of the initiator's loop: WaitToScheduleChunk, whose      *)
(* error (the transfer is cancelled) is ignored, and the scheduling of the *)
(* chunk, which happens all the same so that the last chunk triggers the   *)
(* epilogue.                                                               *)
(***************************************************************************)
ScheduleNext(f) ==
    /\ init[f] < NumChunks[f]
    /\ \/ /\ TryAdd(f)
          /\ ram' = ram + 1
          /\ reserved' = [reserved EXCEPT ![f] = @ + 1]
       \/ /\ cancelled[f] /\ ~TryAdd(f)
          /\ UNCHANGED <<ram, reserved>>
    /\ init' = [init EXCEPT ![f] = @ + 1]
    /\ chunk' = [chunk EXCEPT ![f][init[f] + 1] = "scheduled"]
    /\ UNCHANGED <<cancelled, status, chunksDone, queue, writer, epilogue, disk>>

(* The chunk function starts: nothing to do for a cancelled transfer;      *)
(* otherwise the request, which may fail, and the reading of the body.     *)
StartChunkFunc(f, c) ==
    /\ chunk[f][c] = "scheduled"
    /\ \/ /\ cancelled[f]
          /\ chunk' = [chunk EXCEPT ![f][c] = "report"]
          /\ UNCHANGED <<cancelled, status>>
       \/ /\ ~cancelled[f]
          /\ chunk' = [chunk EXCEPT ![f][c] = "read"]
          /\ UNCHANGED <<cancelled, status>>
       \/ /\ ~cancelled[f] /\ FailActive(f)
          /\ chunk' = [chunk EXCEPT ![f][c] = "report"]
    /\ UNCHANGED <<init, chunksDone, queue, writer, reserved, ram, epilogue, disk>>

(***************************************************************************)
(* EnqueueChunk: with the body read into its buffer, hand it to the        *)
(* writer; a failed read or a writer that is gone gives the RAM back and   *)
(* fails the transfer.  A select with both channels ready picks either.    *)
(***************************************************************************)
EnqueueChunk(f, c) ==
    /\ chunk[f][c] = "read"
    /\ \/ /\ queue' = [queue EXCEPT ![f].chunks = Append(@, c)]
          /\ UNCHANGED <<cancelled, status, ram, reserved>>
       \/ /\ ram' = ram - 1
          /\ reserved' = [reserved EXCEPT ![f] = @ - 1]
          /\ FailActive(f)
          /\ UNCHANGED queue
    /\ chunk' = [chunk EXCEPT ![f][c] = "report"]
    /\ UNCHANGED <<init, chunksDone, writer, epilogue, disk>>

(* ReportChunkDone; the last one goes on with the epilogue.                *)
ReportChunkDone(f, c) ==
    /\ chunk[f][c] = "report"
    /\ chunk' = [chunk EXCEPT ![f][c] = "done"]
    /\ chunksDone' = [chunksDone EXCEPT ![f] = @ + 1]
    /\ epilogue' = [epilogue EXCEPT ![f] = IF chunksDone[f] + 1 = NumChunks[f] THEN "start" ELSE @]
    /\ UNCHANGED <<cancelled, status, init, queue, writer, reserved, ram, disk>>

-----------------------------------------------------------------------------
(* workerRoutine: its select takes whatever is ready.                      *)

TakeChunk(f) ==
    /\ writer[f].pc = "select" /\ queue[f].chunks # << >>
    /\ writer' = [writer EXCEPT ![f].pc = "process",
                                ![f].unsaved = @ \cup {Head(queue[f].chunks)}]
    /\ queue' = [queue EXCEPT ![f].chunks = Tail(@)]
    /\ UNCHANGED <<cancelled, status, init, chunk, chunksDone, reserved, ram, epilogue, disk>>

SeeClosed(f) ==
    /\ writer[f].pc = "select" /\ queue[f].closed /\ queue[f].chunks = << >>
    /\ writer' = [writer EXCEPT ![f].pc = "offer md5"]
    /\ UNCHANGED <<cancelled, status, init, chunk, chunksDone, queue, reserved, ram, epilogue, disk>>

SeeCancelled(f) ==
    /\ writer[f].pc = "select" /\ cancelled[f]
    /\ writer' = [writer EXCEPT ![f].pc = "clean up", ![f].failed = TRUE]
    /\ UNCHANGED <<cancelled, status, init, chunk, chunksDone, queue, reserved, ram, epilogue, disk>>

(***************************************************************************)
(* sequentiallyProcessAvailableChunks: stop when cancelled (without an     *)
(* error) or when the next chunk is not there; else save it, or fail.      *)
(* Saved or not, the chunk gives its RAM back.                             *)
(***************************************************************************)
SaveNext(f) ==
    /\ writer[f].pc = "process"
    /\ LET next == writer[f].next
       IN  \/ /\ cancelled[f] \/ next \notin writer[f].unsaved
              /\ writer' = [writer EXCEPT ![f].pc = "select"]
              /\ UNCHANGED <<reserved, ram, disk>>
           \/ /\ ~cancelled[f] /\ next \in writer[f].unsaved
              /\ reserved' = [reserved EXCEPT ![f] = @ - 1]
              /\ ram' = ram - 1
              /\ \/ /\ disk' = IF TempPath THEN [disk EXCEPT ![f].temp = next]
                               ELSE [disk EXCEPT ![f].final = next]
                    /\ writer' = [writer EXCEPT ![f].unsaved = @ \ {next}, ![f].next = @ + 1]
                 \/ /\ writer' = [writer EXCEPT ![f].pc = "clean up", ![f].failed = TRUE,
                                                ![f].unsaved = @ \ {next}, ![f].next = @ + 1]
                    /\ UNCHANGED disk
    /\ UNCHANGED <<cancelled, status, init, chunk, chunksDone, queue, epilogue>>

(* The deferred clean-up: the RAM of the unsaved chunks, then the close of *)
(* chunkWriterDone.                                                        *)
WriterCleansUp(f) ==
    /\ writer[f].pc = "clean up"
    /\ ram' = ram - Cardinality(writer[f].unsaved)
    /\ reserved' = [reserved EXCEPT ![f] = @ - Cardinality(writer[f].unsaved)]
    /\ writer' = [writer EXCEPT ![f].pc = "gone", ![f].unsaved = {}]
    /\ UNCHANGED <<cancelled, status, init, chunk, chunksDone, queue, epilogue, disk>>

-----------------------------------------------------------------------------
(* epilogueWithCleanupDownload                                             *)

To(f, pc) == epilogue' = [epilogue EXCEPT ![f] = pc]

EpilogueStarts(f) ==
    /\ epilogue[f] = "start"
    /\ status' = [status EXCEPT ![f] = IF cancelled[f] /\ @ = "started" THEN "cancelled" ELSE @]
    /\ queue' = [queue EXCEPT ![f].closed = TRUE]
    /\ To(f, "flush")
    /\ UNCHANGED <<cancelled, init, chunk, chunksDone, writer, reserved, ram, disk>>

(* Flush meets the writer that offers its hash ...                         *)
FlushSucceeds(f) ==
    /\ epilogue[f] = "flush" /\ writer[f].pc = "offer md5"
    /\ writer' = [writer EXCEPT ![f].pc = "clean up"]
    /\ To(f, "flushed")
    /\ UNCHANGED <<cancelled, status, init, chunk, chunksDone, queue, reserved, ram, disk>>

(* ... or finds it gone.                                                   *)
FlushFails(f) ==
    /\ epilogue[f] = "flush" /\ writer[f].pc = "gone"
    /\ To(f, "not flushed")
    /\ UNCHANGED <<cancelled, status, init, chunk, chunksDone, queue, writer, reserved, ram, disk>>

\* Mutant: the error of the flush is dropped.
FlushReturnsAnyway(f) ==
    /\ epilogue[f] \in {"flushed", "not flushed"}
    /\ ram' = ram - reserved[f]
    /\ To(f, "check")
    /\ UNCHANGED <<cancelled, status, init, chunk, chunksDone, queue, writer, reserved, disk>>

(* Flush's deferred Remove of whatever is still reserved; the error of the *)
(* flush or of closing the file fails the transfer.                        *)
FlushReturns(f) ==
    /\ epilogue[f] \in {"flushed", "not flushed"}
    /\ ram' = ram - reserved[f]
    /\ \/ epilogue[f] = "flushed" /\ UNCHANGED <<cancelled, status>>
       \/ FailActive(f)
    /\ To(f, "check")
    /\ UNCHANGED <<init, chunk, chunksDone, queue, writer, reserved, disk>>

(***************************************************************************)
(* For a live transfer: the hash, then the length, then the final name.  A *)
(* wrong hash keeps the temporary name; a wrong length does not.  From     *)
(* here on errors are logged only: a failed os.Rename leaves the file      *)
(* under its temporary name, and the transfer goes on to succeed.          *)
(***************************************************************************)
Renamed(d) == [d EXCEPT !.temp = 0, !.final = d.temp]
Renamings(d) == IF TempPath THEN {Renamed(d), [d EXCEPT !.logged = "not renamed"]} ELSE {d}

CheckAndRename(f) ==
    /\ epilogue[f] = "check"
    /\ \/ IsDead(f) /\ UNCHANGED <<cancelled, status, disk>>
       \/ ~IsDead(f) /\ FailActive(f) /\ UNCHANGED disk
       \/ /\ ~IsDead(f) /\ (UNCHANGED <<cancelled, status>> \/ FailActive(f))
          /\ \E d \in Renamings(disk[f]) : disk' = [disk EXCEPT ![f] = d]
    /\ To(f, "complete")
    /\ UNCHANGED <<init, chunk, chunksDone, queue, writer, reserved, ram>>

(* tryDeleteFile: the file under the name it was downloaded to goes, or    *)
(* the error is logged.                                                    *)
TryDeleteFile(d) ==
    {IF TempPath THEN [d EXCEPT !.temp = 0] ELSE [d EXCEPT !.final = 0],
     [d EXCEPT !.logged = "not deleted"]}

(***************************************************************************)
(* commonDownloaderCompletion: a dead transfer tries to delete its file;   *)
(* the context is asked twice, so a cancellation in between meets the      *)
(* assertion that the transfer is live.                                    *)
(***************************************************************************)
Complete(f) ==
    /\ epilogue[f] = "complete"
    /\ IF IsDead(f)
       THEN /\ \E d \in TryDeleteFile(disk[f]) : disk' = [disk EXCEPT ![f] = d]
            /\ To(f, "report")
       ELSE UNCHANGED disk /\ To(f, "assert live")
    /\ UNCHANGED <<cancelled, status, init, chunk, chunksDone, queue, writer, reserved, ram>>

AssertLive(f) ==
    /\ epilogue[f] = "assert live"
    /\ IF IsDead(f) THEN To(f, "panic") ELSE To(f, "succeed")
    /\ UNCHANGED <<cancelled, status, init, chunk, chunksDone, queue, writer, reserved, ram, disk>>

Succeed(f) ==
    /\ epilogue[f] = "succeed"
    /\ status' = [status EXCEPT ![f] = "success"]
    /\ To(f, "report")
    /\ UNCHANGED <<cancelled, init, chunk, chunksDone, queue, writer, reserved, ram, disk>>

Report(f) ==
    /\ epilogue[f] = "report"
    /\ To(f, "reported")
    /\ cancelled' = [cancelled EXCEPT ![f] = TRUE]
    /\ UNCHANGED <<status, init, chunk, chunksDone, queue, writer, reserved, ram, disk>>

WriterStep(f) ==
    TakeChunk(f) \/ SeeClosed(f) \/ SeeCancelled(f) \/ SaveNext(f) \/ WriterCleansUp(f)
EpilogueStep(f) ==
    \/ EpilogueStarts(f) \/ FlushSucceeds(f) \/ FlushFails(f) \/ FlushReturns(f)
    \/ CheckAndRename(f) \/ Complete(f) \/ AssertLive(f) \/ Succeed(f) \/ Report(f)
ChunkStep(f, c) == StartChunkFunc(f, c) \/ EnqueueChunk(f, c) \/ ReportChunkDone(f, c)

DownloadNext ==
    \E f \in Files :
        \/ CancelTransfer(f) \/ ScheduleNext(f) \/ WriterStep(f) \/ EpilogueStep(f)
        \/ \E c \in ChunksOf(f) : ChunkStep(f, c)

(***************************************************************************)
(* Some goroutine goes on while one can (the poll for RAM counts when it   *)
(* gets some): enough, for none goes on for ever.                          *)
(***************************************************************************)
DownloadFairness ==
    WF_downloadVars(\E f \in Files : ScheduleNext(f) \/ WriterStep(f) \/ EpilogueStep(f)
                                      \/ \E c \in ChunksOf(f) : ChunkStep(f, c))

DownloadSpec == DownloadInit /\ [][DownloadNext]_downloadVars /\ DownloadFairness

-----------------------------------------------------------------------------
DownloadTypeOK ==
    /\ cancelled \in [Files -> BOOLEAN]
    /\ status \in [Files -> {"started", "success", "failed", "cancelled"}]
    /\ \A f \in Files : init[f] \in 0..NumChunks[f] /\ chunksDone[f] \in 0..NumChunks[f]
    /\ \A f \in Files : \A c \in ChunksOf(f) :
          chunk[f][c] \in {"unscheduled", "scheduled", "read", "report", "done"}
    /\ reserved \in [Files -> Int] /\ ram \in Int

(* The chunks that have RAM reserved: asked for, with the writer's channel *)
(* or with the writer, and not saved.                                      *)
InFlight(f) ==
    {c \in ChunksOf(f) : \/ chunk[f][c] \in {"scheduled", "read"}
                         \/ c \in Range(queue[f].chunks) \cup writer[f].unsaved}

ChunksInFlight == UNION {{<<f, c>> : c \in InFlight(f)} : f \in Files}

(* Every chunk under the final name, or under the temporary one when the   *)
(* log says that it could not be renamed, and nothing under the other.     *)
WholeUnderAName(f) ==
    IF disk[f].logged = "not renamed"
    THEN TempPath /\ disk[f].temp = NumChunks[f] /\ disk[f].final = 0
    ELSE disk[f].final = NumChunks[f] /\ disk[f].temp = 0

(***************************************************************************)
(* Whatever the order in which the chunks arrive and whatever fails, a     *)
(* transfer is a success only when every chunk of it was written, in file  *)
(* order, and stands under its final name or, if the log tells of a failed *)
(* rename, under the temporary one (a flush that returned early because of *)
(* a cancellation never passes for a success); one that was reported       *)
(* without success leaves nothing under the name it was downloaded to,     *)
(* unless the log tells of a failed deletion; and with temporary names no  *)
(* part of a file ever stands under the final one.  While no transfer was  *)
(* cancelled the limiter counts the chunks in flight, of each and of all.  *)
(***************************************************************************)
DownloadedWhole ==
    /\ DownloadTypeOK
    /\ \A f \in Files :
          /\ status[f] = "success" => WholeUnderAName(f)
          /\ epilogue[f] = "reported" /\ status[f] # "success"
                => Written(f) = 0 \/ disk[f].logged = "not deleted"
          /\ TempPath => disk[f].final \in {0, NumChunks[f]}
    /\ (\A f \in Files : ~cancelled[f] \/ status[f] = "success") =>
          /\ ram = Cardinality(ChunksInFlight)
          /\ \A f \in Files : reserved[f] = Cardinality(InFlight(f))

(***************************************************************************)
(* Every transfer comes to its end, however tight the RAM.  (The panic is  *)
(* an end, too: see the README.)                                           *)
(***************************************************************************)
DownloadsEnd == <>[](\A f \in Files : epilogue[f] \in {"reported", "panic"})

=============================================================================
