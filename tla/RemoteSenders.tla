--------------------------- MODULE RemoteSenders ---------------------------
(***************************************************************************)
(* One file sent, in chunks, to one of the destinations whose content is   *)
(* built in place (block blobs, which are committed at once, are in        *)
(* TransferChunks): append blobs, page blobs, the page blobs of managed    *)
(* disks, Azure files and Data Lake (ADLS Gen2) files.                     *)
(*   ste/sender-appendBlob*.go, sender-pageBlob*.go, sender-azureFile*.go, *)
(*   sender-blobFS*.go; the scheduling of chunks and the epilogue of       *)
(*   ste/xfer-anyToRemote-file.go; the retries of ste/xferRetrypolicy.go   *)
(* The model begins with the destination locked and the chunks about to be *)
(* scheduled.  A chunk is one cell of content, which may be all zeros.     *)
(* Actors: the initiator, a chunk function per chunk, the epilogue, a user *)
(* who may cancel, and a service whose answers may be lost.                *)
(***************************************************************************)
EXTENDS Integers, Sequences, FiniteSets, SequencesExt

CONSTANTS SenderKinds,    \* among "append", "page", "disk", "file", "adls"
          MaxCells,       \* the longest source, in chunks
          MaxTries,       \* XferRetryOptions.MaxTries
          FlushThreshold  \* ADLSFlushThreshold, in chunks

ASSUME SenderAssumption ==
    /\ SenderKinds \subseteq {"append", "page", "disk", "file", "adls"}
    /\ MaxCells \in Nat /\ MaxTries \in Nat \ {0} /\ FlushThreshold \in Nat \ {0}

VARIABLES kind, local,  \* the sender, and whether the source is a local file
          source,       \* its cells: "zero" or "new"
          lists,        \* the page lists that can be fetched: of the "source", of the "dest"
          blob,         \* the destination: whether it exists, its cells
          staged,       \* the chunks appended to a Data Lake file but not flushed
          destData,     \* what the destination's pageRangeOptimizer says holds data
          sendStatus,   \* the transfer's status in the plan
          sendCancelled,\* jptm.ctx is done
          modified,     \* atomicDestModifiedIndicator
          sending,      \* the initiator: pc, the try of its request, the next chunk, prefetchErr
          sole,         \* soleChunkFuncSemaphore: the chunk that holds it, 0 when free
          cell,         \* cell[c]: where the chunk function stands and the try of its request
          ending,       \* the epilogue: pc, the try, the position flushed
          untouched,    \* history: the destination is as it was before
          undeleted     \* history: the deletion of a broken destination failed

senderVars == <<kind, local, source, lists, blob, staged, destData, sendStatus, sendCancelled,
                modified, sending, sole, cell, ending, untouched, undeleted>>
fixed == <<kind, local, source, lists>>

Size == Len(source)
Cells == 1..(IF Size = 0 THEN 1 ELSE Size) \* an empty file has one dummy chunk
Upto(n) == UNION {[1..k -> {"zero", "new"}] : k \in 0..n}
Absent == [exists |-> FALSE, cells |-> << >>]

SenderInit ==
    /\ kind \in SenderKinds /\ local \in BOOLEAN /\ (kind = "adls" => local)
    /\ source \in Upto(MaxCells)
    /\ lists \in SUBSET {"source", "dest"}
    /\ (kind \notin {"page", "disk"} \/ local) => "source" \notin lists
    /\ kind # "disk" => "dest" \notin lists
    /\ blob \in IF kind = "disk"
                  THEN {[exists |-> TRUE, cells |-> s] :
                           s \in UNION {[1..k -> {"zero", "old"}] : k \in 0..MaxCells}}
                  ELSE {Absent, [exists |-> TRUE, cells |-> <<"old">>]}
    /\ staged = {} /\ destData = {}
    /\ sendStatus = "started" /\ sendCancelled = FALSE /\ modified = FALSE
    /\ sending = [pc |-> "prologue", try |-> 1, next |-> 1, unread |-> FALSE]
    /\ sole = 0
    /\ cell = [c \in Cells |-> [pc |-> "unscheduled", try |-> 1]]
    /\ ending = [pc |-> "none", try |-> 1, at |-> 0]
    /\ untouched = TRUE /\ undeleted = FALSE

SendDead == sendStatus \in {"failed", "cancelled"} \/ sendCancelled

(* failActiveTransfer: only the first failure of a live transfer counts.   *)
FailSend ==
    /\ sendCancelled' = TRUE
    /\ sendStatus' = IF sendCancelled THEN sendStatus ELSE "failed"

CancelSend ==
    /\ ~sendCancelled /\ ending.pc # "over"
    /\ sendCancelled' = TRUE
    /\ UNCHANGED <<fixed, blob, staged, destData, sendStatus, modified, sending, sole,
                   cell, ending, untouched, undeleted>>

(***************************************************************************)
(* One try of a request the service accepts or not: it is done and         *)
(* answered; or its answer (done or not) is lost or says to come back,     *)
(* which is tried again while tries are left and the context lives; or it  *)
(* is refused for good.                                                    *)
(***************************************************************************)
Answers(try, accepted) ==
    LET later == IF try < MaxTries /\ ~sendCancelled THEN "again" ELSE "failed"
    IN  {[effect |-> e, then |-> later] : e \in {FALSE, accepted}}
            \cup {[effect |-> FALSE, then |-> "failed"]}
            \cup {[effect |-> e, then |-> "ok"] : e \in {accepted} \ {FALSE}}

-----------------------------------------------------------------------------
(* The initiator: the prologue, then the chunks one by one.                *)

NewlyCreated == [exists |-> TRUE,
            cells |-> IF kind \in {"append", "adls"} THEN << >> ELSE [c \in 1..Size |-> "zero"]]

Scheduling == [sending EXCEPT !.pc = "schedule"]

(***************************************************************************)
(* Prologue of all but managed disks: Create, which replaces what is       *)
(* there.  The senders of append and page blobs report the destination as  *)
(* modified when Create has succeeded, those of files and Data Lake files  *)
(* in any case (what these two do before, parents and permissions, fails   *)
(* as Create does).                                                        *)
(***************************************************************************)
CreateDestination ==
    /\ sending.pc = "prologue" /\ kind # "disk"
    /\ \E a \in Answers(sending.try, TRUE) :
          /\ blob' = IF a.effect THEN NewlyCreated ELSE blob
          /\ untouched' = (untouched /\ ~a.effect)
          /\ sending' = IF a.then = "again" THEN [sending EXCEPT !.try = @ + 1] ELSE Scheduling
          /\ modified' = (modified \/ a.then = "ok"
                             \/ (a.then = "failed" /\ kind \in {"file", "adls"}))
          /\ IF a.then = "failed" THEN FailSend ELSE UNCHANGED <<sendStatus, sendCancelled>>
    /\ UNCHANGED <<fixed, staged, destData, sole, cell, ending, undeleted>>

(* Prologue of a managed disk, which exists: its size must be right, and   *)
(* its pages are listed; without a list there is data everywhere.          *)
CheckDisk ==
    /\ sending.pc = "prologue" /\ kind = "disk"
    /\ sending' = Scheduling
    /\ \/ FailSend /\ UNCHANGED destData
       \/ /\ Len(blob.cells) = Size
          /\ destData' = {c \in 1..Size : "dest" \in lists => blob.cells[c] # "zero"}
          /\ UNCHANGED <<sendStatus, sendCancelled>>
    /\ UNCHANGED <<fixed, blob, staged, modified, sole, cell, ending, untouched, undeleted>>

\* Mutant: the semaphore is acquired with a context that is never done.
AcquireWaits == FALSE

(* Acquire gives up waiting when the transfer's context is done.           *)
AcquireFails == sendCancelled

(***************************************************************************)
(* The next chunk.  A local one is read first, unless the transfer is      *)
(* cancelled; once that has failed the chunk functions only fail.  An      *)
(* append blob waits until no other chunk function exists, or for the      *)
(* cancellation, which makes it a no-op.                                   *)
(***************************************************************************)
ScheduleCell ==
    LET c == sending.next
        Becomes(pc) == cell' = [cell EXCEPT ![c].pc = pc]
    IN  /\ sending.pc = "schedule"
        /\ \E unread \in {sending.unread, local} :
              /\ local /\ sendCancelled => unread
              /\ sending' = [sending EXCEPT !.unread = unread, !.next = @ + 1,
                                            !.pc = IF c = Cardinality(Cells) THEN "done" ELSE @]
              /\ \/ unread /\ Becomes("bad") /\ UNCHANGED sole
                 \/ ~unread /\ kind = "append" /\ sole = 0 /\ Becomes("body") /\ sole' = c
                 \/ ~unread /\ kind = "append" /\ AcquireFails /\ Becomes("noop") /\ UNCHANGED sole
                 \/ ~unread /\ kind # "append" /\ Becomes("body") /\ UNCHANGED sole
        /\ UNCHANGED <<fixed, blob, staged, destData, sendStatus, sendCancelled, modified,
                       ending, untouched, undeleted>>

-----------------------------------------------------------------------------
(* The chunk functions.                                                    *)

Zeros == {c \in 1..Size : source[c] = "zero"}

\* Mutant: a range of zeros is skipped whatever the destination holds.
SkipsAnyZeros(c) ==
    \/ Size = 0
    \/ /\ c \in Zeros
       /\ \/ local /\ kind \in {"page", "disk", "file"}
          \/ "source" \in lists

(* Nothing to do for the dummy chunk of an empty file; nor for zeros where *)
(* the destination has none but zeros: seen by a page blob or a file       *)
(* sender in what it read, or in the page list of the source.              *)
NothingToSend(c) ==
    \/ Size = 0
    \/ /\ c \in Zeros
       /\ \/ local /\ kind \in {"page", "disk", "file"}
          \/ "source" \in lists
       /\ kind = "disk" => c \notin destData

Release(c) == sole' = IF sole = c THEN 0 ELSE sole

(* The prefix of every chunk function, and what needs no request.  The     *)
(* semaphore is released by the body: not by a function that finds the     *)
(* transfer cancelled.                                                     *)
StartCell(c) ==
    LET Becomes(pc) == cell' = [cell EXCEPT ![c] = [pc |-> pc, try |-> 1]]
    IN  /\ cell[c].pc \in {"body", "bad", "noop"}
        /\ \/ /\ sendCancelled
              /\ Becomes("report")
              /\ UNCHANGED <<sendStatus, sendCancelled, modified, sole>>
           \/ /\ ~sendCancelled
              /\ modified' = TRUE
              /\ \/ /\ cell[c].pc = "bad" /\ FailSend
                    /\ Becomes("report") /\ UNCHANGED sole
                 \/ /\ cell[c].pc = "noop" \/ (cell[c].pc = "body" /\ NothingToSend(c))
                    /\ Becomes("report") /\ Release(c)
                    /\ UNCHANGED <<sendStatus, sendCancelled>>
                 \/ /\ cell[c].pc = "body" /\ ~NothingToSend(c)
                    /\ Becomes("send")
                    /\ UNCHANGED <<sendStatus, sendCancelled, sole>>
        /\ UNCHANGED <<fixed, blob, staged, destData, sending, ending, untouched, undeleted>>

\* Mutant: without IfAppendPositionEqual.
AcceptsAnywhere(c) == blob.exists

(* The service appends a block only at the offset the sender names.        *)
Accepts(c) == blob.exists /\ (kind = "append" => Len(blob.cells) = c - 1)

Sent(c) ==
    CASE kind = "append" -> [blob EXCEPT !.cells = Append(@, source[c])]
      [] kind = "adls" -> blob
      [] OTHER -> [blob EXCEPT !.cells[c] = source[c]]

(* AppendBlock, UploadPages, UploadRange, AppendData or their copies of a  *)
(* URL: one try.                                                           *)
SendCell(c) ==
    /\ cell[c].pc = "send"
    /\ \E a \in Answers(cell[c].try, Accepts(c)) :
          /\ blob' = IF a.effect THEN Sent(c) ELSE blob
          /\ staged' = IF a.effect /\ kind = "adls" THEN staged \cup {c} ELSE staged
          /\ untouched' = (untouched /\ ~a.effect)
          /\ cell' = IF a.then = "again" THEN [cell EXCEPT ![c].try = @ + 1]
                     ELSE [cell EXCEPT ![c] = [pc |-> "report", try |-> 1]]
          /\ IF a.then = "failed" THEN FailSend ELSE UNCHANGED <<sendStatus, sendCancelled>>
          /\ IF a.then = "again" THEN UNCHANGED sole ELSE Release(c)
    /\ UNCHANGED <<fixed, destData, modified, sending, ending, undeleted>>

(* ReportChunkDone: the last one goes on with the epilogue.                *)
ReportCell(c) ==
    /\ cell[c].pc = "report"
    /\ cell' = [cell EXCEPT ![c].pc = "done"]
    /\ ending' = [ending EXCEPT !.pc = IF \A d \in Cells \ {c} : cell[d].pc = "done"
                                         THEN "start" ELSE @]
    /\ UNCHANGED <<fixed, blob, staged, destData, sendStatus, sendCancelled, modified,
                   sending, sole, untouched, undeleted>>

-----------------------------------------------------------------------------
(* epilogueWithCleanupSendToRemote                                         *)

EndTo(pc) == ending' = [ending EXCEPT !.pc = pc]

(* A cancelled transfer gets that status, unless it has failed; the source *)
(* of a live one may have changed.                                         *)
BeginEpilogue ==
    /\ ending.pc = "start"
    /\ IF sendCancelled
       THEN /\ sendStatus' = IF sendStatus = "started" THEN "cancelled" ELSE sendStatus
            /\ UNCHANGED sendCancelled
       ELSE FailSend \/ UNCHANGED <<sendStatus, sendCancelled>>
    /\ EndTo("service")
    /\ UNCHANGED <<fixed, blob, staged, destData, modified, sending, sole, cell,
                   untouched, undeleted>>

(* Epilogue of a live transfer: the hash in the headers, for uploads to    *)
(* blobs (not of disks) and files, can fail, and so can the final SMB      *)
(* attributes of any file; Data Lake files are flushed.                    *)
ServiceEpilogue ==
    /\ ending.pc = "service"
    /\ IF kind = "adls" /\ ~SendDead
       THEN ending' = [ending EXCEPT !.pc = "flush",
                            !.at = IF Size < FlushThreshold THEN Size ELSE FlushThreshold]
       ELSE EndTo("length")
    /\ \/ ~SendDead /\ (kind = "file" \/ (local /\ kind \in {"append", "page"})) /\ FailSend
       \/ UNCHANGED <<sendStatus, sendCancelled>>
    /\ UNCHANGED <<fixed, blob, staged, destData, modified, sending, sole, cell,
                   untouched, undeleted>>

(* One try of FlushData up to a position: all before it must be there, and *)
(* what is after it is kept unless it is the end.                          *)
Flush ==
    LET at == ending.at
        there == blob.exists /\ 1..at \subseteq staged \cup DOMAIN blob.cells
    IN  /\ ending.pc = "flush"
        /\ \E a \in Answers(ending.try, there) :
              /\ blob' = IF a.effect THEN [blob EXCEPT !.cells = SubSeq(source, 1, at)]
                           ELSE blob
              /\ staged' = IF a.effect THEN (IF at = Size THEN {} ELSE staged \ (1..at)) ELSE staged
              /\ ending' =
                    CASE a.then = "again" -> [ending EXCEPT !.try = @ + 1]
                      [] a.then = "failed" \/ (a.then = "ok" /\ at = Size) ->
                            [ending EXCEPT !.pc = "length", !.try = 1]
                      [] OTHER -> [ending EXCEPT !.try = 1,
                                       !.at = IF Size < at + FlushThreshold THEN Size
                                              ELSE at + FlushThreshold]
              /\ IF a.then = "failed" THEN FailSend ELSE UNCHANGED <<sendStatus, sendCancelled>>
        /\ UNCHANGED <<fixed, destData, modified, sending, sole, cell, untouched, undeleted>>

(* The length of a live transfer's destination is compared, unless it may  *)
(* not be read.                                                            *)
CheckLength ==
    /\ ending.pc = "length"
    /\ \/ UNCHANGED <<sendStatus, sendCancelled>>
       \/ ~SendDead /\ FailSend
    /\ EndTo("cleanup")
    /\ UNCHANGED <<fixed, blob, staged, destData, modified, sending, sole, cell,
                   untouched, undeleted>>

\* Mutant: only what failed is deleted, not what was cancelled.
CleanupFailed ==
    /\ ending.pc = "cleanup"
    /\ IF sendStatus = "failed" /\ modified /\ kind # "disk"
       THEN \/ blob' = Absent /\ staged' = {} /\ untouched' = FALSE /\ UNCHANGED undeleted
            \/ undeleted' = TRUE /\ UNCHANGED <<blob, staged, untouched>>
       ELSE UNCHANGED <<blob, staged, untouched, undeleted>>
    /\ EndTo("finish")
    /\ UNCHANGED <<fixed, destData, sendStatus, sendCancelled, modified, sending, sole, cell>>

(* Cleanup: a destination that is not a disk's is deleted when the         *)
(* transfer is dead and may have modified it; the deletion may fail.       *)
Cleanup ==
    /\ ending.pc = "cleanup"
    /\ IF SendDead /\ modified /\ kind # "disk"
       THEN \/ blob' = Absent /\ staged' = {} /\ untouched' = FALSE /\ UNCHANGED undeleted
            \/ undeleted' = TRUE /\ UNCHANGED <<blob, staged, untouched>>
       ELSE UNCHANGED <<blob, staged, untouched, undeleted>>
    /\ EndTo("finish")
    /\ UNCHANGED <<fixed, destData, sendStatus, sendCancelled, modified, sending, sole, cell>>

(* commonSenderCompletion: live still means a success.                     *)
Conclude ==
    /\ ending.pc = "finish"
    /\ sendStatus' = IF SendDead THEN sendStatus ELSE "success"
    /\ EndTo("over")
    /\ UNCHANGED <<fixed, blob, staged, destData, sendCancelled, modified, sending, sole, cell,
                   untouched, undeleted>>

InitiatorStep == CreateDestination \/ CheckDisk \/ ScheduleCell
CellStep(c) == StartCell(c) \/ SendCell(c) \/ ReportCell(c)
EndingStep == BeginEpilogue \/ ServiceEpilogue \/ Flush \/ CheckLength \/ Cleanup \/ Conclude

SenderNext == CancelSend \/ InitiatorStep \/ EndingStep \/ \E c \in Cells : CellStep(c)

(* Some goroutine goes on while one can: enough, for none goes on for ever *)
(* (a request has finitely many tries).                                    *)
SenderFairness == WF_senderVars(InitiatorStep \/ EndingStep \/ \E c \in Cells : CellStep(c))

SenderSpec == SenderInit /\ [][SenderNext]_senderVars /\ SenderFairness

-----------------------------------------------------------------------------
SenderTypeOK ==
    /\ blob.exists \in BOOLEAN /\ blob.cells \in Seq({"zero", "old", "new"})
    /\ staged \subseteq 1..Size /\ destData \subseteq 1..Size
    /\ sendStatus \in {"started", "success", "failed", "cancelled"}
    /\ sole \in 0..Size + 1
    /\ \A c \in Cells : cell[c].pc \in
          {"unscheduled", "body", "bad", "noop", "send", "report", "done"}

Whole == blob.exists /\ blob.cells = source

(***************************************************************************)
(* All or nothing.  A transfer is a success only when the destination has  *)
(* the whole content of the source: whatever it held before, whichever     *)
(* ranges of zeros were not sent, in whatever order the chunks arrived,    *)
(* also when an answer was lost and the block of an append blob was sent   *)
(* again, and even when the length could not be compared at the end.  One  *)
(* that is over and was no success leaves no part of the new content       *)
(* behind: it is deleted, unless it is a disk's or the deletion fails.  (A *)
(* transfer cancelled when everything was done, after the clean-up had     *)
(* found it alive, leaves the whole.)                                      *)
(***************************************************************************)
AllOrNothing ==
    /\ SenderTypeOK
    /\ sendStatus = "success" => Whole
    /\ ending.pc = "over" /\ sendStatus # "success" /\ kind # "disk" /\ ~undeleted
          => "new" \notin ToSet(blob.cells) \/ Whole

(***************************************************************************)
(* Cleaning up "MUST" reach every destination that may have been modified  *)
(* (ste/sender.go on Prologue): what is over without success is as it was, *)
(* whole or gone.                                                          *)
(***************************************************************************)
HalfMadeIsRemoved ==
    ending.pc = "over" /\ sendStatus # "success" /\ kind # "disk" /\ ~undeleted
        => untouched \/ ~blob.exists \/ Whole

(***************************************************************************)
(* Every transfer ends: the chunk functions of an append blob, which wait  *)
(* for each other, are never all waiting, whichever of them fails or finds *)
(* the transfer cancelled before it has run.                               *)
(***************************************************************************)
SendEnds == <>(ending.pc = "over")

=============================================================================
