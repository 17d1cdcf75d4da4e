------------------------------- MODULE JobMgr -------------------------------
(***************************************************************************)
(* The job manager of the transfer engine: how the parts of a job are      *)
(* ordered, scheduled, transferred, counted and finally declared complete. *)
(*                                                                         *)
(* Goroutines, each with a program counter of its own:                     *)
(*   fe       the front end ordering parts (ExecuteNewCopyJobPartOrder)    *)
(*   sched    jobMgr.scheduleJobParts                                      *)
(*   t        whichever worker goroutine is finishing transfer t           *)
(*   handler  jobMgr.reportJobPartDoneHandler                              *)
(*   status   jobMgr.handleStatusUpdateMessage, its xferDone side          *)
(*   cancel   a request served by jobMgr.CancelPauseJobOrder               *)
(* A step is one access to state that another goroutine can touch.         *)
(***************************************************************************)
EXTENDS Integers, FiniteSets

CONSTANTS
    LastPart,        \* the number of the part that carries IsFinalPart
    Transfers,       \* all transfers of the job
    PartOf,          \* the part each transfer was put in by the front end
    Outcomes,        \* what a transfer that is not cancelled can end with
    DesiredStatuses, \* what CancelPauseJobOrder may be asked for
    MaxCancels,      \* bound: requests to cancel or pause
    PartsChannelSize, TransferChannelSize, XferDoneSize \* channel capacities

Parts == 0..LastPart
TransfersOf(p) == {t \in Transfers : PartOf[t] = p}

\* A part past the first is dispatched only when there is a transfer to put
\* in it, so only the sole part of a job can be empty.
ASSUME JobShape ==
    /\ LastPart \in Nat
    /\ IsFiniteSet(Transfers)
    /\ PartOf \in [Transfers -> Parts]
    /\ LastPart > 0 => \A p \in Parts : TransfersOf(p) # {}

ASSUME OutcomeDomain ==
    Outcomes \subseteq {"Success", "Failed", "Skipped", "TierUnavailable"}

ASSUME RequestDomain ==
    /\ DesiredStatuses \subseteq {"Cancelling", "Paused"}
    /\ MaxCancels \in Nat

ASSUME Capacities ==
    {PartsChannelSize, TransferChannelSize, XferDoneSize} \subseteq Nat \ {0}

DoneStatuses ==  \* JobStatus.IsJobDone
    {"Completed", "CompletedWithErrors", "CompletedWithSkipped",
     "CompletedWithErrorsAndSkipped", "Failed", "Cancelled"}
JobStatuses == {"InProgress", "Paused", "Cancelling"} \union DoneStatuses

\* What a part tells the job about its transfers (jobPartProgressInfo).
Progress == [completed : Nat, skipped : Nat, failed : Nat]
NoProgress == [completed |-> 0, skipped |-> 0, failed |-> 0]
Plus(a, b) == [completed |-> a.completed + b.completed,
               skipped   |-> a.skipped + b.skipped,
               failed    |-> a.failed + b.failed]

VARIABLES
    fePc, fePart,      \* the front end and the part it is ordering
    jobPartMgrs,       \* parts in jobMgr.jobPartMgrs
    finalPartOrdered,  \* atomicFinalPartOrderedIndicator
    partsCh,           \* xferChannels.partsChannel; its order does not matter
    toSchedule,        \* transfers ScheduleTransfers has still to visit
    tpc, outcome,      \* each transfer: where it is, how it ended
    transfersDone,     \* jobPartMgr.atomicTransfersDone
    progress,          \* jobPartMgr's completed, skipped and failed counters
    report,            \* the jobPartProgressInfo being sent for a part
    hPc, hStatus, hHaveFinal, partsDone, jobProgress, \* the handler
    jobStatus,         \* part 0's atomicJobStatus: the status of the job
    canceled,          \* the job's context
    cPc, cDesired, cancels,
    xferDone,          \* transfers whose message is in jstm.xferDone
    xferDoneClosed, xferDoneDrained,
    panic              \* why the process died, or "none"

feVars == <<fePc, fePart>>
partVars == <<transfersDone, progress, report>>
handlerVars == <<hPc, hStatus, hHaveFinal, partsDone, jobProgress>>
cancelVars == <<cPc, cDesired, cancels, canceled>>
drainVars == <<xferDone, xferDoneClosed, xferDoneDrained>>
vars == <<feVars, jobPartMgrs, finalPartOrdered, partsCh, toSchedule, tpc,
          outcome, partVars, handlerVars, jobStatus, cancelVars, drainVars,
          panic>>

TransferPcs == {"new", "queued", "running", "finished", "sent", "counted",
                "countedLast", "last", "reporting", "done"}
Reported == {"sent", "counted", "countedLast", "last", "reporting", "done"}

TypeOK ==
    /\ fePc \in {"set", "final", "queue", "send", "done"}
    /\ fePart \in Parts
    /\ jobPartMgrs \subseteq Parts
    /\ finalPartOrdered \in BOOLEAN
    /\ partsCh \subseteq Parts
    /\ toSchedule \subseteq Transfers
    /\ tpc \in [Transfers -> TransferPcs]
    /\ outcome \in [Transfers -> Outcomes \union {"none", "Cancelled"}]
    /\ transfersDone \in [Parts -> Nat]
    /\ progress \in [Parts -> Progress]
    /\ report \in [Parts -> Progress]
    /\ hPc \in {"recv", "loadFinal", "count", "close", "drain", "read", "store"}
    /\ hStatus \in JobStatuses
    /\ hHaveFinal \in BOOLEAN
    /\ partsDone \in Nat
    /\ jobProgress \in Progress
    /\ jobStatus \in JobStatuses
    /\ canceled \in BOOLEAN
    /\ cPc \in {"idle", "store", "cancel"}
    /\ cDesired \in DesiredStatuses \union {"none"}
    /\ cPc # "idle" => cDesired \in DesiredStatuses
    /\ cancels \in 0..MaxCancels
    /\ xferDone \subseteq Transfers
    /\ xferDoneClosed \in BOOLEAN
    /\ xferDoneDrained \in BOOLEAN
    /\ panic \in {"none", "orderedAfterFinal", "sendOnClosed", "closeOfClosed"}

Init ==
    /\ fePc = "set" /\ fePart = 0
    /\ jobPartMgrs = {}
    /\ finalPartOrdered = FALSE
    /\ partsCh = {}
    /\ toSchedule = {}
    /\ tpc = [t \in Transfers |-> "new"]
    /\ outcome = [t \in Transfers |-> "none"]
    /\ transfersDone = [p \in Parts |-> 0]
    /\ progress = [p \in Parts |-> NoProgress]
    /\ report = [p \in Parts |-> NoProgress]
    /\ hPc = "recv" /\ hStatus = "InProgress" /\ hHaveFinal = FALSE
    /\ partsDone = 0 /\ jobProgress = NoProgress
    /\ jobStatus = "InProgress"
    /\ canceled = FALSE
    /\ cPc = "idle" /\ cDesired = "none" /\ cancels = 0
    /\ xferDone = {} /\ xferDoneClosed = FALSE /\ xferDoneDrained = FALSE
    /\ panic = "none"

-----------------------------------------------------------------------------
(* The front end: ExecuteNewCopyJobPartOrder, which calls AddJobPart and   *)
(* then SendJobPartCreatedMsg, for one part after the other.               *)

\* jobPartMgrs.Set: from here on the part is counted by jobPartMgrs.Count.
AddJobPart ==
    /\ fePc = "set"
    /\ jobPartMgrs' = jobPartMgrs \union {fePart}
    /\ fePc' = "final"
    /\ UNCHANGED <<fePart, finalPartOrdered, partsCh, toSchedule, tpc, outcome,
                   partVars, handlerVars, jobStatus, cancelVars, drainVars, panic>>

\* The swap of the indicator; clearing it for a part other than 0 panics.
SetFinalPartOrdered ==
    /\ fePc = "final"
    /\ finalPartOrdered' = (fePart = LastPart)
    /\ panic' = IF finalPartOrdered /\ fePart \notin {0, LastPart}
                THEN "orderedAfterFinal" ELSE panic
    /\ fePc' = "queue"
    /\ UNCHANGED <<fePart, jobPartMgrs, partsCh, toSchedule, tpc, outcome,
                   partVars, handlerVars, jobStatus, cancelVars, drainVars>>

QueueJobParts ==
    /\ fePc = "queue"
    /\ Cardinality(partsCh) < PartsChannelSize
    /\ partsCh' = partsCh \union {fePart}
    /\ fePc' = "send"
    /\ UNCHANGED <<fePart, jobPartMgrs, finalPartOrdered, toSchedule, tpc,
                   outcome, partVars, handlerVars, jobStatus, cancelVars,
                   drainVars, panic>>

SendJobPartCreatedMsg ==
    /\ fePc = "send"
    /\ IF fePart = LastPart
       THEN fePc' = "done" /\ UNCHANGED fePart
       ELSE fePc' = "set" /\ fePart' = fePart + 1
    /\ UNCHANGED <<jobPartMgrs, finalPartOrdered, partsCh, toSchedule, tpc,
                   outcome, partVars, handlerVars, jobStatus, cancelVars,
                   drainVars, panic>>

FrontEnd == \/ AddJobPart
            \/ SetFinalPartOrdered
            \/ QueueJobParts
            \/ SendJobPartCreatedMsg

-----------------------------------------------------------------------------
(* scheduleJobParts: the parts one at a time, their transfers in a loop.   *)

\* ScheduleTransfers up to its loop. An empty part 0 completes the job here
\* and never reports to the handler.
StartScheduling(p) ==
    /\ toSchedule = {}
    /\ p \in partsCh
    /\ partsCh' = partsCh \ {p}
    /\ transfersDone' = [transfersDone EXCEPT ![p] = 0]
    /\ toSchedule' = TransfersOf(p)
    /\ jobStatus' = IF p = 0 /\ TransfersOf(p) = {} THEN "Completed" ELSE jobStatus
    /\ UNCHANGED <<feVars, jobPartMgrs, finalPartOrdered, tpc, outcome, progress,
                   report, handlerVars, cancelVars, drainVars, panic>>

InTransferCh == {t \in Transfers : tpc[t] = "queued"}

ScheduleTransfer(t) ==
    /\ t \in toSchedule
    /\ Cardinality(InTransferCh) < TransferChannelSize
    /\ toSchedule' = toSchedule \ {t}
    /\ tpc' = [tpc EXCEPT ![t] = "queued"]
    /\ UNCHANGED <<feVars, jobPartMgrs, finalPartOrdered, partsCh, outcome,
                   partVars, handlerVars, jobStatus, cancelVars, drainVars, panic>>

Scheduler == \/ \E p \in Parts : StartScheduling(p)
             \/ \E t \in Transfers : ScheduleTransfer(t)

-----------------------------------------------------------------------------
(* A transfer, from the initiation worker that picks it up to the report   *)
(* of its end. Which worker runs a step does not matter: transfers are     *)
(* handed from the initiation workers to the chunk workers.                *)

\* Mutant: a transfer of a cancelled job is dropped without a report.
DropCancelledTransfer(t) ==
    /\ tpc[t] = "queued"
    /\ tpc' = [tpc EXCEPT ![t] = IF canceled THEN "done" ELSE "running"]
    /\ outcome' = [outcome EXCEPT ![t] = IF canceled THEN "Cancelled" ELSE @]
    /\ UNCHANGED <<feVars, jobPartMgrs, finalPartOrdered, partsCh, toSchedule,
                   partVars, handlerVars, jobStatus, cancelVars, drainVars, panic>>

\* transferProcessor: a transfer of a cancelled job is only marked.
StartTransfer(t) ==
    /\ tpc[t] = "queued"
    /\ tpc' = [tpc EXCEPT ![t] = IF canceled THEN "finished" ELSE "running"]
    /\ outcome' = [outcome EXCEPT ![t] = IF canceled THEN "Cancelled" ELSE @]
    /\ UNCHANGED <<feVars, jobPartMgrs, finalPartOrdered, partsCh, toSchedule,
                   partVars, handlerVars, jobStatus, cancelVars, drainVars, panic>>

\* The transfer proper, which may notice a cancellation or end before it does.
FinishTransfer(t) ==
    /\ tpc[t] = "running"
    /\ \E o \in Outcomes \union (IF canceled THEN {"Cancelled"} ELSE {}) :
          outcome' = [outcome EXCEPT ![t] = o]
    /\ tpc' = [tpc EXCEPT ![t] = "finished"]
    /\ UNCHANGED <<feVars, jobPartMgrs, finalPartOrdered, partsCh, toSchedule,
                   partVars, handlerVars, jobStatus, cancelVars, drainVars, panic>>

\* ReportTransferDone sends to the status manager; sending on a closed
\* channel panics, also when the sender was blocked on a full one.
SendXferDoneMsg(t) ==
    /\ tpc[t] = "finished"
    /\ IF xferDoneClosed
       THEN /\ panic' = "sendOnClosed"
            /\ UNCHANGED <<xferDone, tpc>>
       ELSE /\ Cardinality(xferDone) < XferDoneSize
            /\ xferDone' = xferDone \union {t}
            /\ tpc' = [tpc EXCEPT ![t] = "sent"]
            /\ UNCHANGED panic
    /\ UNCHANGED <<feVars, jobPartMgrs, finalPartOrdered, partsCh, toSchedule,
                   outcome, partVars, handlerVars, jobStatus, cancelVars,
                   xferDoneClosed, xferDoneDrained>>

\* jobPartMgr.ReportTransferDone first counts the transfer ...
CountTransfer(t) ==
    LET p == PartOf[t] IN
    /\ tpc[t] = "sent"
    /\ transfersDone' = [transfersDone EXCEPT ![p] = @ + 1]
    /\ tpc' = [tpc EXCEPT ![t] = IF transfersDone'[p] = Cardinality(TransfersOf(p))
                                 THEN "countedLast" ELSE "counted"]
    /\ UNCHANGED <<feVars, jobPartMgrs, finalPartOrdered, partsCh, toSchedule,
                   outcome, progress, report, handlerVars, jobStatus, cancelVars,
                   drainVars, panic>>

\* ... and then its outcome (updateJobPartProgress).
UpdateProgress(pr, o) ==
    CASE o = "Success" -> [pr EXCEPT !.completed = @ + 1]
      [] o = "Failed"  -> [pr EXCEPT !.failed = @ + 1]
      [] o = "Skipped" -> [pr EXCEPT !.skipped = @ + 1]
      [] OTHER         -> pr   \* cancelled, or a status it does not know

UpdateJobPartProgress(t) ==
    LET p == PartOf[t] IN
    /\ tpc[t] \in {"counted", "countedLast"}
    /\ progress' = [progress EXCEPT ![p] = UpdateProgress(@, outcome[t])]
    /\ tpc' = [tpc EXCEPT ![t] = IF @ = "countedLast" THEN "last" ELSE "done"]
    /\ UNCHANGED <<feVars, jobPartMgrs, finalPartOrdered, partsCh, toSchedule,
                   outcome, transfersDone, report, handlerVars, jobStatus,
                   cancelVars, drainVars, panic>>

\* The last transfer of the part loads the counters and offers them to the
\* handler (jobPartProgress is unbuffered).
OfferPartProgress(t) ==
    LET p == PartOf[t] IN
    /\ tpc[t] = "last"
    /\ report' = [report EXCEPT ![p] = progress[p]]
    /\ tpc' = [tpc EXCEPT ![t] = "reporting"]
    /\ UNCHANGED <<feVars, jobPartMgrs, finalPartOrdered, partsCh, toSchedule,
                   outcome, transfersDone, progress, handlerVars, jobStatus,
                   cancelVars, drainVars, panic>>

Transfer(t) == \/ StartTransfer(t)
               \/ FinishTransfer(t)
               \/ SendXferDoneMsg(t)
               \/ CountTransfer(t)
               \/ UpdateJobPartProgress(t)
               \/ OfferPartProgress(t)

-----------------------------------------------------------------------------
(* reportJobPartDoneHandler, from the receipt of a part's progress.        *)

ReceivePartDone(t) ==
    /\ hPc = "recv"
    /\ tpc[t] = "reporting"
    /\ tpc' = [tpc EXCEPT ![t] = "done"]
    /\ hStatus' = jobStatus
    /\ partsDone' = partsDone + 1
    /\ jobProgress' = Plus(jobProgress, report[PartOf[t]])
    /\ hPc' = "loadFinal"
    /\ UNCHANGED <<feVars, jobPartMgrs, finalPartOrdered, partsCh, toSchedule,
                   outcome, partVars, hHaveFinal, jobStatus, cancelVars,
                   drainVars, panic>>

LoadFinalPartOrdered ==
    /\ hPc = "loadFinal"
    /\ hHaveFinal' = finalPartOrdered
    /\ hPc' = "count"
    /\ UNCHANGED <<feVars, jobPartMgrs, finalPartOrdered, partsCh, toSchedule,
                   tpc, outcome, partVars, hStatus, partsDone, jobProgress,
                   jobStatus, cancelVars, drainVars, panic>>

\* Mutant: the final part is not waited for.
ShouldCompleteEarly == partsDone = Cardinality(jobPartMgrs)
\* Mutant: one known part too few.
ShouldCompleteOneShort ==
    /\ partsDone + 1 >= Cardinality(jobPartMgrs)
    /\ hHaveFinal \/ hStatus = "Cancelling"
\* Mutant: one part too many.
ShouldCompleteOneOver ==
    /\ partsDone > Cardinality(jobPartMgrs)
    /\ hHaveFinal \/ hStatus = "Cancelling"

ShouldComplete ==
    /\ partsDone = Cardinality(jobPartMgrs)            \* allKnownPartsDone
    /\ hHaveFinal \/ hStatus = "Cancelling"

DecideCompletion ==
    /\ hPc = "count"
    /\ hPc' = IF ShouldComplete THEN "close" ELSE "recv"
    /\ UNCHANGED <<feVars, jobPartMgrs, finalPartOrdered, partsCh, toSchedule,
                   tpc, outcome, partVars, hStatus, hHaveFinal, partsDone,
                   jobProgress, jobStatus, cancelVars, drainVars, panic>>

CloseXferDone ==
    /\ hPc = "close"
    /\ panic' = IF xferDoneClosed THEN "closeOfClosed" ELSE panic
    /\ xferDoneClosed' = TRUE
    /\ hPc' = "drain"
    /\ UNCHANGED <<feVars, jobPartMgrs, finalPartOrdered, partsCh, toSchedule,
                   tpc, outcome, partVars, hStatus, hHaveFinal, partsDone,
                   jobProgress, jobStatus, cancelVars, xferDone, xferDoneDrained>>

\* Mutant: the final status is set without waiting for the status manager.
DoNotWaitToDrainXferDone ==
    /\ hPc = "drain"
    /\ hPc' = "read"
    /\ UNCHANGED <<feVars, jobPartMgrs, finalPartOrdered, partsCh, toSchedule,
                   tpc, outcome, partVars, hStatus, hHaveFinal, partsDone,
                   jobProgress, jobStatus, cancelVars, drainVars, panic>>

WaitToDrainXferDone ==
    /\ hPc = "drain"
    /\ xferDoneDrained
    /\ hPc' = "read"
    /\ UNCHANGED <<feVars, jobPartMgrs, finalPartOrdered, partsCh, toSchedule,
                   tpc, outcome, partVars, hStatus, hHaveFinal, partsDone,
                   jobProgress, jobStatus, cancelVars, drainVars, panic>>

\* The switch reads the status again; the store comes after.
ReadJobStatus ==
    /\ hPc = "read"
    /\ hStatus' = jobStatus
    /\ hPc' = "store"
    /\ UNCHANGED <<feVars, jobPartMgrs, finalPartOrdered, partsCh, toSchedule,
                   tpc, outcome, partVars, hHaveFinal, partsDone, jobProgress,
                   jobStatus, cancelVars, drainVars, panic>>

\* Mutant: skipped and failed change places.
EnhanceSwapped(skipped, failed, completed) ==
    CASE failed /\ skipped              -> "CompletedWithErrorsAndSkipped"
      [] skipped /\ ~failed /\ completed -> "CompletedWithErrors"
      [] skipped /\ ~failed              -> "Failed"
      [] failed /\ ~skipped              -> "CompletedWithSkipped"
      [] OTHER                           -> "Completed"

EnhanceJobStatusInfo(skipped, failed, completed) ==
    CASE failed /\ skipped                -> "CompletedWithErrorsAndSkipped"
      [] failed /\ ~skipped /\ completed  -> "CompletedWithErrors"
      [] failed /\ ~skipped /\ ~completed -> "Failed"
      [] ~failed /\ skipped               -> "CompletedWithSkipped"
      [] ~failed /\ ~skipped              -> "Completed"

\* Mutant: the parts of a completed job stay counted.
ResetProgressOnly == jobProgress' = NoProgress /\ UNCHANGED partsDone

ResetCounters == partsDone' = 0 /\ jobProgress' = NoProgress

SetFinalJobStatus ==
    /\ hPc = "store"
    /\ jobStatus' = CASE hStatus = "Cancelling" -> "Cancelled"
                      [] hStatus = "InProgress" ->
                            EnhanceJobStatusInfo(jobProgress.skipped > 0,
                                                 jobProgress.failed > 0,
                                                 jobProgress.completed > 0)
                      [] OTHER -> jobStatus
    /\ ResetCounters
    /\ hPc' = "recv"
    /\ UNCHANGED <<feVars, jobPartMgrs, finalPartOrdered, partsCh, toSchedule,
                   tpc, outcome, partVars, hStatus, hHaveFinal, cancelVars,
                   drainVars, panic>>

HandlerSteps == \/ LoadFinalPartOrdered
                \/ DecideCompletion
                \/ CloseXferDone
                \/ WaitToDrainXferDone
                \/ ReadJobStatus
                \/ SetFinalJobStatus

-----------------------------------------------------------------------------
(* handleStatusUpdateMessage, its xferDone case.                           *)

TakeXferDone(t) ==
    /\ t \in xferDone
    /\ xferDone' = xferDone \ {t}
    /\ UNCHANGED <<feVars, jobPartMgrs, finalPartOrdered, partsCh, toSchedule,
                   tpc, outcome, partVars, handlerVars, jobStatus, cancelVars,
                   xferDoneClosed, xferDoneDrained, panic>>

\* A closed channel reads as closed only once it is empty.
DrainXferDone ==
    /\ xferDoneClosed
    /\ xferDone = {}
    /\ ~xferDoneDrained
    /\ xferDoneDrained' = TRUE
    /\ UNCHANGED <<feVars, jobPartMgrs, finalPartOrdered, partsCh, toSchedule,
                   tpc, outcome, partVars, handlerVars, jobStatus, cancelVars,
                   xferDone, xferDoneClosed, panic>>

StatusManager == \/ \E t \in Transfers : TakeXferDone(t)
                 \/ DrainXferDone

-----------------------------------------------------------------------------
(* CancelPauseJobOrder: read the status, store the desired one, cancel the *)
(* context. In every other status it only answers.                         *)

ReadStatusToCancel(desired) ==
    /\ cPc = "idle"
    /\ cancels < MaxCancels
    /\ 0 \in jobPartMgrs
    /\ jobStatus \in {"InProgress", "Paused"}
    /\ cPc' = "store"
    /\ cDesired' = desired
    /\ cancels' = cancels + 1
    /\ UNCHANGED <<feVars, jobPartMgrs, finalPartOrdered, partsCh, toSchedule,
                   tpc, outcome, partVars, handlerVars, jobStatus, canceled,
                   drainVars, panic>>

StoreDesiredStatus ==
    /\ cPc = "store"
    /\ jobStatus' = cDesired
    /\ cPc' = "cancel"
    /\ UNCHANGED <<feVars, jobPartMgrs, finalPartOrdered, partsCh, toSchedule,
                   tpc, outcome, partVars, handlerVars, cDesired, cancels,
                   canceled, drainVars, panic>>

CancelContext ==
    /\ cPc = "cancel"
    /\ canceled' = TRUE
    /\ cPc' = "idle"
    /\ UNCHANGED <<feVars, jobPartMgrs, finalPartOrdered, partsCh, toSchedule,
                   tpc, outcome, partVars, handlerVars, jobStatus, cDesired,
                   cancels, drainVars, panic>>

CancelPauseJobOrder == \/ \E d \in DesiredStatuses : ReadStatusToCancel(d)
                       \/ StoreDesiredStatus
                       \/ CancelContext

-----------------------------------------------------------------------------
Steps == \/ FrontEnd
         \/ Scheduler
         \/ \E t \in Transfers : Transfer(t)
         \/ \E t \in Transfers : ReceivePartDone(t)
         \/ HandlerSteps
         \/ StatusManager
         \/ CancelPauseJobOrder

\* The states in which nothing more need happen: the process died, or every
\* part was ordered and every goroutine waits for work.
Quiescent ==
    \/ panic # "none"
    \/ /\ fePc = "done" /\ hPc = "recv" /\ cPc = "idle"
       /\ \A t \in Transfers : tpc[t] = "done"
       /\ xferDone = {} /\ partsCh = {} /\ toSchedule = {}

Terminated == Quiescent /\ UNCHANGED vars

\* A panic takes the whole process down.
Next == \/ panic = "none" /\ Steps
        \/ Terminated

Spec == Init /\ [][Next]_vars

\* Every goroutine that can take a step is run by the Go scheduler; users
\* need never cancel.
Fairness ==
    /\ WF_vars(panic = "none" /\ FrontEnd)
    /\ WF_vars(panic = "none" /\ Scheduler)
    /\ \A t \in Transfers : WF_vars(panic = "none" /\ Transfer(t))
    /\ \A t \in Transfers : WF_vars(panic = "none" /\ ReceivePartDone(t))
    /\ WF_vars(panic = "none" /\ HandlerSteps)
    /\ WF_vars(panic = "none" /\ StatusManager)
    /\ WF_vars(panic = "none" /\ (StoreDesiredStatus \/ CancelContext))

FairSpec == Spec /\ Fairness

-----------------------------------------------------------------------------
(* Properties.                                                             *)

NeverCancelled == cancels = 0 \/ "Cancelling" \notin DesiredStatuses

\* Without a cancellation, the handler tells the status manager that no more
\* transfers will report only when the final part is known to be ordered and
\* every transfer of every part has reported, whatever part finishes while
\* the next one is being added.
CompletionCoversJob ==
    xferDoneClosed /\ NeverCancelled =>
        /\ jobPartMgrs = Parts
        /\ \A t \in Transfers : tpc[t] \in Reported

\* Sending to the status manager can only fail in a cancelled job.
SendFailsOnlyWhenCancelled == panic = "sendOnClosed" => ~NeverCancelled

\* However parts are added around a completion or a cancellation, the handler
\* never completes the job twice (the second close would panic).
CompletesAtMostOnce == panic # "closeOfClosed"

\* The final status is visible only after the status manager has taken in
\* every report, so that a front end that stops on it has the final counts.
DrainedWhenDone ==
    jobStatus \in DoneStatuses /\ Transfers # {} => xferDoneDrained /\ xferDone = {}

\* A final status that speaks of failed, skipped or only failed transfers is
\* never made up: such transfers exist.
StatusIsBacked ==
    LET some(o) == \E t \in Transfers : outcome[t] = o IN
    /\ jobStatus \in {"CompletedWithErrors", "CompletedWithErrorsAndSkipped", "Failed"}
          => some("Failed")
    /\ jobStatus \in {"CompletedWithSkipped", "CompletedWithErrorsAndSkipped"}
          => some("Skipped")

\* Even when the job is being cancelled, the handler decides to complete it
\* only when all transfers of the parts known at that moment are counted.
CloseCoversKnownParts ==
    [][hPc = "count" /\ hPc' = "close" =>
          \A t \in Transfers : PartOf[t] \in jobPartMgrs =>
             tpc[t] \in Reported \ {"sent"}]_vars

\* Under fair scheduling the job gets a final status unless somebody stops it.
JobEnds == <>(jobStatus \in DoneStatuses \/ cancels > 0)

\* A cancelled or paused job winds down: every transfer, started or not, ends
\* and is counted in its part, and so is every part in the job (or the process
\* has died), so that nobody waits for ever for a cancelled job.
CancelWindsDown ==
    canceled ~> \/ panic # "none"
                \/ /\ \A p \in Parts :
                         transfersDone[p] = Cardinality(TransfersOf(p))
                   /\ \A t \in Transfers : tpc[t] = "done"
                   /\ hPc = "recv"

\* "You can't change state of a completed job" (CancelPauseJobOrder).
CompletedIsFinal ==
    [][(jobStatus \in DoneStatuses) => UNCHANGED jobStatus]_vars

=============================================================================
