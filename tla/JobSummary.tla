----------------------------- MODULE JobSummary -----------------------------
(***************************************************************************)
(* What the user is told of a job: the status manager                      *)
(* (handleStatusUpdateMessage), the requests for a summary served through  *)
(* it (ListJobSummary, GetJobSummary) and the progress loop of the front   *)
(* end that polls them and exits once the job is done                      *)
(* (ReportProgressOrExit). Runs on top of the job manager of JobMgr.       *)
(***************************************************************************)
EXTENDS JobMgr

CONSTANT PartCreatedSize  \* capacity of jstm.partCreated

ASSUME PartCreatedCapacity == PartCreatedSize \in Nat \ {0}

VARIABLES
    partCreated,     \* parts whose message is in jstm.partCreated
    js,              \* jstm.js, the summary the status manager maintains
    smPc,            \* the status manager
    confirming,      \* ScheduleTransfers is about to confirm
    allScheduled,    \* atomicAllTransfersScheduled
    uiPc, uiJs, uiStatus  \* the progress loop, what it was answered

uiVars == <<uiPc, uiJs, uiStatus>>
summaryVars == <<partCreated, js, smPc, confirming, allScheduled, uiVars>>
allVars == <<vars, summaryVars>>

Summary == [ordered : BOOLEAN, total : Nat, completed : Nat, failed : Nat,
            skipped : Nat]
EmptySummary == [ordered |-> FALSE, total |-> 0, completed |-> 0, failed |-> 0,
                 skipped |-> 0]
Attended(s) == s.completed + s.failed + s.skipped

SummaryTypeOK ==
    /\ partCreated \subseteq Parts
    /\ js \in Summary
    /\ smPc \in {"select", "respond", "closeDone", "closeListReq",
                 "clearListReq", "gone"}
    /\ confirming \in BOOLEAN
    /\ allScheduled \in BOOLEAN
    /\ uiPc \in {"idle", "select", "await", "status", "decide", "exit", "panicked"}
    /\ uiJs \in Summary
    /\ uiStatus \in JobStatuses

SummaryInit ==
    /\ Init
    /\ partCreated = {}
    /\ js = EmptySummary
    /\ smPc = "select"
    /\ confirming = FALSE
    /\ allScheduled = FALSE
    /\ uiPc = "idle" /\ uiJs = EmptySummary /\ uiStatus = "InProgress"

-----------------------------------------------------------------------------
(* Steps of the job manager that reach the summary.                        *)

SendPartCreated ==
    /\ SendJobPartCreatedMsg
    /\ Cardinality(partCreated) < PartCreatedSize
    /\ partCreated' = partCreated \union {fePart}
    /\ UNCHANGED <<js, smPc, confirming, allScheduled, uiVars>>

\* Handing over a transfer of the final part is followed by
\* ConfirmAllTransfersScheduled before the next one is looked at.
ScheduleAndConfirm(t) ==
    /\ ~confirming
    /\ ScheduleTransfer(t)
    /\ confirming' = (PartOf[t] = LastPart)
    /\ UNCHANGED <<partCreated, js, smPc, allScheduled, uiVars>>

ConfirmAllTransfersScheduled ==
    /\ confirming
    /\ confirming' = FALSE
    /\ allScheduled' = TRUE
    /\ UNCHANGED <<vars, partCreated, js, smPc, uiVars>>

SchedulePart(p) ==
    /\ ~confirming
    /\ StartScheduling(p)
    /\ UNCHANGED summaryVars

\* Every other step of the job manager.
JobMgrStep ==
    /\ \/ AddJobPart \/ SetFinalPartOrdered \/ QueueJobParts
       \/ \E t \in Transfers : Transfer(t) \/ ReceivePartDone(t)
       \/ HandlerSteps
       \/ CancelPauseJobOrder
    /\ UNCHANGED summaryVars

-----------------------------------------------------------------------------
(* handleStatusUpdateMessage.                                              *)

HandlePartCreated(p) ==
    /\ smPc = "select"
    /\ p \in partCreated
    /\ partCreated' = partCreated \ {p}
    /\ js' = [js EXCEPT !.ordered = @ \/ p = LastPart,
                        !.total = @ + Cardinality(TransfersOf(p))]
    /\ UNCHANGED <<vars, smPc, confirming, allScheduled, uiVars>>

\* Mutant: skipped transfers are not counted.
IgnoreSkipped(s, o) ==
    CASE o = "Success"                     -> [s EXCEPT !.completed = @ + 1]
      [] o \in {"Failed", "TierUnavailable"} -> [s EXCEPT !.failed = @ + 1]
      [] OTHER                             -> s
\* Unlike the job part manager it knows TierAvailabilityCheckFailure.
AddOutcome(s, o) ==
    CASE o = "Success"                     -> [s EXCEPT !.completed = @ + 1]
      [] o \in {"Failed", "TierUnavailable"} -> [s EXCEPT !.failed = @ + 1]
      [] o = "Skipped"                     -> [s EXCEPT !.skipped = @ + 1]
      [] OTHER                             -> s

HandleXferDone(t) ==
    /\ smPc = "select"
    /\ TakeXferDone(t)
    /\ js' = AddOutcome(js, outcome[t])
    /\ UNCHANGED <<partCreated, smPc, confirming, allScheduled, uiVars>>

HandleXferDoneClosed ==
    /\ smPc = "select"
    /\ DrainXferDone
    /\ UNCHANGED summaryVars

\* listReq is unbuffered: a request is taken when a poller offers one.
HandleListReq ==
    /\ smPc = "select"
    /\ uiPc = "select"
    /\ smPc' = "respond"
    /\ uiPc' = "await"
    /\ UNCHANGED <<vars, partCreated, js, confirming, allScheduled, uiJs, uiStatus>>

\* The first answer after the drain is the status manager's last.
SendSummary ==
    /\ smPc = "respond"
    /\ uiPc = "await"
    /\ uiJs' = js
    /\ uiPc' = "status"
    /\ smPc' = IF xferDoneDrained THEN "closeDone" ELSE "select"
    /\ UNCHANGED <<vars, partCreated, js, confirming, allScheduled, uiStatus>>

\* close(statusMgrDone), close(respChan) and close(listReq), listReq = nil.
CloseStep ==
    /\ smPc \in {"closeDone", "closeListReq", "clearListReq"}
    /\ smPc' = CASE smPc = "closeDone"    -> "closeListReq"
                 [] smPc = "closeListReq" -> "clearListReq"
                 [] smPc = "clearListReq" -> "gone"
    /\ UNCHANGED <<vars, partCreated, js, confirming, allScheduled, uiVars>>

StatusMgrDone == smPc \in {"closeListReq", "clearListReq", "gone"}
ListReqClosed == smPc = "clearListReq"

StatusMgr == \/ \E p \in Parts : HandlePartCreated(p)
             \/ \E t \in Transfers : HandleXferDone(t)
             \/ HandleXferDoneClosed
             \/ HandleListReq
             \/ SendSummary
             \/ CloseStep

-----------------------------------------------------------------------------
(* The progress loop: ReportProgressOrExit, which starts once part 0 has   *)
(* been ordered, over GetJobSummary over ListJobSummary.                   *)

\* statusMgrClosed
Poll ==
    /\ uiPc = "idle"
    /\ fePart > 0 \/ fePc = "done"
    /\ IF StatusMgrDone THEN uiPc' = "status" /\ uiJs' = js
                        ELSE uiPc' = "select" /\ UNCHANGED uiJs
    /\ UNCHANGED <<vars, partCreated, js, smPc, confirming, allScheduled, uiStatus>>

SelectStatusMgrDone ==
    /\ uiPc = "select"
    /\ StatusMgrDone
    /\ uiPc' = "status"
    /\ uiJs' = js
    /\ UNCHANGED <<vars, partCreated, js, smPc, confirming, allScheduled, uiStatus>>

\* A select that finds listReq closed may choose it, and panics.
SelectClosedListReq ==
    /\ uiPc = "select"
    /\ ListReqClosed
    /\ uiPc' = "panicked"
    /\ UNCHANGED <<vars, partCreated, js, smPc, confirming, allScheduled, uiJs,
                   uiStatus>>

\* GetJobSummary reads part 0's status after it has the counts.
ReadPart0Status ==
    /\ uiPc = "status"
    /\ uiStatus' = jobStatus
    /\ uiPc' = "decide"
    /\ UNCHANGED <<vars, partCreated, js, smPc, confirming, allScheduled, uiJs>>

\* Mutant: the scheduled flag is not consulted.
SummaryDoneOrdered ==
    \/ uiStatus = "Cancelled"
    \/ uiJs.ordered /\ uiStatus \in DoneStatuses

SummaryDone ==
    \/ uiStatus = "Cancelled"
    \/ (uiJs.ordered \/ allScheduled) /\ uiStatus \in DoneStatuses

ExitIfDone ==
    /\ uiPc = "decide"
    /\ uiPc' = IF SummaryDone THEN "exit" ELSE "idle"
    /\ UNCHANGED <<vars, partCreated, js, smPc, confirming, allScheduled, uiJs,
                   uiStatus>>

Progressing == \/ Poll
               \/ SelectStatusMgrDone
               \/ ReadPart0Status
               \/ ExitIfDone

-----------------------------------------------------------------------------
SummarySteps ==
    \/ SendPartCreated
    \/ \E t \in Transfers : ScheduleAndConfirm(t)
    \/ ConfirmAllTransfersScheduled
    \/ \E p \in Parts : SchedulePart(p)
    \/ JobMgrStep
    \/ StatusMgr
    \/ Progressing
    \/ SelectClosedListReq

\* The process has died, or exited because the job is done.
Ended == panic # "none" \/ uiPc \in {"exit", "panicked"}

SummaryNext == \/ ~Ended /\ SummarySteps
               \/ Ended /\ UNCHANGED allVars

SummarySpec == SummaryInit /\ [][SummaryNext]_allVars

\* As in JobMgr, every goroutine that can go on is run. (Only a transfer or a
\* handler step of JobMgrStep needs no fairness of its own: each has its own
\* goroutine.)
SummaryFairness ==
    /\ WF_allVars(~Ended /\ (AddJobPart \/ SetFinalPartOrdered \/ QueueJobParts)
                         /\ UNCHANGED summaryVars)
    /\ WF_allVars(~Ended /\ SendPartCreated)
    /\ WF_allVars(~Ended /\ ((\E t \in Transfers : ScheduleAndConfirm(t))
                             \/ ConfirmAllTransfersScheduled
                             \/ (\E p \in Parts : SchedulePart(p))))
    /\ \A t \in Transfers :
          /\ WF_allVars(~Ended /\ Transfer(t) /\ UNCHANGED summaryVars)
          /\ WF_allVars(~Ended /\ ReceivePartDone(t) /\ UNCHANGED summaryVars)
    /\ WF_allVars(~Ended /\ HandlerSteps /\ UNCHANGED summaryVars)
    /\ SF_allVars(~Ended /\ ((\E p \in Parts : HandlePartCreated(p))
                             \/ (\E t \in Transfers : HandleXferDone(t))
                             \/ HandleXferDoneClosed))
    /\ WF_allVars(~Ended /\ (HandleListReq \/ SendSummary \/ CloseStep))
    /\ WF_allVars(~Ended /\ Progressing)

FairSummarySpec == SummarySpec /\ SummaryFairness

-----------------------------------------------------------------------------
(* Properties.                                                             *)

\* When the status manager gives up for good, its counters hold every transfer
\* of a job nobody cancelled, so no later answer can differ.
LastSummaryIsComplete ==
    /\ SummaryTypeOK
    /\ StatusMgrDone /\ cancels = 0 => Attended(js) = Cardinality(Transfers)

\* The progress loop ends by itself once an uncancelled job has run, also when
\* the status manager was gone before it took in the final part's message.
ProgressEnds == <>(uiPc \in {"exit", "panicked"} \/ cancels > 0)

=============================================================================
