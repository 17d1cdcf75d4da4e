----------------------------- MODULE JobResume -----------------------------
(***************************************************************************)
(* A job over several lives of the program: what is in its plan files      *)
(* (ste/JobPartPlanFileName.go, ste/JobPartPlan.go), what a process keeps  *)
(* in memory, and how the resume command rebuilds the second from the      *)
(* first (jobsAdmin/JobsAdmin.go, jobsAdmin/init.go, cmd/jobsResume.go).   *)
(*                                                                         *)
(* A life is the command that orders the job or a resume command; it ends  *)
(* when its front end sees the end of the job, or with a crash at any step.*)
(* A plan file is mapped shared, so what was stored in it survives.  How   *)
(* the goroutines of one life interleave is the subject of JobMgr; here    *)
(* the counting of a transfer is one step.                                 *)
(***************************************************************************)
EXTENDS Integers, FiniteSets

CONSTANTS LastPart,   \* the number of the part with IsFinalPart
          Transfers,
          PartOf,
          Outcomes,   \* what a transfer that is not cancelled ends with
          MaxLives,   \* bound: lives
          Removals    \* whether the user may remove the job's files

Parts == 0..LastPart
TransfersOf(p) == {t \in Transfers : PartOf[t] = p}

ASSUME ResumeAssumption ==
    /\ LastPart \in Nat /\ MaxLives \in Nat \ {0} /\ Removals \in BOOLEAN
    /\ IsFiniteSet(Transfers) /\ PartOf \in [Transfers -> Parts]
    /\ \A p \in Parts : TransfersOf(p) # {}
    /\ Outcomes \subseteq {"success", "failed", "skipped"}

VARIABLES
    file,       \* each plan file: absent, torn (the header only) or whole
    tstatus,    \* atomicTransferStatus of each transfer
    jobStatus,  \* part 0's atomicJobStatus
    stored,     \* transfers whose data are at the destination
    lives, proc,  \* lives so far; where the process of this life stands
    next,       \* the part being ordered, reset or removed
    known,      \* jobPartMgrs
    finalPart,  \* atomicFinalPartOrderedIndicator
    queue,      \* parts waiting for scheduleJobParts
    tpc,        \* where a transfer is: idle, queued, running, set, counted
    partsDone, prog,  \* the handler's counters; prog: which outcomes it counted
    ctxCancelled,  \* the job's context
    js,         \* jstm.js: total, completed, failed, skipped, complete
    started,    \* handleStatusUpdateMessage has run its first lines
    allScheduled  \* atomicAllTransfersScheduled

diskVars == <<file, tstatus, jobStatus, stored>>
memVars == <<next, known, finalPart, queue, tpc, partsDone, prog, ctxCancelled, js,
             started, allScheduled>>
resumeVars == <<diskVars, lives, proc, memVars>>

DoneStatuses == {"Completed", "CompletedWithErrors", "CompletedWithSkipped",
                 "CompletedWithErrorsAndSkipped", "Failed", "Cancelled"}

NoSummary == [total |-> 0, completed |-> 0, failed |-> 0, skipped |-> 0, complete |-> FALSE]

ResumeInit ==
    /\ file = [p \in Parts |-> "absent"]
    /\ tstatus = [t \in Transfers |-> "started"]
    /\ jobStatus = "InProgress" /\ stored = {}
    /\ lives = 1 /\ proc = "ordering" /\ next = 0
    /\ known = {} /\ finalPart = FALSE /\ queue = {}
    /\ tpc = [t \in Transfers |-> "idle"]
    /\ partsDone = 0 /\ prog = {} /\ ctxCancelled = FALSE
    /\ js = NoSummary /\ started = FALSE /\ allScheduled = FALSE

-----------------------------------------------------------------------------
(* The first life orders the parts.                                        *)

(* JobPartPlanFileName.Create: the header, which says InProgress and       *)
(* whether the part is the final one ...                                   *)
CreatePlanHeader ==
    /\ proc = "ordering" /\ next <= LastPart /\ file[next] = "absent"
    /\ file' = [file EXCEPT ![next] = "torn"]
    /\ UNCHANGED <<tstatus, jobStatus, stored, lives, proc, memVars>>

(* ... then the transfers and their names; AddJobPart, QueueJobParts and   *)
(* the message to the status manager.                                      *)
OrderPart ==
    /\ proc = "ordering" /\ next <= LastPart /\ file[next] = "torn" /\ started
    /\ file' = [file EXCEPT ![next] = "whole"]
    /\ known' = known \cup {next}
    /\ finalPart' = (next = LastPart)
    /\ queue' = queue \cup {next}
    /\ js' = [js EXCEPT !.total = @ + Cardinality(TransfersOf(next)),
                        !.complete = @ \/ next = LastPart]
    /\ next' = next + 1
    /\ UNCHANGED <<tstatus, jobStatus, stored, lives, proc, tpc, partsDone, prog,
                   ctxCancelled, started, allScheduled>>

(* The first lines of handleStatusUpdateMessage, whenever its goroutine    *)
(* gets to run.                                                            *)
StartStatusManager ==
    /\ proc = "ordering" \/ (proc # "down" /\ known # {})
    /\ ~started
    /\ started' = TRUE
    /\ js' = [js EXCEPT !.complete = FALSE]
    /\ UNCHANGED <<diskVars, lives, proc, next, known, finalPart, queue, tpc,
                   partsDone, prog, ctxCancelled, allScheduled>>

-----------------------------------------------------------------------------
(* A transfer in memory and in the plan.                                   *)

\* Mutant: a success is scheduled again.
ScheduleWholePart(p) ==
    /\ p \in queue
    /\ queue' = queue \ {p}
    /\ tpc' = [t \in Transfers |-> IF PartOf[t] # p THEN tpc[t] ELSE "queued"]
    /\ allScheduled' = (allScheduled \/ p = LastPart)
    /\ UNCHANGED <<diskVars, lives, proc, next, known, finalPart, partsDone, prog,
                   ctxCancelled, js, started>>

\* Mutant: a part that had nothing to do is not reported.
ScheduleUnreported(p) ==
    LET done == {t \in TransfersOf(p) : tstatus[t] = "success"} IN
    /\ p \in queue
    /\ queue' = queue \ {p}
    /\ tpc' = [t \in Transfers |-> IF PartOf[t] # p THEN tpc[t]
                                   ELSE IF t \in done THEN "counted" ELSE "queued"]
    /\ allScheduled' = (allScheduled \/ (p = LastPart /\ done # TransfersOf(p)))
    /\ prog' = prog \cup (IF done = {} THEN {} ELSE {"success"})
    /\ UNCHANGED <<diskVars, lives, proc, next, known, finalPart, partsDone, ctxCancelled,
                   js, started>>

(***************************************************************************)
(* ScheduleTransfers of a queued part: a transfer that was a success       *)
(* already only counts; all the others are scheduled.                      *)
(***************************************************************************)
SchedulePart(p) ==
    LET done == {t \in TransfersOf(p) : tstatus[t] = "success"} IN
    /\ p \in queue
    /\ queue' = queue \ {p}
    /\ tpc' = [t \in Transfers |-> IF PartOf[t] # p THEN tpc[t]
                                   ELSE IF t \in done THEN "counted" ELSE "queued"]
    /\ allScheduled' = (allScheduled \/ (p = LastPart /\ done # TransfersOf(p)))
    /\ partsDone' = partsDone + (IF done = TransfersOf(p) THEN 1 ELSE 0)
    /\ prog' = prog \cup (IF done = {} THEN {} ELSE {"success"})
    /\ UNCHANGED <<diskVars, lives, proc, next, known, finalPart, ctxCancelled, js, started>>

StartTransfer(t) ==
    /\ tpc[t] = "queued"
    /\ tpc' = [tpc EXCEPT ![t] = "running"]
    /\ UNCHANGED <<diskVars, lives, proc, next, known, finalPart, queue, partsDone,
                   prog, ctxCancelled, js, started, allScheduled>>

(* The data reach the destination some time before the status does.        *)
StoreData(t) ==
    /\ tpc[t] = "running" /\ file[PartOf[t]] = "whole" /\ ~ctxCancelled
    /\ t \notin stored
    /\ stored' = stored \cup {t}
    /\ UNCHANGED <<file, tstatus, jobStatus, lives, proc, memVars>>

(***************************************************************************)
(* SetStatus in the plan: a negative status stays.  The transfers of a     *)
(* torn file have no names, so they can only fail.                         *)
(***************************************************************************)
EndsOf(t) == (IF t \in stored /\ file[PartOf[t]] = "whole" THEN Outcomes ELSE Outcomes \ {"success"})
                \cup (IF ctxCancelled THEN {"cancelled"} ELSE {})

Negative == {"failed", "skipped", "cancelled"}

SetTransferStatus(t) ==
    /\ tpc[t] = "running"
    /\ \E s \in EndsOf(t) :
          tstatus' = [tstatus EXCEPT ![t] = IF @ \in Negative THEN @ ELSE s]
    /\ tpc' = [tpc EXCEPT ![t] = "set"]
    /\ UNCHANGED <<file, jobStatus, stored, lives, proc, next, known, finalPart, queue,
                   partsDone, prog, ctxCancelled, js, started, allScheduled>>

Enhance(outcomes) ==
    CASE {"failed", "skipped"} \subseteq outcomes -> "CompletedWithErrorsAndSkipped"
      [] "failed" \in outcomes /\ "skipped" \notin outcomes ->
            IF "success" \in outcomes THEN "CompletedWithErrors" ELSE "Failed"
      [] "failed" \notin outcomes /\ "skipped" \in outcomes -> "CompletedWithSkipped"
      [] OTHER -> "Completed"

(***************************************************************************)
(* The report of a transfer's end: to the status manager, to the counters  *)
(* of its part and, for the last of the part, to the handler.              *)
(***************************************************************************)
ReportTransferDone(t) ==
    LET s == tstatus[t] IN
    /\ tpc[t] = "set" /\ started
    /\ tpc' = [tpc EXCEPT ![t] = "counted"]
    /\ js' = CASE s = "success" -> [js EXCEPT !.completed = @ + 1]
               [] s = "failed"  -> [js EXCEPT !.failed = @ + 1]
               [] s = "skipped" -> [js EXCEPT !.skipped = @ + 1]
               [] OTHER         -> js
    /\ prog' = prog \cup {s}
    /\ partsDone' = partsDone + (IF \A u \in TransfersOf(PartOf[t]) : tpc'[u] = "counted"
                                 THEN 1 ELSE 0)
    /\ UNCHANGED <<diskVars, lives, proc, next, known, finalPart, queue, ctxCancelled,
                   started, allScheduled>>

(* reportJobPartDoneHandler when all known parts are done.                 *)
CompleteJob ==
    /\ known # {} /\ partsDone = Cardinality(known)
    /\ finalPart \/ jobStatus = "Cancelling"
    /\ jobStatus' = CASE jobStatus = "Cancelling" -> "Cancelled"
                      [] jobStatus = "InProgress" -> Enhance(prog)
                      [] OTHER -> jobStatus
    /\ partsDone' = 0 /\ prog' = {}
    /\ UNCHANGED <<file, tstatus, stored, lives, proc, next, known, finalPart, queue, tpc,
                   ctxCancelled, js, started, allScheduled>>

-----------------------------------------------------------------------------
(* The user: cancelling in this process, or with the cancel command in     *)
(* another one, which maps the same plan files but has its own context.    *)

CanCancel == file[0] # "absent" /\ jobStatus = "InProgress"

CancelJob ==
    /\ proc \in {"ordering", "running"} /\ known # {} /\ CanCancel
    /\ jobStatus' = "Cancelling" /\ ctxCancelled' = TRUE
    /\ UNCHANGED <<file, tstatus, stored, lives, proc, next, known, finalPart, queue, tpc,
                   partsDone, prog, js, started, allScheduled>>

CancelCommand ==
    /\ CanCancel
    /\ jobStatus' = "Cancelling"
    /\ UNCHANGED <<file, tstatus, stored, lives, proc, memVars>>

(* jobs remove: the plan files by name, part 0 first; it may be killed too.*)
RemovePlanFile ==
    /\ Removals /\ proc = "down"
    /\ \E p \in Parts :
          /\ file[p] # "absent" /\ \A q \in Parts : q < p => file[q] = "absent"
          /\ file' = [file EXCEPT ![p] = "absent"]
    /\ UNCHANGED <<tstatus, jobStatus, stored, lives, proc, memVars>>

-----------------------------------------------------------------------------
(* Lives.                                                                  *)

(* What is in memory is gone.                                              *)
LoseMemory ==
    /\ next' = 0 /\ known' = {} /\ finalPart' = FALSE /\ queue' = {}
    /\ tpc' = [t \in Transfers |-> "idle"]
    /\ partsDone' = 0 /\ prog' = {} /\ ctxCancelled' = FALSE
    /\ js' = NoSummary /\ started' = FALSE /\ allScheduled' = FALSE

Crash ==
    /\ proc # "down"
    /\ proc' = "down"
    /\ LoseMemory
    /\ UNCHANGED <<diskVars, lives>>

(* ReportProgressOrExit sees a status IsJobDone of a complete job.         *)
SeesTheEnd ==
    \/ jobStatus = "Cancelled"
    \/ (js.complete \/ allScheduled) /\ jobStatus \in DoneStatuses

FrontEndExits ==
    /\ proc \in {"ordering", "running"} /\ known # {} /\ started /\ SeesTheEnd
    /\ proc' = "down"
    /\ LoseMemory
    /\ UNCHANGED <<diskVars, lives>>

-----------------------------------------------------------------------------
(* The resume command.                                                     *)

PlansFound == {p \in Parts : file[p] # "absent"}

CountIn(status) == Cardinality({t \in Transfers : PartOf[t] \in PlansFound /\ tstatus[t] \in status})

(* resurrectJobSummary                                                     *)
ResurrectedSummary ==
    [total     |-> Cardinality({t \in Transfers : PartOf[t] \in PlansFound}),
     completed |-> CountIn({"success"}),
     failed    |-> CountIn({"failed"}),
     skipped   |-> CountIn({"skipped"}),
     complete  |-> LastPart \in PlansFound]

(***************************************************************************)
(* ResurrectJob: AddJobPart for every plan file by part number, then the   *)
(* summary, which panics without part 0 and may fault on a torn file (if   *)
(* it does not, it reads zeroes).                                          *)
(***************************************************************************)
Resurrect(from, to) ==
    /\ proc = from
    /\ \/ /\ 0 \notin PlansFound \/ \E p \in PlansFound : file[p] = "torn"
          /\ proc' = "down" /\ LoseMemory
       \/ /\ 0 \in PlansFound
          /\ proc' = to
          /\ known' = PlansFound
          /\ finalPart' = (LastPart \in PlansFound)
          /\ js' = ResurrectedSummary
          /\ UNCHANGED <<next, queue, tpc, partsDone, prog, ctxCancelled, started, allScheduled>>
    /\ UNCHANGED diskVars

(* GetJobFromTo resurrects the job for the first time ...                  *)
ResumeCommand ==
    /\ lives < MaxLives
    /\ PlansFound # {}
    /\ lives' = lives + 1
    /\ Resurrect("down", "resurrected")

(* ... and ResumeJobOrder for the second.                                  *)
ResurrectAgain == Resurrect("resurrected", "ordered?") /\ UNCHANGED lives

\* Mutant: any job may be resumed.
AnyJob == TRUE

(* ResumeJobOrder goes on with a job that was ordered completely and whose *)
(* status is one its switch has a case for.                                *)
CompletelyOrdered == \E p \in Parts : (\A q \in 0..p : q \in known) /\ p = LastPart

Resumable == {"InProgress", "Cancelling"} \cup (DoneStatuses \ {"Failed"})

RefuseToResume ==
    /\ proc = "ordered?" /\ ~(CompletelyOrdered /\ jobStatus \in Resumable)
    /\ proc' = "refused"
    /\ UNCHANGED <<diskVars, lives, memVars>>

\* The front end prints the error and exits.
ExitRefused ==
    /\ proc = "refused"
    /\ proc' = "down"
    /\ LoseMemory
    /\ UNCHANGED <<diskVars, lives>>

(* The job is in progress again, before any of its transfers is; one that  *)
(* died while it was being cancelled is Cancelled first ...                *)
SetInProgress ==
    /\ proc = "ordered?" /\ CompletelyOrdered /\ jobStatus \in Resumable
    /\ IF jobStatus = "Cancelling"
       THEN jobStatus' = "Cancelled" /\ UNCHANGED proc
       ELSE jobStatus' = "InProgress" /\ proc' = "listing"
    /\ UNCHANGED <<file, tstatus, stored, lives, memVars>>

(* ... the status manager's summary is asked for and put back ...          *)
ForceSummaryInProgress ==
    /\ proc = "listing" /\ started
    /\ proc' = "resetting"
    /\ UNCHANGED <<diskVars, lives, memVars>>

(* ... and the transfers that did not succeed are reset one by one.        *)
ResetTransfer(t) ==
    /\ proc = "resetting" /\ tstatus[t] \in Negative
    /\ \A u \in Transfers : tstatus[u] \in Negative => PartOf[t] <= PartOf[u]
    /\ tstatus' = [tstatus EXCEPT ![t] = "started"]
    /\ UNCHANGED <<file, jobStatus, stored, lives, proc, memVars>>

(* ResumeTransfers: Reset and QueueJobParts for all, in any order.         *)
ResumeTransfers ==
    /\ proc = "resetting" /\ \A t \in Transfers : tstatus[t] \notin Negative
    /\ proc' = "running"
    /\ queue' = known /\ partsDone' = 0 /\ ctxCancelled' = FALSE
    /\ UNCHANGED <<diskVars, lives, next, known, finalPart, tpc, prog, js, started, allScheduled>>

ResumeSteps ==
    \/ ResurrectAgain \/ RefuseToResume \/ ExitRefused \/ SetInProgress \/ ForceSummaryInProgress
    \/ (\E t \in Transfers : ResetTransfer(t)) \/ ResumeTransfers

GoOn(t) == StartTransfer(t) \/ SetTransferStatus(t) \/ ReportTransferDone(t)

Engine ==
    \/ CreatePlanHeader \/ OrderPart \/ StartStatusManager
    \/ \E p \in Parts : SchedulePart(p)
    \/ \E t \in Transfers : GoOn(t) \/ StoreData(t)
    \/ CompleteJob \/ FrontEndExits \/ ResumeSteps

ResumeNext ==
    \/ Engine
    \/ CancelJob \/ CancelCommand \/ RemovePlanFile \/ Crash \/ ResumeCommand

(* The goroutines of a living process run; nobody has to resume, cancel,   *)
(* remove or crash.                                                        *)
ResumeFairness ==
    /\ WF_resumeVars(CreatePlanHeader) /\ WF_resumeVars(OrderPart)
    /\ WF_resumeVars(StartStatusManager) /\ WF_resumeVars(ResumeSteps)
    /\ WF_resumeVars(\E p \in Parts : SchedulePart(p))
    /\ \A t \in Transfers : WF_resumeVars(GoOn(t))
    /\ WF_resumeVars(CompleteJob) /\ WF_resumeVars(FrontEndExits)

ResumeSpec == ResumeInit /\ [][ResumeNext]_resumeVars /\ ResumeFairness

-----------------------------------------------------------------------------
ResumeTypeOK ==
    /\ file \in [Parts -> {"absent", "torn", "whole"}]
    /\ tstatus \in [Transfers -> {"started", "success"} \cup Negative]
    /\ jobStatus \in DoneStatuses \cup {"InProgress", "Cancelling"}
    /\ stored \subseteq Transfers /\ lives \in 1..MaxLives
    /\ proc \in {"ordering", "down", "resurrected", "ordered?", "refused", "listing",
                "resetting", "running"}
    /\ known \subseteq Parts /\ queue \subseteq known
    /\ tpc \in [Transfers -> {"idle", "queued", "running", "set", "counted"}]

CompletedCountIsBacked ==
    js.completed <= Cardinality({t \in Transfers : tstatus[t] = "success"})

ResumedHasAllParts == proc = "running" => known = Parts

(***************************************************************************)
(* What the plan files say of a job is true whenever the process dies:     *)
(* under a final status other than Cancelled no transfer is pending, under *)
(* Completed every one is a success, and a success has its data at the     *)
(* destination; the number of completed transfers is backed by them; and a *)
(* resumed job runs with all of its parts, whatever crash came before ("If *)
(* the job has not been ordered completely, then job cannot be resumed").  *)
(***************************************************************************)
PlanTellsTheTruth ==
    /\ ResumeTypeOK /\ CompletedCountIsBacked /\ ResumedHasAllParts
    /\ \A t \in Transfers : tstatus[t] = "success" => t \in stored
    /\ jobStatus \in DoneStatuses \ {"Cancelled"} =>
          \A t \in Transfers : tstatus[t] # "started"
    /\ jobStatus = "Completed" => \A t \in Transfers : tstatus[t] = "success"

(* However often a job is resumed, a recorded success is never transferred *)
(* again and never taken back.                                             *)
SuccessIsNotRepeated ==
    [][\A t \in Transfers : tstatus[t] = "success" =>
          tstatus'[t] = "success" /\ tpc'[t] \notin {"queued", "running"}]_resumeVars

(* A life comes to an end of its job, or of itself.                        *)
LivesEnd == proc = "running" ~> proc = "down" \/ jobStatus \in DoneStatuses

=============================================================================
