----------------------------- MODULE TaskRunner -----------------------------
(***************************************************************************)
(* A task: main reads the records of a task file                           *)
(* (GetJobDataFromjsonfileGCS), decides for each whether it is to be       *)
(* copied or deleted, hands the chosen ones as a list of files to the      *)
(* copy or the remove command, whose enumeration, transfers and progress   *)
(* loop run as in the other modules, and the outcome is sent to two event  *)
(* hubs: an event for each file, a result for the task                     *)
(* (SubmitTaskResultToEventHubB2B).                                        *)
(*                                                                         *)
(* Records have distinct names and an empty FilePath and DestFilePath, as  *)
(* those of the task files of the repository have; their source is in a    *)
(* Google bucket.                                                          *)
(***************************************************************************)
EXTENDS Integers, FiniteSets, Sequences

CONSTANTS Records,
          Kinds,          \* of TaskType: "Full" (DeltaUpsert is alike), "DeltaDelete"
          ScanErrors,     \* how scanning a name may fail, see ScanFails
          Recreations     \* bound: how often a deleted source object comes back

ASSUME TaskAssumption == IsFiniteSet(Records)

VARIABLES taskType,
          source,         \* the records whose object the bucket has
          dest,           \* those whose blob the destination has
          taskPc, unread,
          tracked, chosen, skippedDel,  \* FileSliceB2B, resultMap, SkippedDelNum
          toList, xfer,   \* names still to be scanned, where each transfer stands
          counted,        \* transfers in the summary of the status manager
          polled, pollPc, \* those in the summary the progress loop was given
          jobEvents, taskEvents, \* what the event hubs have
          gone,           \* history: sources that were found missing
          recreated

worldVars == <<source, dest, gone, recreated>>
loadVars == <<unread, tracked, chosen, skippedDel>>
jobVars == <<toList, xfer, counted, polled, pollPc>>
taskVars == <<taskType, worldVars, taskPc, loadVars, jobVars, jobEvents, taskEvents>>

TaskInit ==
    /\ taskType \in Kinds
    /\ source \in SUBSET Records /\ dest \in SUBSET Records
    /\ taskPc = "load" /\ unread = Records
    /\ tracked = {} /\ chosen = {} /\ skippedDel = 0
    /\ toList = {} /\ xfer = [r \in Records |-> "none"]
    /\ counted = {} /\ polled = {} /\ pollPc = "idle"
    /\ jobEvents = [r \in Records |-> {}] /\ taskEvents = <<>>
    /\ gone = {} /\ recreated = 0

Event(r, status) == jobEvents' = [jobEvents EXCEPT ![r] = @ \cup {status}]

(* handleBlobArchiving: nothing is asked of a Google source.               *)
HandleBlobArchiving(r) ==
    /\ tracked' = tracked \cup {r}
    /\ chosen' = chosen \cup {r}
    /\ UNCHANGED <<skippedDel, jobEvents, gone>>

\* Mutant: the error of the source is treated as that of the destination is.
SourceUnknownIsAbsent(r) == {"absent", IF r \in source THEN "exists" ELSE "absent"}

(***************************************************************************)
(* What isSingleGCSObjectForDelSrc and isSingleBlobForDelDest may answer   *)
(* of a name that is there or not. The second takes an error it has no     *)
(* case for as an absence.                                                 *)
(***************************************************************************)
SourceAnswers(r) == {"error", IF r \in source THEN "exists" ELSE "absent"}
DestAnswers(r) == {"error", "absent", IF r \in dest THEN "exists" ELSE "absent"}

(* The DeltaDelete branch: one record whose source still exists is kept.   *)
SkipDeletion(r) ==
    /\ "exists" \in SourceAnswers(r)
    /\ tracked' = tracked \cup {r}
    /\ skippedDel' = skippedDel + 1
    /\ Event(r, "skipped")
    /\ UNCHANGED <<chosen, gone>>

ChooseDeletion(r) ==
    /\ "absent" \in SourceAnswers(r)
    /\ gone' = IF r \in source THEN gone ELSE gone \cup {r}
    /\ tracked' = tracked \cup {r}
    /\ \E answer \in DestAnswers(r) :
          IF answer = "exists"
          THEN chosen' = chosen \cup {r} /\ UNCHANGED jobEvents
          ELSE Event(r, "failed") /\ UNCHANGED chosen
    /\ UNCHANGED skippedDel

\* Not in FileSliceB2B: the task result will not know of the record.
SourceProbeFails(r) ==
    /\ "error" \in SourceAnswers(r)
    /\ Event(r, "failed")
    /\ UNCHANGED <<tracked, chosen, skippedDel, gone>>

ReadRecord(r) ==
    /\ taskPc = "load" /\ r \in unread
    /\ unread' = unread \ {r}
    /\ IF taskType = "DeltaDelete"
       THEN SkipDeletion(r) \/ ChooseDeletion(r) \/ SourceProbeFails(r)
       ELSE HandleBlobArchiving(r)
    /\ UNCHANGED <<taskType, source, dest, recreated, taskPc, jobVars, taskEvents>>

\* createTempFile, and the command line that names the list.
StartCommand ==
    /\ taskPc = "load" /\ unread = {}
    /\ taskPc' = "list" /\ toList' = chosen
    /\ UNCHANGED <<taskType, worldVars, loadVars, xfer, counted, polled, pollPc,
                   jobEvents, taskEvents>>

(***************************************************************************)
(* listTraverser: the child traverser of a name. A copy scans the bucket:  *)
(* a name whose attributes cannot be had, be it missing or not, is listed  *)
(* as a directory, nothing is below it, and a listing that fails is asked  *)
(* again for ever. A removal scans the container: there the error comes    *)
(* back, is sent as an event, and is cut to 100 characters when it has     *)
(* more than 36.                                                           *)
(***************************************************************************)
Scanned(r) == taskPc = "list" /\ r \in toList /\ toList' = toList \ {r}

ScanFinds(r) ==
    /\ Scanned(r)
    /\ r \in IF taskType = "DeltaDelete" THEN dest ELSE source
    /\ xfer' = [xfer EXCEPT ![r] = "queued"]
    /\ UNCHANGED <<taskType, worldVars, taskPc, loadVars, counted, polled, pollPc,
                   jobEvents, taskEvents>>

ScanFindsNothing(r) ==
    /\ Scanned(r)
    /\ taskType = "DeltaDelete" => r \notin dest
    /\ UNCHANGED <<taskType, worldVars, taskPc, loadVars, xfer, counted, polled,
                   pollPc, jobEvents, taskEvents>>

ScanFails(r) ==
    /\ Scanned(r)
    /\ \E error \in ScanErrors :
          CASE taskType = "Full" ->
                 error = "listing" /\ taskPc' = "spinning" /\ UNCHANGED jobEvents
            [] taskType # "Full" /\ error = "37 to 99 characters" ->
                 taskPc' = "crashed" /\ UNCHANGED jobEvents
            [] OTHER -> Event(r, "failed") /\ UNCHANGED taskPc
    /\ UNCHANGED <<taskType, worldVars, loadVars, xfer, counted, polled, pollPc,
                   taskEvents>>

(* dispatchFinalPart; a job without transfers is ordered all the same, and *)
(* the engine completes it at once.                                        *)
TaskFinalPart ==
    /\ taskPc = "list" /\ toList = {}
    /\ taskPc' = "wait"
    /\ UNCHANGED <<taskType, worldVars, loadVars, jobVars, jobEvents, taskEvents>>

Finished == {"success", "skipped", "failed"}

(***************************************************************************)
(* A transfer ends: it changes the destination or not, sends its event     *)
(* (ReportTransferDone; a skipped file counts as a success there), and     *)
(* then goes on its way to the status manager.                             *)
(***************************************************************************)
EndTransfer(r) ==
    /\ xfer[r] = "queued"
    /\ \E outcome \in {"success", "skipped", "failed"} :
          /\ outcome = "skipped" => taskType # "DeltaDelete"
          /\ xfer' = [xfer EXCEPT ![r] = outcome]
          /\ Event(r, IF outcome = "failed" THEN "failed" ELSE "success")
          /\ dest' = IF outcome # "success" THEN dest
                     ELSE IF taskType = "DeltaDelete" THEN dest \ {r} ELSE dest \cup {r}
    /\ UNCHANGED <<taskType, source, gone, recreated, taskPc, loadVars, toList,
                   counted, polled, pollPc, taskEvents>>

CountTransfer(r) ==
    /\ xfer[r] \in Finished /\ r \notin counted
    /\ counted' = counted \cup {r}
    /\ UNCHANGED <<taskType, worldVars, taskPc, loadVars, toList, xfer, polled,
                   pollPc, jobEvents, taskEvents>>

(* GetJobSummary: the counts first, then the status of the job.            *)
PollCounts ==
    /\ taskPc = "wait" /\ pollPc = "idle"
    /\ polled' = counted /\ pollPc' = "status"
    /\ UNCHANGED <<taskType, worldVars, taskPc, loadVars, toList, xfer, counted,
                   jobEvents, taskEvents>>

(* The status of the job: the final part is ordered, all transfers ended.  *)
JobDone == \A r \in Records : xfer[r] # "queued"

PollStatus ==
    /\ taskPc = "wait" /\ pollPc = "status"
    /\ pollPc' = "idle"
    /\ taskPc' = IF JobDone THEN "submit" ELSE "wait"
    /\ UNCHANGED <<taskType, worldVars, loadVars, toList, xfer, counted, polled,
                   jobEvents, taskEvents>>

Polled(outcome) == Cardinality({r \in polled : xfer[r] = outcome})

Result(complete, files, skipped, finished, failed) ==
    [complete |-> complete, files |-> files, skipped |-> skipped,
     finished |-> finished, failed |-> failed]

numCopyJob == Polled("skipped") + Polled("success") + Polled("failed")
numJobOfTask == Cardinality(tracked)
numOfNonCopy == numJobOfTask - numCopyJob - skippedDel

\* Mutant: the records skipped before the job are taken for lost ones too.
NonCopyWithSkipped ==
    Result(TRUE, numJobOfTask, Polled("skipped") + skippedDel, Polled("success"),
           Polled("failed") + numJobOfTask - numCopyJob)

TaskResult ==
    Result(TRUE, numJobOfTask, Polled("skipped") + skippedDel, Polled("success"),
           Polled("failed") + numOfNonCopy)

(***************************************************************************)
(* SubmitTaskResultToEventHubB2B, then Exit. Either send may be lost: an   *)
(* error of SetAzTaskResultAsync is logged and goes no further.            *)
(***************************************************************************)
SubmitTaskResult ==
    /\ taskPc = "submit"
    /\ LET nonCopy == IF numJobOfTask > numCopyJob /\ numOfNonCopy > 0
                         /\ numCopyJob > 0 /\ taskType # "DeltaDelete"
                      THEN <<Result(FALSE, numOfNonCopy, 0, 0, numOfNonCopy)>>
                      ELSE <<>>
       IN  \E first \in {nonCopy, <<>>}, second \in {<<TaskResult>>, <<>>} :
              taskEvents' = first \o second
    /\ taskPc' = "exit"
    /\ UNCHANGED <<taskType, worldVars, loadVars, jobVars, jobEvents>>

(* Another writer of the bucket: an object comes back.                     *)
Recreate(r) ==
    /\ taskPc # "exit" /\ recreated < Recreations /\ r \notin source
    /\ source' = source \cup {r} /\ recreated' = recreated + 1
    /\ UNCHANGED <<taskType, dest, gone, taskPc, loadVars, jobVars, jobEvents, taskEvents>>

Scan(r) == ScanFinds(r) \/ ScanFindsNothing(r) \/ ScanFails(r)

TaskSteps ==
    \/ StartCommand \/ TaskFinalPart \/ PollCounts \/ PollStatus \/ SubmitTaskResult
    \/ \E r \in Records : ReadRecord(r) \/ Scan(r)

TaskNext ==
    \/ TaskSteps
    \/ \E r \in Records : EndTransfer(r) \/ CountTransfer(r) \/ Recreate(r)

(* The goroutines of the command, of the transfers and of the status       *)
(* manager all go on; nothing makes an object come back.                   *)
TaskFairness ==
    /\ WF_taskVars(TaskSteps)
    /\ \A r \in Records : /\ WF_taskVars(EndTransfer(r))
                          /\ WF_taskVars(CountTransfer(r))

TaskSpec == TaskInit /\ [][TaskNext]_taskVars /\ TaskFairness

-----------------------------------------------------------------------------
Final == {taskEvents[i] : i \in {j \in DOMAIN taskEvents : taskEvents[j].complete}}
Ended(outcome) == {r \in tracked : xfer[r] = outcome}

EventsAgree == \A r \in Records : Cardinality(jobEvents[r]) <= 1

(***************************************************************************)
(* However the records were skipped, lost on the way or late in the        *)
(* summary: the counts of the task result add up to its files, none is     *)
(* negative, no file is called finished that is not, and every file that   *)
(* failed or was never scheduled is among the failed ones.  And the events *)
(* of a file do not contradict each other.                                 *)
(***************************************************************************)
ResultAddsUp ==
    /\ EventsAgree
    /\ \A e \in Final :
        /\ e.files = e.skipped + e.finished + e.failed
        /\ e.finished \in 0..Cardinality(Ended("success"))
        /\ e.skipped \in skippedDel..(skippedDel + Cardinality(Ended("skipped")))
        /\ e.failed >= Cardinality(Ended("failed"))
                       + Cardinality({r \in Ended("none") : "skipped" \notin jobEvents[r]})

(***************************************************************************)
(* A blob is deleted only when its source was really missing at the time   *)
(* the task looked.                                                        *)
(***************************************************************************)
DeletedOnlyWhenGone ==
    \A r \in Records : taskType = "DeltaDelete" /\ xfer[r] = "success" => r \in gone

(***************************************************************************)
(* A task comes to its end, also when there is nothing to do, but for two  *)
(* of its scans: one that panics over the length of its error ends the     *)
(* program before the result is sent, and one of a bucket that cannot be   *)
(* listed goes on for ever (two flaws: see the README).                    *)
(***************************************************************************)
TaskEnds ==
    <>(\/ taskPc = "exit"
       \/ taskType = "DeltaDelete" /\ taskPc = "crashed"
       \/ taskType = "Full" /\ taskPc = "spinning")

=============================================================================
