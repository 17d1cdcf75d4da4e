---------------------------- MODULE JobMgr_proofs ----------------------------
(* Proofs that JobMgr keeps its types, completes a job at most once and,   *)
(* unless it is cancelled, only after the whole job has reported; and that *)
(* the last summary then counts every transfer.                            *)
EXTENDS JobMgrInv, JobSummary, FiniteSetTheorems, TLAPS

(***************************************************************************)
(* Type correctness.                                                       *)
(***************************************************************************)
LEMMA InitTypeOK == Init => TypeOK
<1> SUFFICES ASSUME Init PROVE TypeOK
  OBVIOUS
<1>1. 0 \in Parts /\ 0 \in 0..MaxCancels
  BY JobShape, RequestDomain DEF Parts
<1>2. NoProgress \in Progress
  BY DEF Progress, NoProgress
<1>3. "InProgress" \in JobStatuses
  BY DEF JobStatuses
<1> QED BY <1>1, <1>2, <1>3 DEF Init, TypeOK, TransferPcs

LEMMA PlusType ==
  ASSUME NEW x \in Progress, NEW y \in Progress
  PROVE  Plus(x, y) \in Progress
  BY DEF Progress, Plus

LEMMA UpdateProgressType ==
  ASSUME NEW x \in Progress, NEW o
  PROVE  UpdateProgress(x, o) \in Progress
<1>1. CASE o = "Success"
  BY <1>1 DEF Progress, UpdateProgress
<1>2. CASE o = "Failed"
  BY <1>2 DEF Progress, UpdateProgress
<1>3. CASE o = "Skipped"
  BY <1>3 DEF Progress, UpdateProgress
<1>4. CASE o \notin {"Success", "Failed", "Skipped"}
  BY <1>4 DEF Progress, UpdateProgress
<1> QED BY <1>1, <1>2, <1>3, <1>4

LEMMA FrontEndTypeOK == TypeOK /\ FrontEnd => TypeOK'
<1> SUFFICES ASSUME TypeOK, FrontEnd PROVE TypeOK'
  OBVIOUS
<1>1. CASE AddJobPart
  BY <1>1 DEF TypeOK, AddJobPart, partVars, handlerVars, cancelVars, drainVars
<1>2. CASE SetFinalPartOrdered
  BY <1>2 DEF TypeOK, SetFinalPartOrdered, partVars, handlerVars, cancelVars, drainVars
<1>3. CASE QueueJobParts
  BY <1>3 DEF TypeOK, QueueJobParts, partVars, handlerVars, cancelVars, drainVars
<1>4. CASE SendJobPartCreatedMsg
  BY <1>4, JobShape
     DEF TypeOK, Parts, SendJobPartCreatedMsg, partVars, handlerVars, cancelVars, drainVars
<1> QED BY <1>1, <1>2, <1>3, <1>4 DEF FrontEnd

LEMMA SchedulerTypeOK == TypeOK /\ Scheduler => TypeOK'
<1> SUFFICES ASSUME TypeOK, Scheduler PROVE TypeOK'
  OBVIOUS
<1>1. CASE \E p \in Parts : StartScheduling(p)
  BY <1>1 DEF TypeOK, StartScheduling, TransfersOf, JobStatuses, DoneStatuses,
              feVars, handlerVars, cancelVars, drainVars
<1>2. CASE \E t \in Transfers : ScheduleTransfer(t)
  BY <1>2 DEF TypeOK, ScheduleTransfer, TransferPcs, feVars, partVars,
              handlerVars, cancelVars, drainVars
<1> QED BY <1>1, <1>2 DEF Scheduler

LEMMA TransferTypeOK ==
  ASSUME NEW t \in Transfers, TypeOK, Transfer(t)
  PROVE  TypeOK'
<1> PartOf[t] \in Parts
  BY JobShape
<1> USE DEF TypeOK, TransferPcs, feVars, handlerVars, cancelVars, drainVars
<1>1. CASE StartTransfer(t)
  BY <1>1 DEF StartTransfer, partVars
<1>2. CASE FinishTransfer(t)
  BY <1>2 DEF FinishTransfer, partVars
<1>3. CASE SendXferDoneMsg(t)
  BY <1>3 DEF SendXferDoneMsg, partVars
<1>4. CASE CountTransfer(t)
  BY <1>4 DEF CountTransfer
<1>5. CASE UpdateJobPartProgress(t)
  <2>1. UpdateProgress(progress[PartOf[t]], outcome[t]) \in Progress
    BY UpdateProgressType
  <2> QED BY <1>5, <2>1 DEF UpdateJobPartProgress
<1>6. CASE OfferPartProgress(t)
  BY <1>6 DEF OfferPartProgress
<1> QED BY <1>1, <1>2, <1>3, <1>4, <1>5, <1>6 DEF Transfer

LEMMA FinalJobStatusType ==
  ASSUME TypeOK, SetFinalJobStatus
  PROVE  jobStatus' \in DoneStatuses \/ jobStatus' = jobStatus
<1> DEFINE final == EnhanceJobStatusInfo(jobProgress.skipped > 0,
                       jobProgress.failed > 0, jobProgress.completed > 0)
<1>1. final \in DoneStatuses
  BY DEF EnhanceJobStatusInfo, DoneStatuses
<1>2. "Cancelled" \in DoneStatuses
  BY DEF DoneStatuses
<1> HIDE DEF final
<1>3. jobStatus' = CASE hStatus = "Cancelling" -> "Cancelled"
                      [] hStatus = "InProgress" -> final
                      [] OTHER -> jobStatus
  BY Zenon DEF SetFinalJobStatus, final
<1> QED BY <1>1, <1>2, <1>3

LEMMA HandlerTypeOK ==
  TypeOK /\ (HandlerSteps \/ \E t \in Transfers : ReceivePartDone(t)) => TypeOK'
<1> SUFFICES ASSUME TypeOK,
                    HandlerSteps \/ \E t \in Transfers : ReceivePartDone(t)
             PROVE  TypeOK'
  OBVIOUS
<1> USE DEF TypeOK, feVars, partVars, cancelVars, drainVars
<1>1. CASE \E t \in Transfers : ReceivePartDone(t)
  <2> PICK t \in Transfers : ReceivePartDone(t)
    BY <1>1
  <2>1. Plus(jobProgress, report[PartOf[t]]) \in Progress
    BY PlusType, JobShape
  <2> QED BY <2>1 DEF ReceivePartDone, TransferPcs
<1>2. CASE LoadFinalPartOrdered
  BY <1>2 DEF LoadFinalPartOrdered
<1>3. CASE DecideCompletion
  BY <1>3 DEF DecideCompletion
<1>4. CASE CloseXferDone
  BY <1>4 DEF CloseXferDone
<1>5. CASE WaitToDrainXferDone
  BY <1>5 DEF WaitToDrainXferDone
<1>6. CASE ReadJobStatus
  BY <1>6 DEF ReadJobStatus
<1>7. CASE SetFinalJobStatus
  <2>1. jobStatus' \in JobStatuses
    BY <1>7, FinalJobStatusType DEF JobStatuses
  <2> QED BY <1>7, <2>1 DEF SetFinalJobStatus, ResetCounters, Progress, NoProgress
<1> QED BY <1>1, <1>2, <1>3, <1>4, <1>5, <1>6, <1>7 DEF HandlerSteps

LEMMA CancelTypeOK == TypeOK /\ CancelPauseJobOrder => TypeOK'
<1> SUFFICES ASSUME TypeOK, CancelPauseJobOrder PROVE TypeOK'
  OBVIOUS
<1> USE DEF TypeOK, feVars, partVars, handlerVars, drainVars
<1>1. CASE \E d \in DesiredStatuses : ReadStatusToCancel(d)
  BY <1>1, RequestDomain DEF ReadStatusToCancel
<1>2. CASE StoreDesiredStatus
  BY <1>2, RequestDomain DEF StoreDesiredStatus, JobStatuses
<1>3. CASE CancelContext
  BY <1>3 DEF CancelContext
<1> QED BY <1>1, <1>2, <1>3 DEF CancelPauseJobOrder

LEMMA StatusManagerTypeOK == TypeOK /\ StatusManager => TypeOK'
<1> SUFFICES ASSUME TypeOK, StatusManager PROVE TypeOK'
  OBVIOUS
<1> USE DEF TypeOK, feVars, partVars, handlerVars, cancelVars
<1>1. CASE \E t \in Transfers : TakeXferDone(t)
  BY <1>1 DEF TakeXferDone
<1>2. CASE DrainXferDone
  BY <1>2 DEF DrainXferDone
<1> QED BY <1>1, <1>2 DEF StatusManager

LEMMA NextTypeOK == TypeOK /\ [Next]_vars => TypeOK'
<1> SUFFICES ASSUME TypeOK, [Next]_vars PROVE TypeOK'
  OBVIOUS
<1>1. CASE Steps
  BY <1>1, FrontEndTypeOK, SchedulerTypeOK, TransferTypeOK, HandlerTypeOK,
     CancelTypeOK, StatusManagerTypeOK DEF Steps
<1>2. CASE UNCHANGED vars
  BY <1>2 DEF vars, TypeOK, feVars, partVars, handlerVars, cancelVars, drainVars
<1> QED BY <1>1, <1>2 DEF Next, Terminated

\* Every variable keeps its type, however many parts, transfers and
\* cancellations the job has.
THEOREM TypeCorrect == Spec => []TypeOK
  BY InitTypeOK, NextTypeOK, PTL DEF Spec

(***************************************************************************)
(* Frames: what each goroutine leaves alone.                               *)
(***************************************************************************)
LEMMA FrontEndFrame ==
  ASSUME \/ Scheduler \/ StatusManager \/ HandlerSteps \/ CancelPauseJobOrder
         \/ \E t \in Transfers : Transfer(t) \/ ReceivePartDone(t)
  PROVE  UNCHANGED <<fePc, fePart, jobPartMgrs, finalPartOrdered>>
<1> USE DEF feVars
<1>1. CASE Scheduler
  BY <1>1 DEF Scheduler, StartScheduling, ScheduleTransfer
<1>2. CASE StatusManager
  BY <1>2 DEF StatusManager, TakeXferDone, DrainXferDone
<1>3. CASE HandlerSteps
  BY <1>3 DEF HandlerSteps, LoadFinalPartOrdered, DecideCompletion, CloseXferDone,
              WaitToDrainXferDone, ReadJobStatus, SetFinalJobStatus
<1>4. CASE CancelPauseJobOrder
  BY <1>4 DEF CancelPauseJobOrder, ReadStatusToCancel, StoreDesiredStatus, CancelContext
<1>5. CASE \E t \in Transfers : Transfer(t) \/ ReceivePartDone(t)
  BY <1>5 DEF Transfer, StartTransfer, FinishTransfer, SendXferDoneMsg, CountTransfer,
              UpdateJobPartProgress, OfferPartProgress, ReceivePartDone
<1> QED BY <1>1, <1>2, <1>3, <1>4, <1>5

LEMMA TransferFrame ==
  ASSUME FrontEnd \/ StatusManager \/ HandlerSteps \/ CancelPauseJobOrder
  PROVE  UNCHANGED <<tpc, toSchedule, transfersDone>>
<1> USE DEF partVars
<1>1. CASE FrontEnd
  BY <1>1 DEF FrontEnd, AddJobPart, SetFinalPartOrdered, QueueJobParts,
              SendJobPartCreatedMsg
<1>2. CASE StatusManager
  BY <1>2 DEF StatusManager, TakeXferDone, DrainXferDone
<1>3. CASE HandlerSteps
  BY <1>3 DEF HandlerSteps, LoadFinalPartOrdered, DecideCompletion, CloseXferDone,
              WaitToDrainXferDone, ReadJobStatus, SetFinalJobStatus
<1>4. CASE CancelPauseJobOrder
  BY <1>4 DEF CancelPauseJobOrder, ReadStatusToCancel, StoreDesiredStatus, CancelContext
<1> QED BY <1>1, <1>2, <1>3, <1>4

LEMMA HandlerFrame ==
  ASSUME \/ FrontEnd \/ Scheduler \/ StatusManager \/ CancelPauseJobOrder
         \/ \E t \in Transfers : Transfer(t)
  PROVE  UNCHANGED <<hPc, hStatus, hHaveFinal, partsDone, xferDoneClosed>>
<1> USE DEF handlerVars, drainVars
<1>1. CASE FrontEnd
  BY <1>1 DEF FrontEnd, AddJobPart, SetFinalPartOrdered, QueueJobParts,
              SendJobPartCreatedMsg
<1>2. CASE Scheduler
  BY <1>2 DEF Scheduler, StartScheduling, ScheduleTransfer
<1>3. CASE StatusManager
  BY <1>3 DEF StatusManager, TakeXferDone, DrainXferDone
<1>4. CASE CancelPauseJobOrder
  BY <1>4 DEF CancelPauseJobOrder, ReadStatusToCancel, StoreDesiredStatus, CancelContext
<1>5. CASE \E t \in Transfers : Transfer(t)
  BY <1>5 DEF Transfer, StartTransfer, FinishTransfer, SendXferDoneMsg, CountTransfer,
              UpdateJobPartProgress, OfferPartProgress
<1> QED BY <1>1, <1>2, <1>3, <1>4, <1>5

LEMMA CancelFrame ==
  ASSUME \/ FrontEnd \/ Scheduler \/ StatusManager \/ HandlerSteps
         \/ \E t \in Transfers : Transfer(t) \/ ReceivePartDone(t)
  PROVE  UNCHANGED <<cPc, cDesired, cancels>>
<1> USE DEF cancelVars
<1>1. CASE FrontEnd
  BY <1>1 DEF FrontEnd, AddJobPart, SetFinalPartOrdered, QueueJobParts,
              SendJobPartCreatedMsg
<1>2. CASE Scheduler
  BY <1>2 DEF Scheduler, StartScheduling, ScheduleTransfer
<1>3. CASE StatusManager
  BY <1>3 DEF StatusManager, TakeXferDone, DrainXferDone
<1>4. CASE HandlerSteps
  BY <1>4 DEF HandlerSteps, LoadFinalPartOrdered, DecideCompletion, CloseXferDone,
              WaitToDrainXferDone, ReadJobStatus, SetFinalJobStatus
<1>5. CASE \E t \in Transfers : Transfer(t) \/ ReceivePartDone(t)
  BY <1>5 DEF Transfer, StartTransfer, FinishTransfer, SendXferDoneMsg, CountTransfer,
              UpdateJobPartProgress, OfferPartProgress, ReceivePartDone
<1> QED BY <1>1, <1>2, <1>3, <1>4, <1>5

LEMMA PanicFrame ==
  ASSUME Steps
  PROVE  /\ \/ panic' \in {panic, "orderedAfterFinal", "closeOfClosed"}
            \/ \E t \in Transfers : SendXferDoneMsg(t)
         /\ \/ panic' # "closeOfClosed"
            \/ panic' = panic
            \/ hPc = "close" /\ xferDoneClosed
<1>1. CASE FrontEnd
  BY <1>1 DEF FrontEnd, AddJobPart, SetFinalPartOrdered, QueueJobParts,
              SendJobPartCreatedMsg
<1>2. CASE Scheduler
  BY <1>2 DEF Scheduler, StartScheduling, ScheduleTransfer
<1>3. CASE StatusManager
  BY <1>3 DEF StatusManager, TakeXferDone, DrainXferDone
<1>4. CASE HandlerSteps
  BY <1>4 DEF HandlerSteps, LoadFinalPartOrdered, DecideCompletion, CloseXferDone,
              WaitToDrainXferDone, ReadJobStatus, SetFinalJobStatus
<1>5. CASE CancelPauseJobOrder
  BY <1>5 DEF CancelPauseJobOrder, ReadStatusToCancel, StoreDesiredStatus, CancelContext
<1>6. CASE \E t \in Transfers : SendXferDoneMsg(t)
  BY <1>6 DEF SendXferDoneMsg
<1>7. CASE \E t \in Transfers : (Transfer(t) /\ ~SendXferDoneMsg(t)) \/ ReceivePartDone(t)
  BY <1>7 DEF Transfer, StartTransfer, FinishTransfer, CountTransfer,
              UpdateJobPartProgress, OfferPartProgress, ReceivePartDone
<1> QED BY <1>1, <1>2, <1>3, <1>4, <1>5, <1>6, <1>7 DEF Steps

(***************************************************************************)
(* Ordering and scheduling.                                                *)
(***************************************************************************)
LEMMA FrontEndInvStep == IndInv /\ Steps => FrontEndInv'
<1> SUFFICES ASSUME IndInv, Steps PROVE FrontEndInv'
  OBVIOUS
<1> USE JobShape DEF IndInv, TypeOK, FrontEndInv, Parts
<1>1. CASE AddJobPart
  BY <1>1 DEF AddJobPart
<1>2. CASE SetFinalPartOrdered
  BY <1>2 DEF SetFinalPartOrdered
<1>3. CASE QueueJobParts
  BY <1>3 DEF QueueJobParts
<1>4. CASE SendJobPartCreatedMsg
  BY <1>4 DEF SendJobPartCreatedMsg
<1>5. CASE UNCHANGED <<fePc, fePart, jobPartMgrs, finalPartOrdered>>
  BY <1>5
<1> QED BY <1>1, <1>2, <1>3, <1>4, <1>5, FrontEndFrame DEF Steps, FrontEnd

\* Only QueueJobParts takes a part out of Unqueued.
LEMMA UnqueuedStep ==
  ASSUME TypeOK, FrontEnd, ~QueueJobParts
  PROVE  Unqueued' = Unqueued /\ partsCh' = partsCh
<1> USE JobShape DEF TypeOK, Unqueued, Parts
<1>1. CASE AddJobPart
  BY <1>1 DEF AddJobPart
<1>2. CASE SetFinalPartOrdered
  BY <1>2 DEF SetFinalPartOrdered
<1>3. CASE SendJobPartCreatedMsg
  BY <1>3 DEF SendJobPartCreatedMsg
<1> QED BY <1>1, <1>2, <1>3 DEF FrontEnd

LEMMA ScheduleInvStep == IndInv /\ Steps => ScheduleInv'
<1> SUFFICES ASSUME IndInv, Steps PROVE ScheduleInv'
  OBVIOUS
<1> USE DEF IndInv, ScheduleInv
<1>1. CASE FrontEnd /\ ~QueueJobParts
  BY <1>1, UnqueuedStep, TransferFrame
<1>2. CASE QueueJobParts
  <2>1. Unqueued' = Unqueued \ {fePart} /\ partsCh' = partsCh \union {fePart}
    BY <1>2, JobShape DEF QueueJobParts, Unqueued, Parts, TypeOK
  <2>2. fePart \in Unqueued
    BY <1>2, JobShape DEF QueueJobParts, Unqueued, TypeOK
  <2> QED BY <1>2, <2>1, <2>2, TransferFrame DEF FrontEnd
<1>3. CASE \E p \in Parts : StartScheduling(p)
  <2> PICK p \in Parts : StartScheduling(p)
    BY <1>3
  <2>1. Unqueued' = Unqueued
    BY FrontEndFrame, <1>3 DEF Unqueued, Scheduler
  <2> QED BY <2>1, JobShape DEF StartScheduling, TransfersOf
<1>4. CASE \E t \in Transfers : ScheduleTransfer(t)
  <2> PICK t \in Transfers : ScheduleTransfer(t)
    BY <1>4
  <2>1. Unqueued' = Unqueued
    BY FrontEndFrame, <1>4 DEF Unqueued, Scheduler
  <2>2. PartOf[t] \notin Unqueued \union partsCh
    BY DEF ScheduleTransfer
  <2> QED BY <2>1, <2>2 DEF ScheduleTransfer, TypeOK
<1>5. CASE \E t \in Transfers : Transfer(t) \/ ReceivePartDone(t)
  <2> PICK t \in Transfers : Transfer(t) \/ ReceivePartDone(t)
    BY <1>5
  <2>1. Unqueued' = Unqueued
    BY FrontEndFrame, <1>5 DEF Unqueued
  <2>2. UNCHANGED <<partsCh, toSchedule>> /\ tpc[t] # "new"
    BY DEF Transfer, StartTransfer, FinishTransfer, SendXferDoneMsg, CountTransfer,
           UpdateJobPartProgress, OfferPartProgress, ReceivePartDone
  <2>3. \A u \in Transfers \ {t} : tpc'[u] = tpc[u]
    BY DEF Transfer, StartTransfer, FinishTransfer, SendXferDoneMsg, CountTransfer,
           UpdateJobPartProgress, OfferPartProgress, ReceivePartDone, TypeOK
  <2> QED BY <2>1, <2>2, <2>3 DEF TypeOK
<1>6. CASE StatusManager \/ HandlerSteps \/ CancelPauseJobOrder
  <2>1. Unqueued' = Unqueued
    BY FrontEndFrame, <1>6 DEF Unqueued
  <2>2. partsCh' = partsCh
    BY <1>6 DEF StatusManager, TakeXferDone, DrainXferDone,
                HandlerSteps, LoadFinalPartOrdered, DecideCompletion, CloseXferDone,
                WaitToDrainXferDone, ReadJobStatus, SetFinalJobStatus,
                CancelPauseJobOrder, ReadStatusToCancel, StoreDesiredStatus, CancelContext
  <2> QED BY <1>6, <2>1, <2>2, TransferFrame
<1> QED BY <1>1, <1>2, <1>3, <1>4, <1>5, <1>6 DEF Steps, Scheduler

(***************************************************************************)
(* Counting.                                                               *)
(***************************************************************************)
LEMMA CountedFinite ==
  ASSUME NEW p \in Parts
  PROVE  /\ IsFiniteSet(TransfersOf(p)) /\ IsFiniteSet(Counted(p))
         /\ Counted(p) \subseteq TransfersOf(p)
<1>1. TransfersOf(p) \in SUBSET Transfers /\ Counted(p) \in SUBSET TransfersOf(p)
  BY DEF TransfersOf, Counted
<1>2. IsFiniteSet(TransfersOf(p))
  BY <1>1, JobShape, FS_Subset
<1> QED BY <1>1, <1>2, FS_Subset

LEMMA PartsFinite == IsFiniteSet(Parts)
  BY FS_Interval, JobShape DEF Parts

\* A step of one transfer that neither counts nor uncounts it.
LEMMA CountedUnchanged ==
  ASSUME NEW t \in Transfers, TypeOK, NEW pc,
         tpc' = [tpc EXCEPT ![t] = pc],
         tpc[t] \in CountedPcs <=> pc \in CountedPcs
  PROVE  \A p \in Parts : Counted(p)' = Counted(p)
  BY DEF Counted, TypeOK

\* A step of one transfer that neither leaves nor enters the last places.
LEMMA CountInvKept ==
  ASSUME NEW t \in Transfers, IndInv, NEW pc,
         tpc' = [tpc EXCEPT ![t] = pc], transfersDone' = transfersDone,
         tpc[t] \in CountedPcs <=> pc \in CountedPcs,
         pc \in LastPcs => tpc[t] \in LastPcs
  PROVE  CountInv'
<1> USE DEF IndInv, TypeOK
<1>1. \A p \in Parts : Counted(p)' = Counted(p) /\ TransfersOf(p)' = TransfersOf(p)
  BY CountedUnchanged DEF TransfersOf
<1>2. \A u \in Transfers : tpc'[u] \in LastPcs => tpc[u] \in LastPcs
  OBVIOUS
<1> HIDE DEF TypeOK
<1>3. \A u \in Transfers : PartOf[u] \in Parts
  BY JobShape
<1> QED BY <1>1, <1>2, <1>3 DEF CountInv

LEMMA CountInvStep == IndInv /\ Steps => CountInv'
<1> SUFFICES ASSUME IndInv, Steps PROVE CountInv'
  OBVIOUS
<1> USE DEF IndInv
<1>1. CASE FrontEnd \/ StatusManager \/ HandlerSteps \/ CancelPauseJobOrder
  <2> UNCHANGED <<tpc, transfersDone>>
    BY <1>1, TransferFrame
  <2> QED BY DEF CountInv, Counted
<1>2. CASE \E p \in Parts : StartScheduling(p)
  <2> PICK p \in Parts : StartScheduling(p)
    BY <1>2
  <2>1. UNCHANGED tpc /\ transfersDone' = [transfersDone EXCEPT ![p] = 0]
    BY DEF StartScheduling
  <2>2. Counted(p) = {}
    BY JobShape DEF StartScheduling, ScheduleInv, Counted, CountedPcs, TransfersOf
  <2>3. transfersDone[p] = 0
    BY <2>2, FS_EmptySet DEF CountInv
  <2>4. transfersDone' = transfersDone
    BY <2>1, <2>3 DEF TypeOK
  <2> QED BY <2>1, <2>4 DEF CountInv, Counted
<1>3. CASE \E t \in Transfers : ScheduleTransfer(t)
  <2> PICK t \in Transfers : ScheduleTransfer(t)
    BY <1>3
  <2>1. tpc[t] = "new" /\ tpc' = [tpc EXCEPT ![t] = "queued"]
    BY DEF ScheduleTransfer, ScheduleInv
  <2>2. transfersDone' = transfersDone
    BY DEF ScheduleTransfer, partVars
  <2> QED BY <2>1, <2>2, CountInvKept DEF CountedPcs, LastPcs
<1>4. ASSUME NEW t \in Transfers, CountTransfer(t)
      PROVE  CountInv'
  <2> DEFINE p == PartOf[t]
             last == transfersDone'[p] = Cardinality(TransfersOf(p))
  <2>1. p \in Parts /\ t \in TransfersOf(p)
    BY JobShape DEF TransfersOf
  <2>2. /\ tpc[t] = "sent"
        /\ tpc' = [tpc EXCEPT ![t] = IF last THEN "countedLast" ELSE "counted"]
        /\ transfersDone' = [transfersDone EXCEPT ![p] = @ + 1]
    BY <1>4 DEF CountTransfer
  <2>3. Counted(p)' = Counted(p) \union {t} /\ t \notin Counted(p)
    BY <2>1, <2>2 DEF Counted, CountedPcs, TypeOK, TransfersOf
  <2>4. \A q \in Parts \ {p} : Counted(q)' = Counted(q)
    BY <2>2 DEF Counted, TransfersOf, TypeOK
  <2>5. Cardinality(Counted(p)') = Cardinality(Counted(p)) + 1
    BY <2>1, <2>3, CountedFinite, FS_AddElement
  <2>6. \A q \in Parts : transfersDone'[q] = Cardinality(Counted(q)')
    BY <2>1, <2>2, <2>4, <2>5 DEF CountInv, TypeOK
  <2>7. last => Counted(p)' = TransfersOf(p)
    <3> SUFFICES ASSUME last PROVE Counted(p)' = TransfersOf(p)
      OBVIOUS
    <3>1. Cardinality(Counted(p)') = Cardinality(TransfersOf(p))
      BY <2>1, <2>6
    <3>2. Counted(p)' \in SUBSET TransfersOf(p)
      BY <2>1, <2>3, CountedFinite
    <3> QED BY <2>1, <3>1, <3>2, CountedFinite, FS_Subset
  <2>8. \A u \in Transfers : tpc[u] \in LastPcs => PartOf[u] # p
    BY <2>1, <2>3 DEF CountInv
  <2>9. \A u \in Transfers : tpc'[u] \in LastPcs =>
           \/ u = t /\ last
           \/ u # t /\ tpc[u] \in LastPcs
    BY <2>2 DEF LastPcs, TypeOK
  <2>10. \A u \in Transfers : TransfersOf(PartOf[u])' = TransfersOf(PartOf[u])
                               /\ PartOf[u] \in Parts
    BY JobShape DEF TransfersOf
  <2> HIDE DEF last
  <2> QED BY <2>4, <2>6, <2>7, <2>8, <2>9, <2>10 DEF CountInv
<1>5. ASSUME NEW t \in Transfers, Transfer(t) \/ ReceivePartDone(t), ~CountTransfer(t)
      PROVE  CountInv'
  <2> USE DEF CountedPcs, LastPcs
  <2>1. transfersDone' = transfersDone
    BY <1>5 DEF Transfer, StartTransfer, FinishTransfer, SendXferDoneMsg,
                UpdateJobPartProgress, OfferPartProgress, ReceivePartDone, partVars
  <2>2. CASE StartTransfer(t)
    BY <2>1, <2>2, CountInvKept DEF StartTransfer
  <2>3. CASE FinishTransfer(t)
    BY <2>1, <2>3, CountInvKept DEF FinishTransfer
  <2>4. CASE SendXferDoneMsg(t)
    <3>1. CASE tpc' = tpc
      BY <2>1, <3>1 DEF CountInv, Counted
    <3>2. CASE tpc' = [tpc EXCEPT ![t] = "sent"]
      BY <2>1, <2>4, <3>2, CountInvKept DEF SendXferDoneMsg
    <3> QED BY <2>4, <3>1, <3>2 DEF SendXferDoneMsg
  <2>5. CASE UpdateJobPartProgress(t)
    <3>1. PICK pc \in {"last", "done"} : /\ tpc' = [tpc EXCEPT ![t] = pc]
                                         /\ pc = "last" => tpc[t] = "countedLast"
      BY <2>5 DEF UpdateJobPartProgress
    <3>2. tpc[t] \in {"counted", "countedLast"}
      BY <2>5 DEF UpdateJobPartProgress
    <3> QED BY <2>1, <3>1, <3>2, CountInvKept
  <2>6. CASE OfferPartProgress(t)
    BY <2>1, <2>6, CountInvKept DEF OfferPartProgress
  <2>7. CASE ReceivePartDone(t)
    BY <2>1, <2>7, CountInvKept DEF ReceivePartDone
  <2> QED BY <1>5, <2>2, <2>3, <2>4, <2>5, <2>6, <2>7 DEF Transfer
<1> QED BY <1>1, <1>2, <1>3, <1>4, <1>5 DEF Steps, Scheduler

(***************************************************************************)
(* The handler's count of parts.                                           *)
(***************************************************************************)
LEMMA HandledKnown ==
  ASSUME TypeOK, FrontEndInv, ScheduleInv
  PROVE  /\ Handled \subseteq jobPartMgrs
         /\ IsFiniteSet(Handled) /\ Cardinality(Handled) \in Nat
         /\ IsFiniteSet(jobPartMgrs) /\ Cardinality(jobPartMgrs) \in Nat
         /\ Cardinality(Handled) <= Cardinality(jobPartMgrs)
<1>1. Handled \subseteq jobPartMgrs
  <2> SUFFICES ASSUME NEW p \in Handled PROVE p \in jobPartMgrs
    OBVIOUS
  <2>1. PICK t \in TransfersOf(p) : tpc[t] # "new"
    BY DEF Handled, CountedPcs
  <2>2. p \notin Unqueued
    BY <2>1 DEF ScheduleInv, TransfersOf
  <2> QED BY <2>2, JobShape DEF Unqueued, FrontEndInv, Handled, TypeOK, Parts
<1>2. IsFiniteSet(jobPartMgrs)
  BY PartsFinite, FS_Subset DEF TypeOK
<1> QED BY <1>1, <1>2, FS_Subset, FS_CardinalityType

LEMMA HandledUnchanged ==
  ASSUME NEW t \in Transfers, TypeOK, NEW pc,
         tpc' = [tpc EXCEPT ![t] = pc],
         tpc[t] \in CountedPcs \ LastPcs <=> pc \in CountedPcs \ LastPcs
  PROVE  Handled' = Handled
<1>1. \A u \in Transfers : tpc'[u] \in CountedPcs \ LastPcs
                              <=> tpc[u] \in CountedPcs \ LastPcs
  BY DEF TypeOK
<1>2. \A p \in Parts : TransfersOf(p)' = TransfersOf(p) /\ TransfersOf(p) \subseteq Transfers
  BY DEF TransfersOf
<1> QED BY <1>1, <1>2 DEF Handled

\* No step but the receipt of its report makes a part a handled one.
LEMMA TransferHandled ==
  ASSUME IndInv, NEW t \in Transfers, Transfer(t)
  PROVE  Handled' = Handled
<1> USE DEF IndInv
<1>1. CASE CountTransfer(t)
  <2> DEFINE p == PartOf[t]
             last == transfersDone'[p] = Cardinality(TransfersOf(p))
  <2>1. p \in Parts /\ t \in TransfersOf(p)
    BY JobShape DEF TransfersOf
  <2>2. tpc[t] = "sent" /\ tpc' = [tpc EXCEPT ![t] = IF last THEN "countedLast" ELSE "counted"]
    BY <1>1 DEF CountTransfer
  <2>3. CASE last
    BY <2>2, <2>3, HandledUnchanged DEF CountedPcs, LastPcs
  <2>4. CASE ~last
    <3>1. CountInv'
      BY CountInvStep, <1>1 DEF Steps, Transfer
    <3>2. Counted(p)' # TransfersOf(p)
      BY <3>1, <2>1, <2>4 DEF CountInv
    <3>3. p \notin Handled'
      BY <3>2, <2>1 DEF Handled, Counted
    <3>4. p \notin Handled
      BY <2>1, <2>2 DEF Handled, CountedPcs
    <3>5. \A q \in Parts \ {p} : q \in Handled' <=> q \in Handled
      BY <2>1, <2>2 DEF Handled, TransfersOf, TypeOK
    <3> QED BY <3>3, <3>4, <3>5 DEF Handled
  <2> QED BY <2>3, <2>4
<1>2. CASE ~CountTransfer(t)
  <2> USE DEF CountedPcs, LastPcs
  <2>1. CASE StartTransfer(t)
    BY <2>1, HandledUnchanged DEF StartTransfer
  <2>2. CASE FinishTransfer(t)
    BY <2>2, HandledUnchanged DEF FinishTransfer
  <2>3. CASE SendXferDoneMsg(t)
    <3>1. CASE tpc' = tpc
      BY <3>1 DEF Handled
    <3>2. CASE tpc' = [tpc EXCEPT ![t] = "sent"]
      BY <2>3, <3>2, HandledUnchanged DEF SendXferDoneMsg
    <3> QED BY <2>3, <3>1, <3>2 DEF SendXferDoneMsg
  <2>4. CASE UpdateJobPartProgress(t)
    <3>1. CASE tpc[t] = "countedLast"
      BY <2>4, <3>1, HandledUnchanged DEF UpdateJobPartProgress
    <3>2. CASE tpc[t] # "countedLast"
      BY <2>4, <3>2, HandledUnchanged DEF UpdateJobPartProgress
    <3> QED BY <3>1, <3>2
  <2>5. CASE OfferPartProgress(t)
    BY <2>5, HandledUnchanged DEF OfferPartProgress
  <2> QED BY <1>2, <2>1, <2>2, <2>3, <2>4, <2>5 DEF Transfer
<1> QED BY <1>1, <1>2

LEMMA ReceiveHandled ==
  ASSUME IndInv, NEW t \in Transfers, ReceivePartDone(t)
  PROVE  Cardinality(Handled') = Cardinality(Handled) + 1
<1> DEFINE p == PartOf[t]
<1>1. tpc[t] = "reporting" /\ tpc' = [tpc EXCEPT ![t] = "done"]
  BY DEF ReceivePartDone
<1>2. p \in Parts /\ t \in TransfersOf(p)
  BY JobShape DEF TransfersOf
<1>3. \A u \in TransfersOf(p) : tpc[u] \in CountedPcs
  BY <1>1, <1>2 DEF IndInv, CountInv, Counted, LastPcs
<1>4. \A u \in TransfersOf(p) : tpc[u] \in LastPcs => u = t
  BY <1>1 DEF IndInv, CountInv, LastPcs, TransfersOf
<1>5. \A u \in TransfersOf(p) : tpc'[u] \in CountedPcs \ LastPcs
  BY <1>1, <1>3, <1>4 DEF IndInv, TypeOK, CountedPcs, LastPcs, TransfersOf
<1>6. p \in Handled' /\ p \notin Handled
  BY <1>1, <1>2, <1>5 DEF Handled, LastPcs
<1>7. \A q \in Parts \ {p} : q \in Handled' <=> q \in Handled
  BY <1>1, <1>2 DEF Handled, TransfersOf, IndInv, TypeOK
<1>8. Handled' = Handled \union {p}
  BY <1>2, <1>6, <1>7 DEF Handled
<1> QED BY <1>6, <1>8, HandledKnown, FS_AddElement DEF IndInv

\* The handler closes xferDone once only.
LEMMA DecideOpen ==
  ASSUME IndInv, DecideCompletion, ShouldComplete
  PROVE  ~xferDoneClosed /\ partsDone = Cardinality(Handled)
  BY HandledKnown DEF IndInv, TypeOK, HandlerInv, DecideCompletion, ShouldComplete

LEMMA FinalPartOrderedKept == IndInv /\ Steps => (finalPartOrdered => finalPartOrdered')
<1> SUFFICES ASSUME IndInv, Steps, finalPartOrdered PROVE finalPartOrdered'
  OBVIOUS
<1>1. CASE FrontEnd
  BY <1>1 DEF IndInv, FrontEndInv, FrontEnd, AddJobPart, SetFinalPartOrdered,
              QueueJobParts, SendJobPartCreatedMsg
<1> QED BY <1>1, FrontEndFrame DEF Steps

LEMMA HandlerInvStep == IndInv /\ Steps => HandlerInv'
<1> SUFFICES ASSUME IndInv, Steps PROVE HandlerInv'
  OBVIOUS
<1>0. /\ Cardinality(Handled) \in Nat /\ partsDone \in Nat
      /\ finalPartOrdered => finalPartOrdered'
  BY HandledKnown, FinalPartOrderedKept DEF IndInv, TypeOK
<1>1. CASE \/ FrontEnd \/ Scheduler \/ StatusManager \/ CancelPauseJobOrder
           \/ \E t \in Transfers : Transfer(t)
  <2>1. Handled' = Handled
    <3>1. CASE FrontEnd \/ StatusManager \/ CancelPauseJobOrder
      BY <3>1, TransferFrame DEF Handled
    <3>2. CASE \E p \in Parts : StartScheduling(p)
      BY <3>2 DEF StartScheduling, Handled
    <3>3. CASE \E t \in Transfers : ScheduleTransfer(t)
      BY <3>3, HandledUnchanged
         DEF ScheduleTransfer, IndInv, ScheduleInv, CountedPcs, LastPcs
    <3>4. CASE \E t \in Transfers : Transfer(t)
      BY <3>4, TransferHandled
    <3> QED BY <1>1, <3>1, <3>2, <3>3, <3>4 DEF Scheduler
  <2> QED BY <1>0, <1>1, <2>1, HandlerFrame DEF HandlerInv, IndInv
<1>2. CASE \E t \in Transfers : ReceivePartDone(t)
  <2> PICK t \in Transfers : ReceivePartDone(t)
    BY <1>2
  <2>1. Cardinality(Handled') = Cardinality(Handled) + 1
    BY ReceiveHandled
  <2> QED BY <1>0, <2>1 DEF ReceivePartDone, HandlerInv, IndInv, drainVars
<1>3. CASE HandlerSteps
  <2>0. Handled' = Handled
    BY <1>3, TransferFrame DEF Handled
  <2> USE DEF HandlerInv, IndInv, drainVars
  <2>1. CASE LoadFinalPartOrdered
    BY <1>0, <2>0, <2>1 DEF LoadFinalPartOrdered
  <2>2. CASE DecideCompletion
    <3>1. CASE ShouldComplete
      BY <1>0, <2>0, <2>2, <3>1, DecideOpen DEF DecideCompletion
    <3>2. CASE ~ShouldComplete
      BY <1>0, <2>0, <2>2, <3>2 DEF DecideCompletion
    <3> QED BY <3>1, <3>2
  <2>3. CASE CloseXferDone
    BY <1>0, <2>0, <2>3 DEF CloseXferDone
  <2>4. CASE WaitToDrainXferDone
    BY <1>0, <2>0, <2>4 DEF WaitToDrainXferDone
  <2>5. CASE ReadJobStatus
    BY <1>0, <2>0, <2>5 DEF ReadJobStatus
  <2>6. CASE SetFinalJobStatus
    <3>1. /\ partsDone' = 0 /\ hPc = "store" /\ hPc' = "recv"
          /\ UNCHANGED <<xferDoneClosed, hHaveFinal>>
      BY <2>6 DEF SetFinalJobStatus, ResetCounters
    <3> QED BY <1>0, <2>0, <3>1
  <2> QED BY <1>3, <2>1, <2>2, <2>3, <2>4, <2>5, <2>6 DEF HandlerSteps
<1> QED BY <1>1, <1>2, <1>3 DEF Steps

(***************************************************************************)
(* Cancellation and completion.                                            *)
(***************************************************************************)
LEMMA NeverCancelledBefore == IndInv /\ Steps => (NeverCancelled' => NeverCancelled)
<1> SUFFICES ASSUME IndInv, Steps, NeverCancelled' PROVE NeverCancelled
  OBVIOUS
<1>1. CASE CancelPauseJobOrder
  BY <1>1, RequestDomain
     DEF CancelPauseJobOrder, ReadStatusToCancel, StoreDesiredStatus, CancelContext,
         NeverCancelled, IndInv, TypeOK
<1> QED BY <1>1, CancelFrame DEF Steps, NeverCancelled

LEMMA CancelInvStep == IndInv /\ Steps => CancelInv'
<1> SUFFICES ASSUME IndInv, Steps PROVE CancelInv'
  OBVIOUS
<1> USE DEF CancelInv, IndInv
<1>0. NeverCancelled' => NeverCancelled
  BY NeverCancelledBefore
<1>1. CASE CancelPauseJobOrder
  <2>1. UNCHANGED hStatus
    BY <1>1, HandlerFrame
  <2>2. CASE \E d \in DesiredStatuses : ReadStatusToCancel(d)
    BY <1>0, <2>1, <2>2 DEF ReadStatusToCancel, TypeOK
  <2>3. CASE StoreDesiredStatus
    BY <1>0, <2>1, <2>3 DEF StoreDesiredStatus, NeverCancelled, TypeOK
  <2>4. CASE CancelContext
    BY <1>0, <2>1, <2>4 DEF CancelContext
  <2> QED BY <1>1, <2>2, <2>3, <2>4 DEF CancelPauseJobOrder
<1>2. CASE ~CancelPauseJobOrder
  <2>1. UNCHANGED <<cPc, cancels>>
    BY <1>2, CancelFrame DEF Steps
  <2>2. CASE SetFinalJobStatus
    <3>1. jobStatus' \in DoneStatuses \/ jobStatus' = jobStatus
      BY <2>2, FinalJobStatusType
    <3> QED BY <1>0, <2>1, <2>2, <3>1 DEF SetFinalJobStatus, DoneStatuses
  <2>3. CASE \E p \in Parts : StartScheduling(p)
    BY <1>0, <2>1, <2>3 DEF StartScheduling, handlerVars
  <2>4. CASE ~SetFinalJobStatus /\ ~\E p \in Parts : StartScheduling(p)
    <3>1. jobStatus' = jobStatus
      <4>1. CASE FrontEnd
        BY <4>1 DEF FrontEnd, AddJobPart, SetFinalPartOrdered, QueueJobParts,
                    SendJobPartCreatedMsg
      <4>2. CASE \E t \in Transfers : ScheduleTransfer(t) \/ Transfer(t) \/ ReceivePartDone(t)
        BY <4>2 DEF ScheduleTransfer, Transfer, StartTransfer, FinishTransfer,
                    SendXferDoneMsg, CountTransfer, UpdateJobPartProgress,
                    OfferPartProgress, ReceivePartDone
      <4>3. CASE HandlerSteps
        BY <2>4, <4>3 DEF HandlerSteps, LoadFinalPartOrdered, DecideCompletion,
                          CloseXferDone, WaitToDrainXferDone, ReadJobStatus
      <4>4. CASE StatusManager
        BY <4>4 DEF StatusManager, TakeXferDone, DrainXferDone
      <4> QED BY <1>2, <2>4, <4>1, <4>2, <4>3, <4>4 DEF Steps, Scheduler
    <3>2. hStatus' \in {hStatus, jobStatus}
      <4>1. CASE \E t \in Transfers : ReceivePartDone(t)
        BY <4>1 DEF ReceivePartDone
      <4>2. CASE HandlerSteps
        BY <2>4, <4>2 DEF HandlerSteps, LoadFinalPartOrdered, DecideCompletion,
                          CloseXferDone, WaitToDrainXferDone, ReadJobStatus
      <4> QED BY <1>2, <4>1, <4>2, HandlerFrame DEF Steps
    <3> QED BY <1>0, <2>1, <3>1, <3>2
  <2> QED BY <2>2, <2>3, <2>4
<1> QED BY <1>1, <1>2

LEMMA WholeJobReportedKept == IndInv /\ Steps /\ WholeJobReported => WholeJobReported'
<1> SUFFICES ASSUME IndInv, Steps, WholeJobReported PROVE WholeJobReported'
  OBVIOUS
<1> USE DEF IndInv, WholeJobReported
<1>1. jobPartMgrs' = Parts
  <2>1. CASE FrontEnd
    BY <2>1 DEF FrontEnd, AddJobPart, SetFinalPartOrdered, QueueJobParts,
                SendJobPartCreatedMsg, TypeOK
  <2> QED BY <2>1, FrontEndFrame DEF Steps
<1>2. \A t \in Transfers : tpc'[t] \in Reported
  <2> USE DEF Reported
  <2>1. CASE \E u \in Transfers : Transfer(u) \/ ReceivePartDone(u)
    BY <2>1 DEF Transfer, StartTransfer, FinishTransfer, SendXferDoneMsg, CountTransfer,
                UpdateJobPartProgress, OfferPartProgress, ReceivePartDone, TypeOK
  <2>2. CASE Scheduler
    BY <2>2 DEF Scheduler, StartScheduling, ScheduleTransfer, ScheduleInv
  <2> QED BY <2>1, <2>2, TransferFrame DEF Steps
<1> QED BY <1>1, <1>2

\* The counting argument: when the handler decides to complete a job nobody
\* cancels, the parts it has handled are all parts.
LEMMA DecideWholeJob ==
  ASSUME IndInv, DecideCompletion, ShouldComplete, NeverCancelled
  PROVE  WholeJobReported
<1> USE DEF IndInv
<1>1. finalPartOrdered
  BY DEF DecideCompletion, ShouldComplete, HandlerInv, CancelInv
<1>2. jobPartMgrs = Parts
  BY <1>1, JobShape DEF FrontEndInv, Parts, TypeOK
<1>3. Cardinality(Handled) = Cardinality(jobPartMgrs)
  BY DecideOpen DEF ShouldComplete
<1>4. Handled = Parts
  BY <1>2, <1>3, HandledKnown, FS_Subset
<1>5. \A t \in Transfers : PartOf[t] \in Handled /\ t \in TransfersOf(PartOf[t])
  BY <1>4, JobShape DEF TransfersOf
<1>6. \A t \in Transfers : tpc[t] \in CountedPcs
  BY <1>5 DEF Handled
<1> QED BY <1>2, <1>6 DEF WholeJobReported, Reported, CountedPcs

LEMMA CloseInvStep == IndInv /\ Steps => CloseInv'
<1> SUFFICES ASSUME IndInv, Steps PROVE CloseInv'
  OBVIOUS
<1> USE DEF IndInv, CloseInv
<1>1. (hPc' = "close" \/ xferDoneClosed') /\ NeverCancelled' => WholeJobReported'
  <2> SUFFICES ASSUME hPc' = "close" \/ xferDoneClosed', NeverCancelled
               PROVE  WholeJobReported'
    BY NeverCancelledBefore
  <2>1. CASE DecideCompletion /\ ShouldComplete
    BY <2>1, DecideWholeJob, WholeJobReportedKept
  <2>2. CASE ~(DecideCompletion /\ ShouldComplete)
    <3>1. hPc = "close" \/ xferDoneClosed
      <4>1. CASE HandlerSteps
        BY <2>2, <4>1 DEF HandlerSteps, LoadFinalPartOrdered, DecideCompletion,
             CloseXferDone, WaitToDrainXferDone, ReadJobStatus, SetFinalJobStatus, drainVars
      <4>2. CASE \E t \in Transfers : ReceivePartDone(t)
        BY <4>2 DEF ReceivePartDone, drainVars
      <4> QED BY <4>1, <4>2, HandlerFrame DEF Steps
    <3> QED BY <3>1, WholeJobReportedKept
  <2> QED BY <2>1, <2>2
<1>2. SendFailsOnlyWhenCancelled'
  <2> USE DEF SendFailsOnlyWhenCancelled
  <2>1. CASE panic' = panic
    BY <2>1, NeverCancelledBefore
  <2>2. CASE \E t \in Transfers : SendXferDoneMsg(t)
    <3> PICK t \in Transfers : SendXferDoneMsg(t)
      BY <2>2
    <3>1. ~WholeJobReported
      BY DEF SendXferDoneMsg, WholeJobReported, Reported
    <3>2. panic' = panic \/ xferDoneClosed
      BY DEF SendXferDoneMsg
    <3> QED BY <2>1, <3>1, <3>2, NeverCancelledBefore
  <2>3. CASE panic' \in {"orderedAfterFinal", "closeOfClosed"}
    BY <2>3
  <2>4. panic' \in {panic, "orderedAfterFinal", "closeOfClosed"}
           \/ \E t \in Transfers : SendXferDoneMsg(t)
    BY PanicFrame
  <2> QED BY <2>1, <2>2, <2>3, <2>4
<1>3. CompletesAtMostOnce'
  <2>1. panic' # "closeOfClosed" \/ panic' = panic \/ (hPc = "close" /\ xferDoneClosed)
    BY PanicFrame
  <2> QED BY <2>1 DEF CompletesAtMostOnce, HandlerInv
<1> QED BY <1>1, <1>2, <1>3

(***************************************************************************)
(* The invariant and what follows from it.                                 *)
(***************************************************************************)
LEMMA InitIndInv == Init => IndInv
<1> SUFFICES ASSUME Init PROVE IndInv
  OBVIOUS
<1> USE DEF Init
<1>1. TypeOK
  BY InitTypeOK
<1>2. FrontEndInv
  BY JobShape DEF FrontEndInv, Parts
<1>3. ScheduleInv
  BY DEF ScheduleInv
<1>4. CountInv
  <2>1. \A p \in Parts : Counted(p) = {}
    BY DEF Counted, CountedPcs, TransfersOf
  <2> QED BY <2>1, FS_EmptySet DEF CountInv, LastPcs
<1>5. HandlerInv
  <2>1. Handled = {}
    BY DEF Handled, CountedPcs, TransfersOf
  <2> QED BY <2>1, FS_EmptySet DEF HandlerInv
<1>6. CancelInv
  BY DEF CancelInv
<1>7. CloseInv
  BY DEF CloseInv, SendFailsOnlyWhenCancelled, CompletesAtMostOnce
<1> QED BY <1>1, <1>2, <1>3, <1>4, <1>5, <1>6, <1>7 DEF IndInv

LEMMA NextIndInv == IndInv /\ [Next]_vars => IndInv'
<1> SUFFICES ASSUME IndInv, [Next]_vars PROVE IndInv'
  OBVIOUS
<1>1. CASE Steps
  <2>1. TypeOK'
    BY NextTypeOK DEF IndInv
  <2> QED BY <1>1, <2>1, FrontEndInvStep, ScheduleInvStep, CountInvStep,
             HandlerInvStep, CancelInvStep, CloseInvStep DEF IndInv
<1>2. CASE UNCHANGED vars
  BY <1>2 DEF vars, feVars, partVars, handlerVars, cancelVars, drainVars, IndInv,
       TypeOK, FrontEndInv, ScheduleInv, Unqueued, CountInv, Counted, HandlerInv,
       Handled, CancelInv, CloseInv, WholeJobReported, NeverCancelled,
       SendFailsOnlyWhenCancelled, CompletesAtMostOnce
<1> QED BY <1>1, <1>2 DEF Next, Terminated

THEOREM Inductive == Spec => []IndInv
  BY InitIndInv, NextIndInv, PTL DEF Spec

\* A job nobody cancels is completed (reportJobPartDoneHandler) only when the
\* final part is known and every transfer of every part has reported.
THEOREM CoversJob == Spec => []CompletionCoversJob
<1>1. IndInv => CompletionCoversJob
  BY DEF IndInv, CloseInv, WholeJobReported, CompletionCoversJob
<1> QED BY <1>1, Inductive, PTL

\* Only a cancellation can make a transfer send on the closed xferDone.
THEOREM SendsFailOnlyWhenCancelled == Spec => []SendFailsOnlyWhenCancelled
<1>1. IndInv => SendFailsOnlyWhenCancelled
  BY DEF IndInv, CloseInv
<1> QED BY <1>1, Inductive, PTL

\* The handler never closes xferDone twice, cancelled or not.
THEOREM CompletesOnce == Spec => []CompletesAtMostOnce
<1>1. IndInv => CompletesAtMostOnce
  BY DEF IndInv, CloseInv
<1> QED BY <1>1, Inductive, PTL

\* Cancelled or not, the handler decides when all it knows of is handled.
LEMMA DecideKnownParts ==
  ASSUME IndInv, DecideCompletion, ShouldComplete,
         NEW t \in Transfers, PartOf[t] \in jobPartMgrs
  PROVE  tpc[t] \in Reported \ {"sent"}
<1>1. Handled = jobPartMgrs
  BY DecideOpen, HandledKnown, FS_Subset DEF ShouldComplete, IndInv
<1> QED BY <1>1 DEF Handled, TransfersOf, CountedPcs, LastPcs, Reported

LEMMA OnlyDecideCloses ==
  ASSUME [Next]_vars, hPc # "close", hPc' = "close"
  PROVE  DecideCompletion /\ ShouldComplete
<1>1. CASE HandlerSteps
  BY <1>1 DEF HandlerSteps, LoadFinalPartOrdered, DecideCompletion, CloseXferDone,
              WaitToDrainXferDone, ReadJobStatus, SetFinalJobStatus
<1>2. CASE \E u \in Transfers : ReceivePartDone(u)
  BY <1>2 DEF ReceivePartDone
<1>3. CASE UNCHANGED vars
  BY <1>3 DEF vars, handlerVars
<1> QED BY <1>1, <1>2, <1>3, HandlerFrame DEF Next, Terminated, Steps

\* When the handler decides to complete the job, cancelled or not, all the
\* transfers of the parts known at that moment are counted.
THEOREM CloseCovers == Spec => CloseCoversKnownParts
<1>1. IndInv /\ [Next]_vars =>
        [hPc = "count" /\ hPc' = "close" =>
           \A t \in Transfers : PartOf[t] \in jobPartMgrs =>
              tpc[t] \in Reported \ {"sent"}]_vars
  BY OnlyDecideCloses, DecideKnownParts
<1> QED BY <1>1, Inductive, PTL DEF Spec, CloseCoversKnownParts

(***************************************************************************)
(* The status manager is drained before the final status.                  *)
(***************************************************************************)
LEMMA DrainInvStep == TypeOK /\ DrainInv /\ Steps => DrainInv'
<1> SUFFICES ASSUME TypeOK, DrainInv, Steps PROVE DrainInv'
  OBVIOUS
<1> USE DEF DrainInv, DrainedWhenDone
<1>1. CASE FrontEnd
  BY <1>1 DEF FrontEnd, AddJobPart, SetFinalPartOrdered, QueueJobParts,
              SendJobPartCreatedMsg, handlerVars, drainVars
<1>2. CASE Scheduler
  <2>1. CASE \E t \in Transfers : ScheduleTransfer(t)
    BY <2>1 DEF ScheduleTransfer, handlerVars, drainVars
  <2>2. CASE \E p \in Parts : StartScheduling(p)
    <3> PICK p \in Parts : StartScheduling(p)
      BY <2>2
    <3>1. p = 0 /\ TransfersOf(p) = {} => Transfers = {}
      BY JobShape DEF TransfersOf, Parts
    <3> QED BY <3>1 DEF StartScheduling, handlerVars, drainVars
  <2> QED BY <1>2, <2>1, <2>2 DEF Scheduler
<1>3. CASE \E t \in Transfers : Transfer(t) \/ ReceivePartDone(t)
  BY <1>3 DEF Transfer, StartTransfer, FinishTransfer, SendXferDoneMsg, CountTransfer,
              UpdateJobPartProgress, OfferPartProgress, ReceivePartDone, handlerVars,
              drainVars
<1>4. CASE HandlerSteps
  <2>1. CASE SetFinalJobStatus
    BY <2>1 DEF SetFinalJobStatus, drainVars
  <2>2. CASE ~SetFinalJobStatus
    BY <1>4, <2>2 DEF HandlerSteps, LoadFinalPartOrdered, DecideCompletion,
         CloseXferDone, WaitToDrainXferDone, ReadJobStatus, drainVars
  <2> QED BY <2>1, <2>2
<1>5. CASE StatusManager
  BY <1>5 DEF StatusManager, TakeXferDone, DrainXferDone, handlerVars
<1>6. CASE CancelPauseJobOrder
  BY <1>6, RequestDomain DEF CancelPauseJobOrder, ReadStatusToCancel,
       StoreDesiredStatus, CancelContext, handlerVars, drainVars, DoneStatuses, TypeOK
<1> QED BY <1>1, <1>2, <1>3, <1>4, <1>5, <1>6 DEF Steps

\* The final status of a job with transfers is seen only after the status
\* manager has taken in every report (waitToDrainXferDone).
THEOREM Drained == Spec => []DrainedWhenDone
<1>1. Init => DrainInv
  BY DEF Init, DrainInv, DrainedWhenDone, DoneStatuses
<1>2. TypeOK /\ DrainInv /\ [Next]_vars => DrainInv'
  <2>1. DrainInv /\ UNCHANGED vars => DrainInv'
    BY DEF vars, handlerVars, drainVars, DrainInv, DrainedWhenDone
  <2> QED BY <2>1, DrainInvStep DEF Next, Terminated
<1>3. DrainInv => DrainedWhenDone
  BY DEF DrainInv
<1> QED BY <1>1, <1>2, <1>3, TypeCorrect, PTL DEF Spec

(***************************************************************************)
(* The final status is backed by outcomes.                                 *)
(***************************************************************************)
LEMMA OutcomesStay ==
  ASSUME IndInv, OutcomeInv, Steps
  PROVE  OutcomeInv' /\ \A o \in {"Failed", "Skipped"} : Some(o) => Some(o)'
<1> DEFINE early == {"new", "queued", "running"}
<1>1. ASSUME NEW t \in Transfers, \A u \in Transfers \ {t} : outcome'[u] = outcome[u] /\ tpc'[u] = tpc[u],
             outcome[t] = "none" \/ outcome'[t] = outcome[t],
             tpc'[t] \in early => outcome'[t] = "none"
      PROVE  OutcomeInv' /\ \A o \in {"Failed", "Skipped"} : Some(o) => Some(o)'
  BY <1>1 DEF OutcomeInv, Some
<1>2. CASE UNCHANGED <<tpc, outcome>>
  BY <1>2 DEF OutcomeInv, Some
<1>3. ASSUME NEW t \in Transfers, StartTransfer(t) \/ FinishTransfer(t)
      PROVE  OutcomeInv' /\ \A o \in {"Failed", "Skipped"} : Some(o) => Some(o)'
  <2>1. outcome[t] = "none"
    BY <1>3 DEF StartTransfer, FinishTransfer, OutcomeInv
  <2>2. tpc \in [Transfers -> TransferPcs] /\ DOMAIN outcome = Transfers
    BY DEF IndInv, TypeOK
  <2>3. CASE StartTransfer(t)
    <3>1. /\ tpc' = [tpc EXCEPT ![t] = IF canceled THEN "finished" ELSE "running"]
          /\ outcome' = [outcome EXCEPT ![t] = IF canceled THEN "Cancelled" ELSE @]
      BY <2>3 DEF StartTransfer
    <3>2. /\ \A u \in Transfers \ {t} : outcome'[u] = outcome[u] /\ tpc'[u] = tpc[u]
          /\ tpc'[t] \in early => outcome'[t] = "none"
      BY <2>1, <2>2, <3>1
    <3> QED BY <1>1, <2>1, <3>2
  <2>4. CASE FinishTransfer(t)
    <3>1. /\ \A u \in Transfers \ {t} : outcome'[u] = outcome[u] /\ tpc'[u] = tpc[u]
          /\ tpc'[t] = "finished"
      BY <2>2, <2>4 DEF FinishTransfer
    <3> QED BY <1>1, <2>1, <3>1
  <2> QED BY <1>3, <2>3, <2>4
<1>4. ASSUME NEW t \in Transfers, ScheduleTransfer(t)
      PROVE  OutcomeInv' /\ \A o \in {"Failed", "Skipped"} : Some(o) => Some(o)'
  <2>1. outcome[t] = "none" /\ outcome' = outcome
    BY <1>4 DEF ScheduleTransfer, OutcomeInv, IndInv, ScheduleInv
  <2>2. \A u \in Transfers \ {t} : tpc'[u] = tpc[u]
    BY <1>4 DEF ScheduleTransfer, IndInv, TypeOK
  <2> QED BY <1>1, <2>1, <2>2
<1>5. ASSUME NEW t \in Transfers,
             \/ SendXferDoneMsg(t) \/ CountTransfer(t) \/ UpdateJobPartProgress(t)
             \/ OfferPartProgress(t) \/ ReceivePartDone(t)
      PROVE  OutcomeInv' /\ \A o \in {"Failed", "Skipped"} : Some(o) => Some(o)'
  <2>1. outcome' = outcome /\ tpc \in [Transfers -> TransferPcs]
    BY <1>5 DEF SendXferDoneMsg, CountTransfer, UpdateJobPartProgress, OfferPartProgress,
                ReceivePartDone, IndInv, TypeOK
  <2>2. /\ \A u \in Transfers \ {t} : tpc'[u] = tpc[u]
        /\ tpc'[t] \notin early
    <3>1. CASE CountTransfer(t)
      BY <2>1, <3>1 DEF CountTransfer
    <3>2. CASE UpdateJobPartProgress(t)
      BY <2>1, <3>2 DEF UpdateJobPartProgress
    <3>3. CASE SendXferDoneMsg(t) \/ OfferPartProgress(t) \/ ReceivePartDone(t)
      BY <2>1, <3>3 DEF SendXferDoneMsg, OfferPartProgress, ReceivePartDone
    <3> QED BY <1>5, <3>1, <3>2, <3>3
  <2> QED BY <1>1, <2>1, <2>2
<1>6. ASSUME NEW p \in Parts, StartScheduling(p) PROVE UNCHANGED <<tpc, outcome>>
  BY <1>6 DEF StartScheduling
<1>7. CASE FrontEnd \/ StatusManager \/ HandlerSteps \/ CancelPauseJobOrder
  <2>1. UNCHANGED outcome
    BY <1>7 DEF FrontEnd, AddJobPart, SetFinalPartOrdered, QueueJobParts, SendJobPartCreatedMsg,
         StatusManager, TakeXferDone, DrainXferDone, HandlerSteps, LoadFinalPartOrdered,
         DecideCompletion, CloseXferDone, WaitToDrainXferDone, ReadJobStatus, SetFinalJobStatus,
         CancelPauseJobOrder, ReadStatusToCancel, StoreDesiredStatus, CancelContext
  <2> QED BY <1>2, <1>7, <2>1, TransferFrame
<1> QED BY <1>2, <1>3, <1>4, <1>5, <1>6, <1>7 DEF Steps, Scheduler, Transfer

LEMMA UpdateProgressIsReal ==
  ASSUME NEW x \in Progress, NEW o
  PROVE  /\ UpdateProgress(x, o).failed > 0 => x.failed > 0 \/ o = "Failed"
         /\ UpdateProgress(x, o).skipped > 0 => x.skipped > 0 \/ o = "Skipped"
<1>1. CASE o = "Success"
  BY <1>1 DEF Progress, UpdateProgress
<1>2. CASE o = "Failed"
  BY <1>2 DEF Progress, UpdateProgress
<1>3. CASE o = "Skipped"
  BY <1>3 DEF Progress, UpdateProgress
<1>4. CASE o \notin {"Success", "Failed", "Skipped"}
  BY <1>4 DEF Progress, UpdateProgress
<1> QED BY <1>1, <1>2, <1>3, <1>4

LEMMA PlusIsReal ==
  ASSUME NEW x \in Progress, NEW y \in Progress
  PROVE  /\ Plus(x, y).failed > 0 => x.failed > 0 \/ y.failed > 0
         /\ Plus(x, y).skipped > 0 => x.skipped > 0 \/ y.skipped > 0
  BY DEF Progress, Plus

\* Whatever counters a step leaves alone stay real.
LEMMA CountsStay ==
  ASSUME CountsAreReal, Some("Failed") => Some("Failed")', Some("Skipped") => Some("Skipped")'
  PROVE  /\ UNCHANGED progress =>
              \A p \in Parts : /\ progress'[p].failed > 0 => Some("Failed")'
                               /\ progress'[p].skipped > 0 => Some("Skipped")'
         /\ UNCHANGED report =>
              \A p \in Parts : /\ report'[p].failed > 0 => Some("Failed")'
                               /\ report'[p].skipped > 0 => Some("Skipped")'
         /\ UNCHANGED jobProgress =>
              /\ jobProgress'.failed > 0 => Some("Failed")'
              /\ jobProgress'.skipped > 0 => Some("Skipped")'
  BY DEF CountsAreReal

LEMMA CountsStep ==
  ASSUME IndInv, OutcomeInv, CountsAreReal, Steps
  PROVE  CountsAreReal'
<1>1. (Some("Failed") => Some("Failed")') /\ (Some("Skipped") => Some("Skipped")')
  BY OutcomesStay
<1>2. CASE UNCHANGED <<progress, report, jobProgress>>
  BY <1>1, <1>2, CountsStay DEF CountsAreReal
<1>3. ASSUME NEW t \in Transfers, UpdateJobPartProgress(t) PROVE CountsAreReal'
  <2> DEFINE p == PartOf[t]
             x == UpdateProgress(progress[p], outcome[t])
  <2>1. /\ progress' = [progress EXCEPT ![p] = x] /\ UNCHANGED <<report, jobProgress, outcome>>
    BY <1>3 DEF UpdateJobPartProgress, handlerVars
  <2>2. progress \in [Parts -> Progress] /\ p \in Parts
    BY JobShape DEF IndInv, TypeOK
  <2>3. /\ x.failed > 0 => progress[p].failed > 0 \/ outcome[t] = "Failed"
        /\ x.skipped > 0 => progress[p].skipped > 0 \/ outcome[t] = "Skipped"
    BY <2>2, UpdateProgressIsReal
  <2> HIDE DEF x, p
  <2>4. (x.failed > 0 => Some("Failed")) /\ (x.skipped > 0 => Some("Skipped"))
    BY <2>2, <2>3 DEF CountsAreReal, Some
  <2>5. progress'[p] = x /\ \A q \in Parts \ {p} : progress'[q] = progress[q]
    BY <2>1, <2>2
  <2>6. \A q \in Parts : /\ progress'[q].failed > 0 => Some("Failed")'
                         /\ progress'[q].skipped > 0 => Some("Skipped")'
    BY <1>1, <2>4, <2>5 DEF CountsAreReal
  <2> QED BY <1>1, <2>1, <2>6, CountsStay DEF CountsAreReal
<1>4. ASSUME NEW t \in Transfers, OfferPartProgress(t) PROVE CountsAreReal'
  <2> DEFINE p == PartOf[t]
  <2>1. report' = [report EXCEPT ![p] = progress[p]] /\ UNCHANGED <<progress, jobProgress>>
    BY <1>4 DEF OfferPartProgress, handlerVars
  <2>2. report \in [Parts -> Progress] /\ p \in Parts
    BY JobShape DEF IndInv, TypeOK
  <2> HIDE DEF p
  <2>3. report'[p] = progress[p] /\ \A q \in Parts \ {p} : report'[q] = report[q]
    BY <2>1, <2>2
  <2>4. \A q \in Parts : /\ report'[q].failed > 0 => Some("Failed")'
                         /\ report'[q].skipped > 0 => Some("Skipped")'
    BY <1>1, <2>2, <2>3 DEF CountsAreReal
  <2> QED BY <1>1, <2>1, <2>4, CountsStay DEF CountsAreReal
<1>5. ASSUME NEW t \in Transfers, ReceivePartDone(t) PROVE CountsAreReal'
  <2> DEFINE y == report[PartOf[t]]
  <2>1. jobProgress' = Plus(jobProgress, y) /\ UNCHANGED <<progress, report>>
    BY <1>5 DEF ReceivePartDone, partVars
  <2>2. jobProgress \in Progress /\ y \in Progress /\ PartOf[t] \in Parts
    BY JobShape DEF IndInv, TypeOK
  <2>3. (y.failed > 0 => Some("Failed")) /\ (y.skipped > 0 => Some("Skipped"))
    BY <2>2 DEF CountsAreReal
  <2> HIDE DEF y
  <2>4. /\ jobProgress'.failed > 0 => Some("Failed")'
        /\ jobProgress'.skipped > 0 => Some("Skipped")'
    BY <1>1, <2>1, <2>2, <2>3, PlusIsReal DEF CountsAreReal
  <2> QED BY <1>1, <2>1, <2>4, CountsStay DEF CountsAreReal
<1>6. CASE SetFinalJobStatus
  <2>1. jobProgress' = NoProgress /\ UNCHANGED <<progress, report>>
    BY <1>6 DEF SetFinalJobStatus, ResetCounters, partVars
  <2>2. ~(jobProgress'.failed > 0) /\ ~(jobProgress'.skipped > 0)
    BY <2>1 DEF NoProgress
  <2> QED BY <1>1, <2>1, <2>2, CountsStay DEF CountsAreReal
<1>7. CASE FrontEnd \/ StatusManager \/ CancelPauseJobOrder \/ (HandlerSteps /\ ~SetFinalJobStatus)
  <2> USE DEF partVars, handlerVars
  <2>1. CASE FrontEnd
    BY <1>2, <2>1 DEF FrontEnd, AddJobPart, SetFinalPartOrdered, QueueJobParts,
                      SendJobPartCreatedMsg
  <2>2. CASE StatusManager
    BY <1>2, <2>2 DEF StatusManager, TakeXferDone, DrainXferDone
  <2>3. CASE CancelPauseJobOrder
    BY <1>2, <2>3 DEF CancelPauseJobOrder, ReadStatusToCancel, StoreDesiredStatus, CancelContext
  <2>4. CASE HandlerSteps /\ ~SetFinalJobStatus
    BY <1>2, <2>4 DEF HandlerSteps, LoadFinalPartOrdered, DecideCompletion, CloseXferDone,
                      WaitToDrainXferDone, ReadJobStatus
  <2> QED BY <1>7, <2>1, <2>2, <2>3, <2>4
<1>8. CASE Scheduler
  BY <1>2, <1>8 DEF Scheduler, StartScheduling, ScheduleTransfer, partVars, handlerVars
<1>9. ASSUME NEW t \in Transfers,
             StartTransfer(t) \/ FinishTransfer(t) \/ SendXferDoneMsg(t) \/ CountTransfer(t)
      PROVE  CountsAreReal'
  BY <1>2, <1>9 DEF StartTransfer, FinishTransfer, SendXferDoneMsg, CountTransfer,
                    partVars, handlerVars
<1> QED BY <1>3, <1>4, <1>5, <1>6, <1>7, <1>8, <1>9 DEF Steps, Transfer

LEMMA BackedStep ==
  ASSUME IndInv, BackedInv, Steps
  PROVE  StatusIsBacked'
<1> DEFINE Errors == {"CompletedWithErrors", "CompletedWithErrorsAndSkipped", "Failed"}
           Skips == {"CompletedWithSkipped", "CompletedWithErrorsAndSkipped"}
<1>1. (Some("Failed") => Some("Failed")') /\ (Some("Skipped") => Some("Skipped")')
  BY OutcomesStay DEF BackedInv
<1>2. (jobStatus \in Errors => Some("Failed")) /\ (jobStatus \in Skips => Some("Skipped"))
  BY DEF BackedInv, StatusIsBacked, Some
<1>3. SUFFICES /\ jobStatus' \in Errors => jobStatus' = jobStatus \/ Some("Failed")
               /\ jobStatus' \in Skips => jobStatus' = jobStatus \/ Some("Skipped")
  BY <1>1, <1>2 DEF StatusIsBacked, Some
<1>4. CASE SetFinalJobStatus
  <2> DEFINE s == jobProgress.skipped > 0
             e == jobProgress.failed > 0
             c == jobProgress.completed > 0
             final == EnhanceJobStatusInfo(s, e, c)
  <2>1. (e => Some("Failed")) /\ (s => Some("Skipped"))
    BY DEF BackedInv, CountsAreReal
  <2>2. (final \in Errors => e) /\ (final \in Skips => s)
    BY DEF EnhanceJobStatusInfo
  <2> HIDE DEF final
  <2>3. jobStatus' \in {"Cancelled", final, jobStatus}
    BY <1>4, Zenon DEF SetFinalJobStatus, final
  <2> QED BY <2>1, <2>2, <2>3
<1>5. ASSUME NEW p \in Parts, StartScheduling(p) PROVE jobStatus' \in {"Completed", jobStatus}
  BY <1>5 DEF StartScheduling
<1>6. CASE StoreDesiredStatus
  <2>1. jobStatus' \in {"Cancelling", "Paused"}
    BY <1>6, RequestDomain DEF StoreDesiredStatus, IndInv, TypeOK
  <2> QED BY <2>1
<1>7. CASE \/ FrontEnd \/ StatusManager
           \/ CancelPauseJobOrder /\ ~StoreDesiredStatus
           \/ HandlerSteps /\ ~SetFinalJobStatus
           \/ \E t \in Transfers : ScheduleTransfer(t) \/ Transfer(t) \/ ReceivePartDone(t)
  <2>1. UNCHANGED jobStatus
    BY <1>7 DEF FrontEnd, AddJobPart, SetFinalPartOrdered, QueueJobParts, SendJobPartCreatedMsg,
         StatusManager, TakeXferDone, DrainXferDone, HandlerSteps, LoadFinalPartOrdered,
         DecideCompletion, CloseXferDone, WaitToDrainXferDone, ReadJobStatus,
         CancelPauseJobOrder, ReadStatusToCancel, CancelContext, ScheduleTransfer, Transfer,
         StartTransfer, FinishTransfer, SendXferDoneMsg, CountTransfer, UpdateJobPartProgress,
         OfferPartProgress, ReceivePartDone
  <2> QED BY <2>1
<1> QED BY <1>4, <1>5, <1>6, <1>7 DEF Steps, Scheduler, CancelPauseJobOrder

\* A final status that speaks of failures or of skipped transfers is never
\* made up by the counting of parts and the resets around a completion
\* (updateJobPartProgress, reportJobPartDoneHandler, EnhanceJobStatusInfo):
\* the job has such transfers.
THEOREM StatusBacked == Spec => []StatusIsBacked
<1>1. Init => BackedInv
  <2> SUFFICES ASSUME Init PROVE BackedInv
    OBVIOUS
  <2>1. OutcomeInv /\ StatusIsBacked
    BY DEF Init, OutcomeInv, StatusIsBacked
  <2>2. CountsAreReal
    BY DEF Init, CountsAreReal, NoProgress
  <2> QED BY <2>1, <2>2 DEF BackedInv
<1>2. IndInv /\ BackedInv /\ [Next]_vars => BackedInv'
  <2> SUFFICES ASSUME IndInv, BackedInv, [Next]_vars PROVE BackedInv'
    OBVIOUS
  <2>1. CASE UNCHANGED vars
    <3>1. UNCHANGED <<tpc, outcome, progress, report, jobProgress, jobStatus>>
      BY <2>1 DEF vars, partVars, handlerVars
    <3>2. OutcomeInv' /\ StatusIsBacked'
      BY <3>1 DEF BackedInv, OutcomeInv, StatusIsBacked
    <3>3. CountsAreReal'
      BY <3>1 DEF BackedInv, CountsAreReal, Some
    <3> QED BY <3>2, <3>3 DEF BackedInv
  <2>2. CASE Steps
    BY <2>2, OutcomesStay, CountsStep, BackedStep DEF BackedInv
  <2> QED BY <2>1, <2>2 DEF Next, Terminated
<1>3. BackedInv => StatusIsBacked
  BY DEF BackedInv
<1> QED BY <1>1, <1>2, <1>3, Inductive, PTL DEF Spec

(***************************************************************************)
(* Refinement of JobCompletion.                                            *)
(***************************************************************************)
LEMMA StepImplements == IndInv /\ Steps => [Job!Next]_(Job!vars)
<1> SUFFICES ASSUME IndInv, Steps PROVE [Job!Next]_(Job!vars)
  OBVIOUS
<1> DEFINE R == {t \in Transfers : tpc[t] \in Reported}
           C == xferDoneClosed \/ hPc = "close"
<1>0. C /\ NeverCancelled => WholeJobReported
  BY DEF IndInv, CloseInv
<1>1. CASE FrontEnd
  <2>1. UNCHANGED <<R, C, NeverCancelled>>
    BY <1>1, TransferFrame, HandlerFrame, CancelFrame DEF NeverCancelled
  <2>2. CASE AddJobPart
    <3>1. fePart \in Parts /\ fePart \notin jobPartMgrs
      BY <2>2, JobShape DEF IndInv, TypeOK, FrontEndInv, AddJobPart, Parts
    <3>2. Job!OrderPart(fePart)
      BY <1>0, <2>1, <2>2, <3>1 DEF Job!OrderPart, AddJobPart, WholeJobReported
    <3> QED BY <3>1, <3>2 DEF Job!Next
  <2>3. CASE ~AddJobPart
    <3>1. UNCHANGED jobPartMgrs
      BY <1>1, <2>3 DEF FrontEnd, SetFinalPartOrdered, QueueJobParts,
                        SendJobPartCreatedMsg
    <3> QED BY <2>1, <3>1 DEF Job!vars
  <2> QED BY <2>2, <2>3
<1>2. CASE \E t \in Transfers : SendXferDoneMsg(t) /\ tpc'[t] = "sent"
  <2> PICK t \in Transfers : SendXferDoneMsg(t) /\ tpc'[t] = "sent"
    BY <1>2
  <2>1. UNCHANGED <<jobPartMgrs, C, NeverCancelled>>
    BY FrontEndFrame, HandlerFrame, CancelFrame DEF NeverCancelled, Transfer
  <2>2. tpc' = [tpc EXCEPT ![t] = "sent"] /\ tpc[t] = "finished"
    BY DEF SendXferDoneMsg, IndInv, TypeOK
  <2>3. R' = R \union {t} /\ t \notin R
    BY <2>2 DEF IndInv, TypeOK, Reported
  <2>4. PartOf[t] \in jobPartMgrs
    <3>1. PartOf[t] \in Parts /\ PartOf[t] \notin Unqueued
      BY <2>2, JobShape DEF IndInv, ScheduleInv
    <3>2. fePart \in Nat /\ PartOf[t] \in Nat
      BY <3>1, JobShape DEF IndInv, TypeOK, Parts
    <3> QED BY <3>1, <3>2 DEF IndInv, Unqueued, FrontEndInv
  <2>5. C => ~NeverCancelled
    BY <1>0, <2>3 DEF WholeJobReported
  <2>6. Job!Report(t)
    BY <2>1, <2>3, <2>4, <2>5 DEF Job!Report
  <2> QED BY <2>6 DEF Job!Next
<1>3. CASE \E t \in Transfers : (Transfer(t) \/ ReceivePartDone(t))
                                 /\ ~(SendXferDoneMsg(t) /\ tpc'[t] = "sent")
  <2> PICK t \in Transfers : (Transfer(t) \/ ReceivePartDone(t))
                               /\ ~(SendXferDoneMsg(t) /\ tpc'[t] = "sent")
    BY <1>3
  <2>1. UNCHANGED <<jobPartMgrs, NeverCancelled>>
    BY FrontEndFrame, CancelFrame DEF NeverCancelled
  <2>2. UNCHANGED C
    BY HandlerFrame DEF ReceivePartDone, drainVars
  <2>3. \A u \in Transfers : tpc'[u] \in Reported <=> tpc[u] \in Reported
    BY DEF Transfer, StartTransfer, FinishTransfer, SendXferDoneMsg, CountTransfer,
           UpdateJobPartProgress, OfferPartProgress, ReceivePartDone, Reported,
           IndInv, TypeOK
  <2>4. UNCHANGED R
    BY <2>3
  <2> QED BY <2>1, <2>2, <2>4 DEF Job!vars
<1>4. CASE Scheduler
  <2>1. UNCHANGED <<jobPartMgrs, C, NeverCancelled>>
    BY <1>4, FrontEndFrame, HandlerFrame, CancelFrame DEF NeverCancelled
  <2>2. UNCHANGED R
    BY <1>4 DEF Scheduler, StartScheduling, ScheduleTransfer, ScheduleInv, IndInv,
                TypeOK, Reported
  <2> QED BY <2>1, <2>2 DEF Job!vars
<1>5. CASE HandlerSteps
  <2>1. UNCHANGED <<jobPartMgrs, R, NeverCancelled>>
    BY <1>5, FrontEndFrame, TransferFrame, CancelFrame DEF NeverCancelled
  <2>2. CASE DecideCompletion /\ ShouldComplete
    <3>1. ~C /\ C'
      BY <2>2, DecideOpen DEF DecideCompletion
    <3>2. jobPartMgrs = Parts \/ ~NeverCancelled
      BY <2>2, DecideWholeJob DEF WholeJobReported
    <3>3. \A t \in Transfers : PartOf[t] \in jobPartMgrs => t \in R
      BY <2>2, DecideKnownParts
    <3>4. Job!Complete
      BY <2>1, <3>1, <3>2, <3>3 DEF Job!Complete
    <3> QED BY <3>4 DEF Job!Next
  <2>3. CASE ~(DecideCompletion /\ ShouldComplete)
    <3>1. UNCHANGED C
      BY <1>5, <2>3 DEF HandlerSteps, LoadFinalPartOrdered, DecideCompletion,
           CloseXferDone, WaitToDrainXferDone, ReadJobStatus, SetFinalJobStatus,
           drainVars, IndInv, TypeOK
    <3> QED BY <2>1, <3>1 DEF Job!vars
  <2> QED BY <2>2, <2>3
<1>6. CASE StatusManager
  BY <1>6, FrontEndFrame, TransferFrame, HandlerFrame, CancelFrame
     DEF Job!vars, NeverCancelled
<1>7. CASE CancelPauseJobOrder
  <2>1. UNCHANGED <<jobPartMgrs, R, C>>
    BY <1>7, FrontEndFrame, TransferFrame, HandlerFrame
  <2>2. NeverCancelled' => NeverCancelled
    BY NeverCancelledBefore
  <2>3. CASE NeverCancelled'
    BY <2>1, <2>2, <2>3 DEF Job!vars
  <2>4. CASE ~NeverCancelled'
    BY <2>1, <2>4 DEF Job!Stop, Job!Next
  <2> QED BY <2>3, <2>4
<1> QED BY <1>1, <1>2, <1>3, <1>4, <1>5, <1>6, <1>7 DEF Steps

\* The job manager implements JobCompletion: it declares a job complete at
\* most once, only when all of it is known and reported or it is being
\* stopped, and nothing is added or reported after that unless it is stopped.
THEOREM Implements == Spec => ImplementsJobCompletion
<1>1. Init => Job!Init
  BY DEF Init, Job!Init, Reported, NeverCancelled
<1>2. IndInv /\ [Next]_vars => [Job!Next]_(Job!vars)
  <2>1. UNCHANGED vars => UNCHANGED Job!vars
    BY DEF vars, Job!vars, feVars, handlerVars, cancelVars, drainVars, NeverCancelled
  <2> QED BY <2>1, StepImplements DEF Next, Terminated
<1> QED BY <1>1, <1>2, Inductive, PTL DEF Spec, ImplementsJobCompletion, Job!Spec

(***************************************************************************)
(* The summary.  What the status manager has taken in of a job nobody      *)
(* cancels is what has reported and is not in xferDone any more.           *)
(***************************************************************************)
TakenIn == {t \in Transfers : tpc[t] \in Reported} \ xferDone
Ending == {"closeDone", "closeListReq", "clearListReq", "gone"}

UncancelledInv ==
    /\ canceled => cancels > 0
    /\ \A t \in Transfers :
          /\ cancels = 0 => outcome[t] # "Cancelled"
          /\ tpc[t] \in {"finished"} \union Reported => outcome[t] # "none"

TakenInv ==
    /\ \A t \in xferDone : tpc[t] \in Reported
    /\ cancels = 0 => Attended(js) = Cardinality(TakenIn)
    /\ smPc \in Ending => xferDoneDrained

SummaryInv == IndInv /\ DrainInv /\ SummaryTypeOK /\ UncancelledInv /\ TakenInv

\* The summary, the status manager and the progress loop run on top of the job
\* manager: each of their steps is one of its, or none.
LEMMA SummaryStepIsStep ==
  ASSUME SummarySteps
  PROVE  Steps \/ UNCHANGED vars
<1>1. CASE SendPartCreated
  BY <1>1 DEF SendPartCreated, Steps, FrontEnd
<1>2. CASE \E t \in Transfers : ScheduleAndConfirm(t)
  BY <1>2 DEF ScheduleAndConfirm, Steps, Scheduler
<1>3. CASE ConfirmAllTransfersScheduled
  BY <1>3 DEF ConfirmAllTransfersScheduled
<1>4. CASE \E p \in Parts : SchedulePart(p)
  BY <1>4 DEF SchedulePart, Steps, Scheduler
<1>5. CASE JobMgrStep
  BY <1>5 DEF JobMgrStep, Steps, FrontEnd
<1>6. CASE StatusMgr
  BY <1>6 DEF StatusMgr, HandlePartCreated, HandleXferDone, HandleXferDoneClosed,
              HandleListReq, SendSummary, CloseStep, Steps, StatusManager
<1>7. CASE Progressing \/ SelectClosedListReq
  BY <1>7 DEF Progressing, Poll, SelectStatusMgrDone, ReadPart0Status, ExitIfDone,
              SelectClosedListReq
<1> QED BY <1>1, <1>2, <1>3, <1>4, <1>5, <1>6, <1>7 DEF SummarySteps

LEMMA UncancelledStep ==
  ASSUME IndInv, UncancelledInv, Steps
  PROVE  UncancelledInv'
<1> USE DEF UncancelledInv, Reported
<1>0. TypeOK /\ (cPc # "idle" => cancels > 0)
  BY DEF IndInv, CancelInv
<1>1. CASE FrontEnd
  BY <1>1 DEF FrontEnd, AddJobPart, SetFinalPartOrdered, QueueJobParts, SendJobPartCreatedMsg,
              cancelVars
<1>2. CASE Scheduler
  <2>1. ASSUME NEW p \in Parts, StartScheduling(p) PROVE UncancelledInv'
    BY <2>1 DEF StartScheduling, cancelVars
  <2>2. ASSUME NEW t \in Transfers, ScheduleTransfer(t) PROVE UncancelledInv'
    BY <1>0, <2>2 DEF ScheduleTransfer, TypeOK, cancelVars
  <2> QED BY <1>2, <2>1, <2>2 DEF Scheduler
<1>3. ASSUME NEW t \in Transfers, StartTransfer(t) PROVE UncancelledInv'
  BY <1>0, <1>3 DEF StartTransfer, TypeOK, cancelVars
<1>4. ASSUME NEW t \in Transfers, FinishTransfer(t) PROVE UncancelledInv'
  <2>1. PICK o \in Outcomes \union (IF canceled THEN {"Cancelled"} ELSE {}) :
            outcome' = [outcome EXCEPT ![t] = o]
    BY <1>4 DEF FinishTransfer
  <2>2. o # "none" /\ (o = "Cancelled" => canceled)
    BY OutcomeDomain
  <2> QED BY <1>0, <1>4, <2>1, <2>2 DEF FinishTransfer, TypeOK, cancelVars
<1>5. ASSUME NEW t \in Transfers,
             \/ SendXferDoneMsg(t) \/ CountTransfer(t) \/ UpdateJobPartProgress(t)
             \/ OfferPartProgress(t) \/ ReceivePartDone(t)
      PROVE  UncancelledInv'
  <2>1. /\ UNCHANGED <<outcome, canceled, cancels>>
        /\ tpc[t] \in {"finished"} \union Reported
        /\ \A u \in Transfers \ {t} : tpc'[u] = tpc[u]
    BY <1>0, <1>5 DEF SendXferDoneMsg, CountTransfer, UpdateJobPartProgress, OfferPartProgress,
                      ReceivePartDone, TypeOK, cancelVars
  <2> QED BY <2>1
<1>6. CASE HandlerSteps
  BY <1>6 DEF HandlerSteps, LoadFinalPartOrdered, DecideCompletion, CloseXferDone,
              WaitToDrainXferDone, ReadJobStatus, SetFinalJobStatus, cancelVars
<1>7. CASE StatusManager
  BY <1>7 DEF StatusManager, TakeXferDone, DrainXferDone, cancelVars
<1>8. CASE CancelPauseJobOrder
  BY <1>0, <1>8 DEF CancelPauseJobOrder, ReadStatusToCancel, StoreDesiredStatus, CancelContext,
                    TypeOK
<1> QED BY <1>1, <1>2, <1>3, <1>4, <1>5, <1>6, <1>7, <1>8 DEF Steps, Transfer

\* A report is in xferDone or taken in; all but the status manager leave what
\* is taken in.
LEMMA TakenInStays ==
  ASSUME IndInv, \A t \in xferDone : tpc[t] \in Reported,
         Steps, ~StatusManager
  PROVE  TakenIn' = TakenIn /\ \A t \in xferDone' : tpc'[t] \in Reported
<1> USE DEF Reported
<1>t. TypeOK /\ \A t \in toSchedule : tpc[t] = "new"
  BY DEF IndInv, ScheduleInv
<1>0. ASSUME \A t \in Transfers : tpc'[t] \in Reported <=> tpc[t] \in Reported,
             xferDone' = xferDone
      PROVE  TakenIn' = TakenIn /\ \A t \in xferDone' : tpc'[t] \in Reported
  BY <1>t, <1>0 DEF TakenIn, TypeOK
<1>1. CASE FrontEnd
  BY <1>0, <1>1, TransferFrame
     DEF FrontEnd, AddJobPart, SetFinalPartOrdered, QueueJobParts, SendJobPartCreatedMsg, drainVars
<1>2. CASE HandlerSteps
  BY <1>0, <1>2, TransferFrame
     DEF HandlerSteps, LoadFinalPartOrdered, DecideCompletion, CloseXferDone,
         WaitToDrainXferDone, ReadJobStatus, SetFinalJobStatus, drainVars
<1>3. CASE CancelPauseJobOrder
  BY <1>0, <1>3, TransferFrame
     DEF CancelPauseJobOrder, ReadStatusToCancel, StoreDesiredStatus, CancelContext, drainVars
<1>4. ASSUME NEW p \in Parts, StartScheduling(p)
      PROVE  TakenIn' = TakenIn /\ \A t \in xferDone' : tpc'[t] \in Reported
  BY <1>0, <1>4 DEF StartScheduling, drainVars
<1>5. ASSUME NEW t \in Transfers, ScheduleTransfer(t)
      PROVE  TakenIn' = TakenIn /\ \A u \in xferDone' : tpc'[u] \in Reported
  BY <1>t, <1>0, <1>5 DEF ScheduleTransfer, TypeOK, drainVars
<1>6. ASSUME NEW t \in Transfers,
             \/ StartTransfer(t) \/ FinishTransfer(t) \/ CountTransfer(t)
             \/ UpdateJobPartProgress(t) \/ OfferPartProgress(t) \/ ReceivePartDone(t)
      PROVE  TakenIn' = TakenIn /\ \A u \in xferDone' : tpc'[u] \in Reported
  <2>1. xferDone' = xferDone
    BY <1>6 DEF StartTransfer, FinishTransfer, CountTransfer, UpdateJobPartProgress,
                OfferPartProgress, ReceivePartDone, drainVars
  <2>2. \A u \in Transfers : tpc'[u] \in Reported <=> tpc[u] \in Reported
    BY <1>t, <1>6 DEF StartTransfer, FinishTransfer, CountTransfer, UpdateJobPartProgress,
                      OfferPartProgress, ReceivePartDone, TypeOK
  <2> QED BY <1>0, <2>1, <2>2
<1>7. ASSUME NEW t \in Transfers, SendXferDoneMsg(t)
      PROVE  TakenIn' = TakenIn /\ \A u \in xferDone' : tpc'[u] \in Reported
  <2>1. CASE xferDoneClosed
    BY <1>0, <1>7, <2>1 DEF SendXferDoneMsg
  <2>2. CASE ~xferDoneClosed
    BY <1>t, <1>7, <2>2 DEF SendXferDoneMsg, TakenIn, TypeOK
  <2> QED BY <2>1, <2>2
<1> QED BY <1>1, <1>2, <1>3, <1>4, <1>5, <1>6, <1>7 DEF Steps, Transfer, Scheduler

LEMMA AddOutcomeCounts ==
  ASSUME NEW s \in Summary, NEW o
  PROVE  /\ AddOutcome(s, o) \in Summary
         /\ o \in {"Success", "Failed", "Skipped", "TierUnavailable"} =>
               Attended(AddOutcome(s, o)) = Attended(s) + 1
<1> USE DEF Summary, Attended
<1>1. CASE o = "Success"
  BY <1>1 DEF AddOutcome
<1>2. CASE o \in {"Failed", "TierUnavailable"}
  BY <1>2 DEF AddOutcome
<1>3. CASE o = "Skipped"
  BY <1>3 DEF AddOutcome
<1>4. CASE o \notin {"Success", "Failed", "TierUnavailable", "Skipped"}
  BY <1>4 DEF AddOutcome
<1> QED BY <1>1, <1>2, <1>3, <1>4

LEMMA TakesIn ==
  ASSUME SummaryInv, NEW t \in Transfers, TakeXferDone(t)
  PROVE  Cardinality(TakenIn)' = Cardinality(TakenIn) + 1
<1>1. TakenIn' = TakenIn \union {t} /\ t \notin TakenIn
  BY DEF SummaryInv, TakenInv, TakeXferDone, TakenIn, IndInv, TypeOK
<1>2. IsFiniteSet(TakenIn)
  BY JobShape, FS_Subset DEF TakenIn
<1> QED BY <1>1, <1>2, FS_AddElement

LEMMA HandleXferDoneKeeps ==
  ASSUME SummaryInv, NEW t \in Transfers, HandleXferDone(t)
  PROVE  TakenInv' /\ js' \in Summary
<1>1. /\ t \in xferDone /\ xferDone' = xferDone \ {t} /\ js' = AddOutcome(js, outcome[t])
      /\ UNCHANGED <<tpc, cancels, smPc, xferDoneDrained>>
  BY DEF HandleXferDone, TakeXferDone, cancelVars
<1>2. js \in Summary /\ outcome[t] \in Outcomes \union {"none", "Cancelled"}
      /\ \A u \in xferDone : tpc[u] \in Reported
  BY DEF SummaryInv, SummaryTypeOK, IndInv, TypeOK, TakenInv
<1>3. cancels = 0 => outcome[t] \in {"Success", "Failed", "Skipped", "TierUnavailable"}
  BY <1>1, <1>2, OutcomeDomain DEF SummaryInv, UncancelledInv
<1>4. cancels = 0 => Attended(js') = Attended(js) + 1
  BY <1>1, <1>2, <1>3, AddOutcomeCounts
<1>5. Cardinality(TakenIn)' = Cardinality(TakenIn) + 1
  BY TakesIn DEF HandleXferDone
<1>6. cancels' = 0 => Attended(js)' = Cardinality(TakenIn)'
  BY <1>1, <1>4, <1>5 DEF SummaryInv, TakenInv, Attended
<1>7. js' \in Summary
  BY <1>1, <1>2, AddOutcomeCounts
<1> QED BY <1>1, <1>2, <1>6, <1>7 DEF SummaryInv, TakenInv

LEMMA CancelsGrow == ASSUME IndInv, Steps PROVE cancels' = 0 => cancels = 0
<1>1. CASE CancelPauseJobOrder
  BY <1>1 DEF CancelPauseJobOrder, ReadStatusToCancel, StoreDesiredStatus, CancelContext,
              IndInv, TypeOK
<1> QED BY <1>1, CancelFrame DEF Steps

\* Steps of anybody but the status manager, for what it keeps.
LEMMA OthersKeepTaken ==
  ASSUME SummaryInv, (Steps /\ ~StatusManager) \/ UNCHANGED vars,
         js' = js \/ Attended(js') = Attended(js), smPc' \in Ending => xferDoneDrained
  PROVE  TakenInv'
<1>1. CASE UNCHANGED vars
  BY <1>1 DEF SummaryInv, TakenInv, TakenIn, vars, drainVars, cancelVars, Attended
<1>2. CASE Steps /\ ~StatusManager
  <2>1. TakenIn' = TakenIn /\ \A t \in xferDone' : tpc'[t] \in Reported
    BY <1>2, TakenInStays DEF SummaryInv, TakenInv, IndInv
  <2>2. cancels' = 0 => cancels = 0
    BY <1>2, CancelsGrow DEF SummaryInv
  <2>3. xferDoneDrained' = xferDoneDrained
    BY <1>2 DEF Steps, FrontEnd, AddJobPart, SetFinalPartOrdered, QueueJobParts, SendJobPartCreatedMsg,
         Scheduler, StartScheduling, ScheduleTransfer, Transfer, StartTransfer, FinishTransfer,
         SendXferDoneMsg, CountTransfer, UpdateJobPartProgress, OfferPartProgress, ReceivePartDone,
         HandlerSteps, LoadFinalPartOrdered, DecideCompletion, CloseXferDone,
         WaitToDrainXferDone, ReadJobStatus, SetFinalJobStatus,
         CancelPauseJobOrder, ReadStatusToCancel, StoreDesiredStatus, CancelContext, drainVars
  <2> QED BY <2>1, <2>2, <2>3 DEF SummaryInv, TakenInv, Attended
<1> QED BY <1>1, <1>2

LEMMA CreatedCounts ==
  ASSUME SummaryInv, NEW p \in Parts, HandlePartCreated(p)
  PROVE  js' \in Summary /\ Attended(js') = Attended(js)
<1>1. js \in Summary /\ Cardinality(TransfersOf(p)) \in Nat
  BY CountedFinite, FS_CardinalityType DEF SummaryInv, SummaryTypeOK
<1> DEFINE n == Cardinality(TransfersOf(p))
<1>2. js' = [js EXCEPT !.ordered = @ \/ p = LastPart, !.total = @ + n]
  BY DEF HandlePartCreated
<1> HIDE DEF n
<1>3. js.ordered \in BOOLEAN /\ js.total \in Nat /\ js.total + n \in Nat
  BY <1>1 DEF Summary, n
<1>4. (js.ordered \/ p = LastPart) \in BOOLEAN
  OBVIOUS
<1>5. js' \in Summary
  BY <1>1, <1>2, <1>3, <1>4 DEF Summary
<1> QED BY <1>1, <1>2, <1>5 DEF Attended, Summary

\* Only the status manager's own steps take from xferDone or find it drained.
LEMMA TakerIsNotStatusManager ==
  ASSUME \/ AddJobPart \/ SetFinalPartOrdered \/ QueueJobParts
         \/ \E t \in Transfers : Transfer(t) \/ ReceivePartDone(t)
         \/ HandlerSteps
         \/ CancelPauseJobOrder
  PROVE  ~StatusManager
<1> USE DEF StatusManager, TakeXferDone, DrainXferDone, drainVars
<1>1. CASE AddJobPart \/ SetFinalPartOrdered \/ QueueJobParts
  BY <1>1 DEF AddJobPart, SetFinalPartOrdered, QueueJobParts
<1>2. ASSUME NEW t \in Transfers, Transfer(t) \/ ReceivePartDone(t) PROVE ~StatusManager
  BY <1>2 DEF Transfer, StartTransfer, FinishTransfer, SendXferDoneMsg, CountTransfer,
              UpdateJobPartProgress, OfferPartProgress, ReceivePartDone
<1>3. CASE HandlerSteps
  BY <1>3 DEF HandlerSteps, LoadFinalPartOrdered, DecideCompletion, CloseXferDone,
              WaitToDrainXferDone, ReadJobStatus, SetFinalJobStatus
<1>4. CASE CancelPauseJobOrder
  BY <1>4 DEF CancelPauseJobOrder, ReadStatusToCancel, StoreDesiredStatus, CancelContext
<1> QED BY <1>1, <1>2, <1>3, <1>4

LEMMA TakenInvStep ==
  ASSUME SummaryInv, SummarySteps
  PROVE  TakenInv'
<1>0. (Steps \/ UNCHANGED vars) /\ (smPc \in Ending => xferDoneDrained)
  BY SummaryStepIsStep DEF SummaryInv, TakenInv
<1>1. CASE SendPartCreated \/ \E t \in Transfers : ScheduleAndConfirm(t)
  <2>1. /\ (Steps /\ ~StatusManager) \/ UNCHANGED vars
        /\ UNCHANGED <<js, smPc>>
    BY <1>1 DEF SendPartCreated, SendJobPartCreatedMsg, ScheduleAndConfirm, ScheduleTransfer,
                Steps, Scheduler, FrontEnd, StatusManager, TakeXferDone, DrainXferDone, drainVars
  <2> QED BY <1>0, <2>1, OthersKeepTaken
<1>2. CASE ConfirmAllTransfersScheduled \/ Progressing \/ SelectClosedListReq
  <2>1. UNCHANGED <<vars, js, smPc>>
    BY <1>2 DEF ConfirmAllTransfersScheduled, Progressing, Poll, SelectStatusMgrDone,
                ReadPart0Status, ExitIfDone, SelectClosedListReq
  <2> QED BY <1>0, <2>1, OthersKeepTaken
<1>3. CASE \E p \in Parts : SchedulePart(p)
  <2>1. Steps /\ ~StatusManager /\ UNCHANGED <<js, smPc>>
    BY <1>3 DEF SchedulePart, StartScheduling, summaryVars, Steps, Scheduler, StatusManager,
                TakeXferDone, DrainXferDone, drainVars
  <2> QED BY <1>0, <2>1, OthersKeepTaken
<1>4. CASE JobMgrStep
  <2>1. Steps /\ UNCHANGED <<js, smPc>>
    BY <1>4 DEF JobMgrStep, summaryVars, Steps, FrontEnd
  <2>2. ~StatusManager
    BY <1>4, TakerIsNotStatusManager DEF JobMgrStep
  <2> QED BY <1>0, <2>1, <2>2, OthersKeepTaken
<1>5. ASSUME NEW p \in Parts, HandlePartCreated(p) PROVE TakenInv'
  <2>1. UNCHANGED <<vars, smPc>> /\ Attended(js') = Attended(js)
    BY <1>5, CreatedCounts DEF HandlePartCreated
  <2> QED BY <1>0, <2>1, OthersKeepTaken
<1>6. ASSUME NEW t \in Transfers, HandleXferDone(t) PROVE TakenInv'
  BY <1>6, HandleXferDoneKeeps
<1>7. CASE HandleXferDoneClosed
  BY <1>7 DEF HandleXferDoneClosed, DrainXferDone, summaryVars, cancelVars, SummaryInv, TakenInv,
              TakenIn, Attended
<1>8. CASE HandleListReq \/ SendSummary \/ CloseStep
  <2>1. UNCHANGED <<vars, js>> /\ (smPc' \in Ending => xferDoneDrained)
    BY <1>0, <1>8 DEF HandleListReq, SendSummary, CloseStep, Ending
  <2> QED BY <2>1, OthersKeepTaken
<1> QED BY <1>1, <1>2, <1>3, <1>4, <1>5, <1>6, <1>7, <1>8 DEF SummarySteps, StatusMgr

LEMMA SummaryTypeStep ==
  ASSUME SummaryInv, SummarySteps
  PROVE  SummaryTypeOK'
<1>0. SummaryTypeOK /\ TypeOK
  BY DEF SummaryInv, IndInv
<1>1. CASE SendPartCreated \/ \E t \in Transfers : ScheduleAndConfirm(t)
  <2>1. fePart \in Parts
    BY <1>0 DEF TypeOK
  <2>2. CASE SendPartCreated
    BY <1>0, <2>1, <2>2 DEF SendPartCreated, uiVars, SummaryTypeOK
  <2>3. CASE \E t \in Transfers : ScheduleAndConfirm(t)
    BY <1>0, <2>3 DEF ScheduleAndConfirm, uiVars, SummaryTypeOK
  <2> QED BY <1>1, <2>2, <2>3
<1>2. CASE ConfirmAllTransfersScheduled
  BY <1>0, <1>2 DEF ConfirmAllTransfersScheduled, uiVars, SummaryTypeOK
<1>3. CASE (\E p \in Parts : SchedulePart(p)) \/ JobMgrStep \/ HandleXferDoneClosed
  <2>1. UNCHANGED summaryVars
    BY <1>3 DEF SchedulePart, JobMgrStep, HandleXferDoneClosed
  <2> QED BY <1>0, <2>1 DEF summaryVars, uiVars, SummaryTypeOK
<1>4. ASSUME NEW p \in Parts, HandlePartCreated(p) PROVE SummaryTypeOK'
  <2>1. js' \in Summary
    BY <1>4, CreatedCounts
  <2> QED BY <1>0, <1>4, <2>1 DEF HandlePartCreated, uiVars, SummaryTypeOK
<1>5. ASSUME NEW t \in Transfers, HandleXferDone(t) PROVE SummaryTypeOK'
  <2>1. js' \in Summary
    BY <1>5, HandleXferDoneKeeps
  <2> QED BY <1>0, <1>5, <2>1 DEF HandleXferDone, uiVars, SummaryTypeOK
<1>6. CASE HandleListReq \/ SendSummary \/ CloseStep
  <2>1. CASE HandleListReq
    BY <1>0, <2>1 DEF HandleListReq, SummaryTypeOK
  <2>2. CASE SendSummary
    BY <1>0, <2>2 DEF SendSummary, SummaryTypeOK
  <2>3. CASE CloseStep
    BY <1>0, <2>3 DEF CloseStep, uiVars, SummaryTypeOK
  <2> QED BY <1>6, <2>1, <2>2, <2>3
<1>7. CASE Progressing \/ SelectClosedListReq
  <2>1. jobStatus \in JobStatuses
    BY <1>0 DEF TypeOK
  <2> QED BY <1>0, <1>7, <2>1 DEF Progressing, Poll, SelectStatusMgrDone, ReadPart0Status, ExitIfDone,
                                   SelectClosedListReq, SummaryTypeOK
<1> QED BY <1>1, <1>2, <1>3, <1>4, <1>5, <1>6, <1>7 DEF SummarySteps, StatusMgr

LEMMA SummaryInvStep == SummaryInv /\ [SummaryNext]_allVars => SummaryInv'
<1> SUFFICES ASSUME SummaryInv, [SummaryNext]_allVars PROVE SummaryInv'
  OBVIOUS
<1>1. CASE UNCHANGED allVars
  <2>1. UNCHANGED <<vars, summaryVars>>
    BY <1>1 DEF allVars
  <2>2. IndInv'
    BY <2>1, NextIndInv DEF SummaryInv
  <2>3. DrainInv' /\ UncancelledInv'
    BY <2>1 DEF SummaryInv, DrainInv, DrainedWhenDone, UncancelledInv, vars, cancelVars, drainVars,
                handlerVars
  <2>4. SummaryTypeOK' /\ TakenInv'
    BY <2>1 DEF SummaryInv, SummaryTypeOK, TakenInv, TakenIn, Attended, vars, cancelVars, drainVars,
                summaryVars, uiVars
  <2> QED BY <2>2, <2>3, <2>4 DEF SummaryInv
<1>2. CASE ~Ended /\ SummarySteps
  <2>1. CASE Steps
    <3>1. [Next]_vars
      BY <1>2, <2>1 DEF Next, Ended
    <3>2. IndInv' /\ DrainInv' /\ UncancelledInv'
      BY <2>1, <3>1, NextIndInv, DrainInvStep, UncancelledStep DEF SummaryInv, IndInv
    <3> QED BY <1>2, <3>2, TakenInvStep, SummaryTypeStep DEF SummaryInv
  <2>2. CASE UNCHANGED vars
    <3>1. IndInv'
      BY <2>2, NextIndInv DEF SummaryInv
    <3>2. DrainInv' /\ UncancelledInv'
      BY <2>2 DEF SummaryInv, DrainInv, DrainedWhenDone, UncancelledInv, vars, cancelVars, drainVars,
                  handlerVars
    <3> QED BY <1>2, <3>1, <3>2, TakenInvStep, SummaryTypeStep DEF SummaryInv
  <2> QED BY <1>2, <2>1, <2>2, SummaryStepIsStep
<1> QED BY <1>1, <1>2 DEF SummaryNext

LEMMA SummaryInitInv == SummaryInit => SummaryInv
<1> SUFFICES ASSUME SummaryInit PROVE SummaryInv
  OBVIOUS
<1>1. IndInv
  BY InitIndInv DEF SummaryInit
<1>2. DrainInv /\ UncancelledInv
  BY DEF SummaryInit, Init, DrainInv, DrainedWhenDone, DoneStatuses, UncancelledInv, Reported
<1>3. SummaryTypeOK
  BY DEF SummaryInit, SummaryTypeOK, EmptySummary, Summary, JobStatuses
<1>4. TakenInv
  <2>1. TakenIn = {}
    BY DEF SummaryInit, Init, TakenIn, Reported
  <2>2. Attended(js) = 0
    BY DEF SummaryInit, EmptySummary, Attended
  <2> QED BY <2>1, <2>2, FS_EmptySet DEF SummaryInit, Init, TakenInv, Ending
<1> QED BY <1>1, <1>2, <1>3, <1>4 DEF SummaryInv

\* What the status manager (handleStatusUpdateMessage) has when it gives up is
\* the final summary of a job nobody cancelled: it takes in every report before
\* it sees xferDone closed, and xferDone is closed after the last report.
THEOREM LastSummary == SummarySpec => []LastSummaryIsComplete
<1>1. SummaryInv => LastSummaryIsComplete
  <2> SUFFICES ASSUME SummaryInv, StatusMgrDone, cancels = 0
               PROVE  Attended(js) = Cardinality(Transfers)
    BY DEF LastSummaryIsComplete, SummaryInv
  <2>1. xferDoneClosed /\ xferDone = {}
    BY DEF SummaryInv, TakenInv, DrainInv, StatusMgrDone, Ending
  <2>2. \A t \in Transfers : tpc[t] \in Reported
    BY <2>1 DEF SummaryInv, IndInv, CloseInv, NeverCancelled, WholeJobReported
  <2>3. TakenIn = Transfers
    BY <2>1, <2>2 DEF TakenIn
  <2> QED BY <2>3 DEF SummaryInv, TakenInv
<1> QED BY <1>1, SummaryInitInv, SummaryInvStep, PTL DEF SummarySpec

=============================================================================
