-------------------------- MODULE JobResume_proofs --------------------------
(***************************************************************************)
(* Proofs that the plan files tell the truth about their transfers, over   *)
(* every number of lives, parts and transfers, and that a recorded success *)
(* is never transferred again; and that a plan file that was created gives *)
(* back what was written to it.                                            *)
(***************************************************************************)
EXTENDS JobResume, PlanFile, FiniteSetTheorems, SequenceTheorems, WellFoundedInduction, TLAPS

(* What ResumeTypeOK leaves out of the state in memory.                    *)
MemoryTypeOK ==
    /\ js \in [total : Nat, completed : Nat, failed : Nat, skipped : Nat, complete : BOOLEAN]
    /\ next \in Nat /\ finalPart \in BOOLEAN /\ partsDone \in Nat
    /\ ctxCancelled \in BOOLEAN /\ started \in BOOLEAN /\ allScheduled \in BOOLEAN

Going == {"ordering", "running"}
Final == DoneStatuses \ {"Cancelled"}
Open == {"InProgress", "Cancelling"}

DoneParts == {p \in Parts : \A t \in TransfersOf(p) : tpc[t] = "counted"}

(* Only a life that orders or runs the job moves its transfers, and a part *)
(* is scheduled once.                                                      *)
Idle ==
    /\ proc \notin Going => /\ \A t \in Transfers : tpc[t] = "idle"
                            /\ queue = {} /\ partsDone = 0 /\ prog = {} /\ ~ctxCancelled
    /\ \A t \in Transfers : PartOf[t] \in queue \/ PartOf[t] \notin known => tpc[t] = "idle"

Ordered ==
    /\ proc = "ordering" => /\ known = 0..(next - 1) /\ next <= LastPart + 1
                            /\ finalPart => next = LastPart + 1
    /\ proc \in {"listing", "resetting", "running"} => known = Parts
    /\ proc \in {"listing", "resetting"} => jobStatus \in Open

(* What a transfer's place in memory says of its status in the plan.       *)
Told ==
    \A t \in Transfers :
        /\ tpc[t] \in {"queued", "running"} => tstatus[t] # "success"
        /\ tpc[t] \in {"set", "counted"} => tstatus[t] # "started"
        /\ tstatus[t] = "success" => t \in stored

(* Until the job is completed the handler's counters are exact.            *)
Exact ==
    jobStatus \in Open => /\ partsDone = Cardinality(DoneParts)
                          /\ prog = {tstatus[t] : t \in {u \in Transfers : tpc[u] = "counted"}}

(* No transfer is cancelled in a job that nobody cancelled.                *)
Uncancelled ==
    jobStatus = "InProgress" /\ proc \in Going =>
        ~ctxCancelled /\ \A t \in Transfers : tstatus[t] # "cancelled"

(* Under a final status nothing moves any more.                            *)
AtRest ==
    jobStatus \in Final =>
        /\ \A t \in Transfers : tstatus[t] # "started" /\ tpc[t] \in {"idle", "counted"}
        /\ queue = {} /\ (proc = "ordering" => next = LastPart + 1)
        /\ jobStatus = "Completed" => \A t \in Transfers : tstatus[t] = "success"

(* A success that is still to be reported is not counted yet.              *)
Reported == {t \in Transfers : tstatus[t] = "success" /\ tpc[t] # "set"}

ResumeInv ==
    /\ ResumeTypeOK /\ MemoryTypeOK /\ Idle /\ Ordered /\ Told /\ Exact /\ Uncancelled /\ AtRest
    /\ js.completed <= Cardinality(Reported)

-----------------------------------------------------------------------------
(* Sets of parts and of transfers.                                         *)

LEMMA PartsFinite ==
  IsFiniteSet(Parts) /\ IsFiniteSet(Transfers) /\ \A t \in Transfers : PartOf[t] \in Parts
  BY ResumeAssumption, FS_Interval DEF Parts

LEMMA TransfersFinite ==
  ASSUME NEW S \in SUBSET Transfers
  PROVE  IsFiniteSet(S) /\ Cardinality(S) \in Nat
  BY PartsFinite, FS_Subset, FS_CardinalityType

(* A set of transfers that grows, and one that gains a transfer.           *)
LEMMA MoreTransfers ==
  ASSUME NEW S \in SUBSET Transfers, NEW T \in SUBSET Transfers, S \subseteq T
  PROVE  Cardinality(S) <= Cardinality(T)
  BY TransfersFinite, FS_Subset

LEMMA OneMoreTransfer ==
  ASSUME NEW S \in SUBSET Transfers, NEW T \in SUBSET Transfers, S \subseteq T,
         NEW t \in T, t \notin S
  PROVE  Cardinality(S) + 1 <= Cardinality(T)
<1>1. Cardinality(S \cup {t}) = Cardinality(S) + 1
  BY TransfersFinite, FS_AddElement
<1>2. Cardinality(S \cup {t}) <= Cardinality(T)
  BY MoreTransfers
<1> QED BY <1>1, <1>2

(* The parts whose transfers are counted are known, and when they are as   *)
(* many as the known ones they are all of them.                            *)
LEMMA DonePartsKnown ==
  ASSUME ResumeInv
  PROVE  /\ DoneParts \subseteq known /\ IsFiniteSet(known) /\ IsFiniteSet(DoneParts)
         /\ Cardinality(DoneParts) \in Nat /\ Cardinality(known) \in Nat
         /\ Cardinality(DoneParts) = Cardinality(known) => DoneParts = known
<1>1. known \subseteq Parts
  BY DEF ResumeInv, ResumeTypeOK
<1>2. ASSUME NEW p \in DoneParts PROVE p \in known
  <2>1. PICK t \in TransfersOf(p) : tpc[t] = "counted"
    BY ResumeAssumption DEF DoneParts
  <2>2. t \in Transfers /\ PartOf[t] = p /\ tpc[t] # "idle"
    BY <2>1 DEF TransfersOf
  <2> QED BY <2>2 DEF ResumeInv, Idle
<1>3. IsFiniteSet(known) /\ IsFiniteSet(DoneParts)
  BY <1>1, <1>2, PartsFinite, FS_Subset
<1> QED BY <1>2, <1>3, FS_Subset, FS_CardinalityType

-----------------------------------------------------------------------------
(* The steps.                                                              *)

(* A step that moves no transfer and no count.                             *)
LEMMA SteadyKeeps ==
  ASSUME ResumeInv, ResumeTypeOK', MemoryTypeOK',
         UNCHANGED <<tstatus, jobStatus, proc, next, known, finalPart, queue, tpc, partsDone,
                     prog, ctxCancelled>>,
         stored \subseteq stored', js'.completed = js.completed
  PROVE  ResumeInv'
  BY DEF ResumeInv, Idle, Ordered, Told, Exact, DoneParts, Uncancelled, AtRest, Reported

LEMMA CreatePlanHeaderKeeps ==
  ASSUME ResumeInv, CreatePlanHeader
  PROVE  ResumeInv'
<1>1. ResumeTypeOK' /\ MemoryTypeOK'
  BY DEF ResumeInv, ResumeTypeOK, MemoryTypeOK, CreatePlanHeader, memVars
<1> QED BY <1>1, SteadyKeeps DEF CreatePlanHeader, memVars

LEMMA StartStatusManagerKeeps ==
  ASSUME ResumeInv, StartStatusManager
  PROVE  ResumeInv'
<1>1. ResumeTypeOK' /\ MemoryTypeOK' /\ js'.completed = js.completed
  BY DEF ResumeInv, ResumeTypeOK, MemoryTypeOK, StartStatusManager, diskVars
<1> QED BY <1>1, SteadyKeeps DEF StartStatusManager, diskVars

LEMMA StoreDataKeeps ==
  ASSUME ResumeInv, NEW t \in Transfers, StoreData(t)
  PROVE  ResumeInv'
<1>1. ResumeTypeOK' /\ MemoryTypeOK'
  BY DEF ResumeInv, ResumeTypeOK, MemoryTypeOK, StoreData, memVars
<1> QED BY <1>1, SteadyKeeps DEF StoreData, memVars

LEMMA RemovePlanFileKeeps ==
  ASSUME ResumeInv, RemovePlanFile
  PROVE  ResumeInv'
<1>1. ResumeTypeOK' /\ MemoryTypeOK'
  BY DEF ResumeInv, ResumeTypeOK, MemoryTypeOK, RemovePlanFile, memVars
<1> QED BY <1>1, SteadyKeeps DEF RemovePlanFile, memVars

(* The memory of a life is lost, or was never filled.                      *)
LEMMA ForgottenKeeps ==
  ASSUME ResumeInv, ResumeTypeOK', MemoryTypeOK', UNCHANGED <<tstatus, jobStatus, stored>>,
         proc' \notin Going \cup {"listing", "resetting"},
         \A t \in Transfers : tpc'[t] = "idle",
         queue' = {}, partsDone' = 0, prog' = {}, ctxCancelled' = FALSE,
         js'.completed <= Cardinality({t \in Transfers : tstatus[t] = "success"})
  PROVE  ResumeInv'
<1>1. Idle' /\ Ordered'
  BY DEF Idle, Ordered, Going
<1>2. Told' /\ Uncancelled' /\ AtRest'
  BY DEF ResumeInv, Told, Uncancelled, AtRest, Going
<1>3. Exact'
  <2>1. DoneParts' = {}
    BY ResumeAssumption DEF DoneParts, TransfersOf
  <2>2. Cardinality(DoneParts') = 0
    BY <2>1, FS_EmptySet
  <2>3. {tstatus[t] : t \in {u \in Transfers : tpc[u] = "counted"}}' = {}
    OBVIOUS
  <2> QED BY <2>2, <2>3 DEF Exact
<1>4. Reported' = {t \in Transfers : tstatus[t] = "success"}
  BY DEF Reported
<1> QED BY <1>1, <1>2, <1>3, <1>4 DEF ResumeInv

LEMMA LoseMemoryKeeps ==
  ASSUME ResumeInv, LoseMemory, proc' = "down", UNCHANGED <<diskVars, lives>>
  PROVE  ResumeInv'
<1>1. ResumeTypeOK' /\ MemoryTypeOK'
  BY DEF ResumeInv, ResumeTypeOK, MemoryTypeOK, LoseMemory, NoSummary, diskVars
<1>2. js'.completed <= Cardinality({t \in Transfers : tstatus[t] = "success"})
  BY TransfersFinite DEF LoseMemory, NoSummary
<1> QED BY <1>1, <1>2, ForgottenKeeps DEF LoseMemory, diskVars, Going

(* A job is resurrected while its transfers are idle.                      *)
LEMMA ResurrectKeeps ==
  ASSUME ResumeInv, NEW from \in {"down", "resurrected"}, NEW to \in {"resurrected", "ordered?"},
         Resurrect(from, to), lives' \in 1..MaxLives
  PROVE  ResumeInv'
<1> DEFINE Successes == {t \in Transfers : tstatus[t] = "success"}
<1>1. /\ proc \notin Going /\ \A t \in Transfers : tpc[t] = "idle"
      /\ queue = {} /\ partsDone = 0 /\ prog = {} /\ ctxCancelled = FALSE
  BY DEF Resurrect, Going, ResumeInv, Idle, MemoryTypeOK
<1>2. CASE proc' = "down" /\ LoseMemory /\ UNCHANGED diskVars
  <2>1. ResumeTypeOK' /\ MemoryTypeOK'
    BY <1>2 DEF ResumeInv, ResumeTypeOK, MemoryTypeOK, LoseMemory, NoSummary, diskVars
  <2>2. js'.completed <= Cardinality(Successes)
    BY <1>2, TransfersFinite DEF LoseMemory, NoSummary
  <2> QED BY <1>2, <2>1, <2>2, ForgottenKeeps DEF LoseMemory, diskVars, Going
<1>3. CASE /\ proc' = to /\ known' = PlansFound /\ finalPart' = (LastPart \in PlansFound)
           /\ js' = ResurrectedSummary
           /\ UNCHANGED <<next, queue, tpc, partsDone, prog, ctxCancelled, started, allScheduled>>
           /\ UNCHANGED diskVars
  <2>1. /\ CountIn({"success"}) \in Nat /\ CountIn({"failed"}) \in Nat
        /\ CountIn({"skipped"}) \in Nat
        /\ Cardinality({t \in Transfers : PartOf[t] \in PlansFound}) \in Nat
    BY TransfersFinite DEF CountIn
  <2>2. js' \in [total : Nat, completed : Nat, failed : Nat, skipped : Nat, complete : BOOLEAN]
    BY <1>3, <2>1 DEF ResurrectedSummary
  <2>3. ResumeTypeOK' /\ MemoryTypeOK'
    BY <1>1, <1>3, <2>2 DEF ResumeInv, ResumeTypeOK, MemoryTypeOK, PlansFound, diskVars
  <2>4. CountIn({"success"}) <= Cardinality(Successes)
    BY MoreTransfers DEF CountIn
  <2>5. js'.completed <= Cardinality(Successes)
    BY <1>3, <2>4 DEF ResurrectedSummary
  <2> QED BY <1>1, <1>3, <2>3, <2>5, ForgottenKeeps DEF diskVars, Going
<1> QED BY <1>2, <1>3 DEF Resurrect

LEMMA RefuseToResumeKeeps ==
  ASSUME ResumeInv, RefuseToResume
  PROVE  ResumeInv'
<1>1. ResumeTypeOK' /\ MemoryTypeOK'
  BY DEF ResumeInv, ResumeTypeOK, MemoryTypeOK, RefuseToResume, diskVars, memVars
<1>2. /\ \A t \in Transfers : tpc[t] = "idle"
      /\ queue = {} /\ partsDone = 0 /\ prog = {} /\ ctxCancelled = FALSE
  BY DEF RefuseToResume, Going, ResumeInv, Idle, MemoryTypeOK
<1>3. Reported = {t \in Transfers : tstatus[t] = "success"}
  BY <1>2 DEF Reported
<1> QED BY <1>1, <1>2, <1>3, ForgottenKeeps DEF ResumeInv, RefuseToResume, diskVars, memVars, Going

(* A job completely ordered has all of its parts.                          *)
LEMMA SetInProgressKeeps ==
  ASSUME ResumeInv, SetInProgress
  PROVE  ResumeInv'
<1>1. ResumeTypeOK' /\ MemoryTypeOK'
  BY DEF ResumeInv, ResumeTypeOK, MemoryTypeOK, SetInProgress, memVars, DoneStatuses
<1>2. /\ \A t \in Transfers : tpc[t] = "idle"
      /\ queue = {} /\ partsDone = 0 /\ prog = {} /\ ctxCancelled = FALSE
  BY DEF SetInProgress, Going, ResumeInv, Idle, MemoryTypeOK
<1>3. known = Parts
  BY ResumeAssumption DEF SetInProgress, CompletelyOrdered, Parts, ResumeInv, ResumeTypeOK
<1>4. /\ UNCHANGED <<tstatus, stored, memVars>>
      /\ \/ proc' = "ordered?" /\ jobStatus' = "Cancelled"
         \/ proc' = "listing" /\ jobStatus' = "InProgress"
  BY DEF SetInProgress
<1>5. Idle' /\ Ordered' /\ Told' /\ Uncancelled' /\ AtRest'
  <2>1. jobStatus' \notin Final /\ proc' \notin Going
    BY <1>4 DEF Final, DoneStatuses, Going
  <2>2. Idle' /\ Told'
    BY <1>2, <1>4 DEF ResumeInv, Idle, Told, memVars
  <2>3. Ordered'
    BY <1>3, <1>4 DEF Ordered, Open, memVars
  <2> QED BY <2>1, <2>2, <2>3 DEF Uncancelled, AtRest
<1>6. Exact'
  <2>1. DoneParts' = {}
    BY <1>2, <1>4, ResumeAssumption DEF DoneParts, TransfersOf, memVars
  <2>2. Cardinality(DoneParts') = 0
    BY <2>1, FS_EmptySet
  <2>3. {tstatus[t] : t \in {u \in Transfers : tpc[u] = "counted"}}' = {}
    BY <1>2, <1>4 DEF memVars
  <2> QED BY <1>2, <1>4, <2>2, <2>3 DEF Exact, memVars
<1>7. (js.completed <= Cardinality(Reported))'
  BY <1>4 DEF ResumeInv, Reported, memVars
<1> QED BY <1>1, <1>5, <1>6, <1>7 DEF ResumeInv

LEMMA ForceSummaryInProgressKeeps ==
  ASSUME ResumeInv, ForceSummaryInProgress
  PROVE  ResumeInv'
<1>1. ResumeTypeOK' /\ MemoryTypeOK'
  BY DEF ResumeInv, ResumeTypeOK, MemoryTypeOK, ForceSummaryInProgress, memVars, diskVars
<1> QED BY <1>1 DEF ForceSummaryInProgress, ResumeInv, Idle, Ordered, Told, Exact, DoneParts,
                    Uncancelled, AtRest, Reported, Going, memVars, diskVars

(* What did not succeed is pending again, before anything is scheduled.    *)
LEMMA ResetTransferKeeps ==
  ASSUME ResumeInv, NEW t \in Transfers, ResetTransfer(t)
  PROVE  ResumeInv'
<1>1. ResumeTypeOK' /\ MemoryTypeOK'
  BY DEF ResumeInv, ResumeTypeOK, MemoryTypeOK, ResetTransfer, memVars
<1>2. /\ \A u \in Transfers : tpc[u] = "idle" /\ tpc'[u] = "idle"
      /\ jobStatus \in Open /\ jobStatus' = jobStatus /\ proc' = "resetting"
  BY DEF ResetTransfer, Going, ResumeInv, Idle, Ordered, memVars
<1>3. \A u \in Transfers : tstatus'[u] = "success" <=> tstatus[u] = "success"
  BY DEF ResetTransfer, Negative, ResumeInv, ResumeTypeOK
<1>4. Idle' /\ Ordered'
  BY DEF ResetTransfer, ResumeInv, Idle, Ordered, memVars
<1>5. Told' /\ Uncancelled' /\ AtRest'
  BY <1>2, <1>3 DEF ResetTransfer, ResumeInv, Told, Uncancelled, AtRest, Going, Open, Final,
                    DoneStatuses
<1>6. Exact'
  <2>1. DoneParts' = DoneParts
    BY DEF DoneParts, ResetTransfer, memVars
  <2>2. {u \in Transfers : tpc[u] = "counted"} = {} /\ {u \in Transfers : tpc[u] = "counted"}' = {}
    BY <1>2
  <2> QED BY <1>2, <2>1, <2>2 DEF ResumeInv, Exact, ResetTransfer, memVars
<1>7. Reported' = Reported
  BY <1>2, <1>3 DEF Reported
<1>8. js' = js
  BY DEF ResetTransfer, memVars
<1> QED BY <1>1, <1>4, <1>5, <1>6, <1>7, <1>8 DEF ResumeInv

LEMMA ResumeTransfersKeeps ==
  ASSUME ResumeInv, ResumeTransfers
  PROVE  ResumeInv'
<1>1. ResumeTypeOK' /\ MemoryTypeOK'
  BY DEF ResumeInv, ResumeTypeOK, MemoryTypeOK, ResumeTransfers, diskVars
<1>2. /\ \A t \in Transfers : tpc[t] = "idle" /\ tstatus[t] # "cancelled"
      /\ jobStatus \in Open /\ known = Parts /\ partsDone = 0 /\ proc # "ordering"
  BY DEF ResumeTransfers, Going, ResumeInv, Idle, Ordered, Negative
<1>3. Idle' /\ Ordered' /\ Told' /\ Uncancelled' /\ AtRest'
  BY <1>2 DEF ResumeTransfers, ResumeInv, Idle, Ordered, Told, Uncancelled, AtRest, Going, Open,
              Final, DoneStatuses, diskVars
<1>4. Exact' /\ Reported' = Reported
  BY <1>2 DEF ResumeTransfers, ResumeInv, Exact, DoneParts, Reported, diskVars
<1> QED BY <1>1, <1>3, <1>4 DEF ResumeInv, ResumeTransfers

LEMMA CancelKeeps ==
  ASSUME ResumeInv, CancelJob \/ CancelCommand
  PROVE  ResumeInv'
<1>1. ResumeTypeOK' /\ MemoryTypeOK'
  BY DEF ResumeInv, ResumeTypeOK, MemoryTypeOK, CancelJob, CancelCommand, memVars
<1>2. /\ jobStatus = "InProgress" /\ jobStatus' = "Cancelling"
      /\ UNCHANGED <<tstatus, stored, proc, next, known, finalPart, queue, tpc, partsDone, prog, js>>
      /\ ctxCancelled' # ctxCancelled => proc \in Going
  BY DEF CancelJob, CancelCommand, CanCancel, memVars, Going
<1>3. Idle' /\ Ordered' /\ Told' /\ Uncancelled' /\ AtRest'
  BY <1>2 DEF ResumeInv, Idle, Ordered, Told, Uncancelled, AtRest, Open, Final, DoneStatuses
<1>4. Exact' /\ Reported' = Reported
  BY <1>2 DEF ResumeInv, Exact, DoneParts, Reported, Open
<1> QED BY <1>1, <1>2, <1>3, <1>4 DEF ResumeInv

-----------------------------------------------------------------------------
(* The next part of a job is ordered: it waits to be scheduled.            *)
LEMMA OrderPartKeeps ==
  ASSUME ResumeInv, OrderPart
  PROVE  ResumeInv'
<1>1. /\ proc = "ordering" /\ next \in Nat /\ next <= LastPart /\ next \in Parts
      /\ known = 0..(next - 1) /\ next \notin known
  BY ResumeAssumption DEF OrderPart, ResumeInv, Ordered, MemoryTypeOK, Parts
<1>2. jobStatus \notin Final
  BY <1>1, ResumeAssumption DEF ResumeInv, AtRest
<1>3. /\ known' = known \cup {next} /\ queue' = queue \cup {next}
      /\ finalPart' = (next = LastPart) /\ next' = next + 1
      /\ UNCHANGED <<tstatus, jobStatus, stored, lives, proc, tpc, partsDone, prog,
                     ctxCancelled, started, allScheduled>>
      /\ file' = [file EXCEPT ![next] = "whole"]
      /\ js'.completed = js.completed
  BY DEF OrderPart, ResumeInv, MemoryTypeOK
<1>4. MemoryTypeOK'
  <2> DEFINE c == Cardinality(TransfersOf(next))
             n == js.total + c
  <2>1. c \in Nat
    BY TransfersFinite DEF TransfersOf
  <2>2. js.total \in Nat
    BY DEF ResumeInv, MemoryTypeOK
  <2>3. n \in Nat
    BY <2>1, <2>2
  <2>4. js' = [js EXCEPT !.total = n, !.complete = @ \/ next = LastPart]
    BY DEF OrderPart
  <2> HIDE DEF n
  <2>5. js' \in [total : Nat, completed : Nat, failed : Nat, skipped : Nat, complete : BOOLEAN]
    BY <2>3, <2>4 DEF ResumeInv, MemoryTypeOK
  <2>6. next' \in Nat
    BY <1>1, <1>3
  <2> QED BY <1>3, <2>5, <2>6 DEF ResumeInv, MemoryTypeOK
<1>5. ResumeTypeOK'
  BY <1>1, <1>3 DEF ResumeInv, ResumeTypeOK
<1>6. Idle'
  BY <1>1, <1>3 DEF ResumeInv, Idle, Going
<1>7. Ordered'
  <2>1. known' = 0..(next' - 1)
    BY <1>1, <1>3
  <2>2. next' <= LastPart + 1 /\ (finalPart' => next' = LastPart + 1)
    <3>1. next' = next + 1 /\ (finalPart' => next = LastPart)
      BY <1>3, Zenon
    <3>2. next + 1 <= LastPart + 1
      BY <1>1, ResumeAssumption
    <3> QED BY <3>1, <3>2, Zenon
  <2> QED BY <1>1, <1>3, <2>1, <2>2 DEF Ordered
<1>8. Told' /\ Exact' /\ Uncancelled' /\ AtRest' /\ Reported' = Reported
  BY <1>2, <1>3 DEF ResumeInv, Told, Exact, DoneParts, Uncancelled, AtRest, Reported
<1> QED BY <1>3, <1>4, <1>5, <1>6, <1>7, <1>8 DEF ResumeInv

(* A queued part is scheduled; what succeeded before only counts.          *)
LEMMA SchedulePartKeeps ==
  ASSUME ResumeInv, NEW p \in Parts, SchedulePart(p)
  PROVE  ResumeInv'
<1> DEFINE done == {t \in TransfersOf(p) : tstatus[t] = "success"}
<1>1. /\ p \in queue /\ queue' = queue \ {p}
      /\ tpc' = [t \in Transfers |-> IF PartOf[t] # p THEN tpc[t]
                                     ELSE IF t \in done THEN "counted" ELSE "queued"]
      /\ partsDone' = partsDone + (IF done = TransfersOf(p) THEN 1 ELSE 0)
      /\ prog' = prog \cup (IF done = {} THEN {} ELSE {"success"})
      /\ allScheduled' \in BOOLEAN
      /\ UNCHANGED <<diskVars, lives, proc, next, known, finalPart, ctxCancelled, js, started>>
  BY DEF SchedulePart, ResumeInv, MemoryTypeOK
<1>2. p \in known /\ proc \in Going
  BY <1>1 DEF ResumeInv, ResumeTypeOK, Idle
<1>3. \A t \in TransfersOf(p) : tpc[t] = "idle"
  BY <1>1 DEF ResumeInv, Idle, TransfersOf
<1>4. \A t \in Transfers : /\ PartOf[t] # p => tpc'[t] = tpc[t]
                           /\ t \in done => tpc'[t] = "counted"
                           /\ t \in TransfersOf(p) \ done => tpc'[t] = "queued"
  BY <1>1 DEF TransfersOf
<1>5. partsDone \in Nat
  BY DEF ResumeInv, MemoryTypeOK
<1>6. ResumeTypeOK'
  BY <1>1, <1>2 DEF ResumeInv, ResumeTypeOK, diskVars
<1>7. MemoryTypeOK'
  BY <1>1, <1>5 DEF ResumeInv, MemoryTypeOK
<1>8. Idle'
  BY <1>1, <1>2, <1>4 DEF ResumeInv, Idle, TransfersOf
<1>9. Ordered' /\ Uncancelled'
  BY <1>1 DEF ResumeInv, Ordered, Uncancelled, diskVars
<1>10. Told'
  <2> SUFFICES ASSUME NEW t \in Transfers
               PROVE  /\ tpc'[t] \in {"queued", "running"} => tstatus[t] # "success"
                      /\ tpc'[t] \in {"set", "counted"} => tstatus[t] # "started"
                      /\ tstatus[t] = "success" => t \in stored
    BY <1>1 DEF Told, diskVars
  <2> QED BY <1>4 DEF TransfersOf, ResumeInv, Told
<1>11. AtRest'
  BY <1>1 DEF ResumeInv, AtRest, diskVars
<1>12. Exact'
  <2> SUFFICES ASSUME jobStatus \in Open
               PROVE  /\ partsDone' = Cardinality(DoneParts')
                      /\ prog' = {tstatus[t] : t \in {u \in Transfers : tpc'[u] = "counted"}}
    BY <1>1 DEF Exact, diskVars
  <2>1. partsDone = Cardinality(DoneParts)
        /\ prog = {tstatus[t] : t \in {u \in Transfers : tpc[u] = "counted"}}
    BY DEF ResumeInv, Exact
  <2>2. {u \in Transfers : tpc'[u] = "counted"} = {u \in Transfers : tpc[u] = "counted"} \cup done
    BY <1>3, <1>4 DEF TransfersOf
  <2>3. prog' = {tstatus[t] : t \in {u \in Transfers : tpc'[u] = "counted"}}
    BY <1>1, <2>1, <2>2
  <2>4. p \notin DoneParts
    BY <1>3, ResumeAssumption DEF DoneParts
  <2>5. \A q \in Parts : q # p => (q \in DoneParts' <=> q \in DoneParts)
    BY <1>4 DEF DoneParts, TransfersOf
  <2>6. p \in DoneParts' <=> done = TransfersOf(p)
    BY <1>4 DEF DoneParts, TransfersOf
  <2>7. DoneParts' = IF done = TransfersOf(p) THEN DoneParts \cup {p} ELSE DoneParts
    BY <2>4, <2>5, <2>6 DEF DoneParts
  <2>8. Cardinality(DoneParts \cup {p}) = Cardinality(DoneParts) + 1
    BY <2>4, DonePartsKnown, FS_AddElement
  <2>9. partsDone' = Cardinality(DoneParts')
    <3>1. CASE done = TransfersOf(p)
      BY <1>1, <2>1, <2>7, <2>8, <3>1, Zenon
    <3>2. CASE done # TransfersOf(p)
      <4>1. partsDone' = partsDone
        BY <1>1, <1>5, <3>2
      <4> QED BY <2>1, <2>7, <3>2, <4>1
    <3> QED BY <3>1, <3>2
  <2> QED BY <2>3, <2>9
<1>13. (js.completed <= Cardinality(Reported))'
  <2>1. Reported' \in SUBSET Transfers /\ Reported \subseteq Reported'
    BY <1>1, <1>4 DEF Reported, TransfersOf, diskVars
  <2>2. Cardinality(Reported) <= Cardinality(Reported')
    BY <2>1, MoreTransfers DEF Reported
  <2>3. js' = js /\ js.completed \in Nat /\ js.completed <= Cardinality(Reported)
    BY <1>1 DEF ResumeInv, MemoryTypeOK
  <2>4. Cardinality(Reported) \in Nat /\ Cardinality(Reported') \in Nat
    BY <2>1, TransfersFinite
  <2> QED BY <2>2, <2>3, <2>4
<1> QED BY <1>6, <1>7, <1>8, <1>9, <1>10, <1>11, <1>12, <1>13 DEF ResumeInv

LEMMA StartTransferKeeps ==
  ASSUME ResumeInv, NEW t \in Transfers, StartTransfer(t)
  PROVE  ResumeInv'
<1>1. ResumeTypeOK' /\ MemoryTypeOK'
  BY DEF ResumeInv, ResumeTypeOK, MemoryTypeOK, StartTransfer, diskVars
<1>2. tpc[t] = "queued" /\ tpc' = [tpc EXCEPT ![t] = "running"] /\ tpc \in [Transfers -> {"idle", "queued", "running", "set", "counted"}]
      /\ UNCHANGED <<diskVars, lives, proc, next, known, finalPart, queue, partsDone,
                     prog, ctxCancelled, js, started, allScheduled>>
  BY DEF StartTransfer, ResumeInv, ResumeTypeOK
<1>3. Idle' /\ Ordered' /\ Told' /\ Uncancelled' /\ AtRest'
  BY <1>2 DEF ResumeInv, Idle, Ordered, Told, Uncancelled, AtRest, diskVars
<1>4. DoneParts' = DoneParts
      /\ {u \in Transfers : tpc'[u] = "counted"} = {u \in Transfers : tpc[u] = "counted"}
  BY <1>2 DEF DoneParts, TransfersOf
<1>5. Exact'
  BY <1>2, <1>4 DEF ResumeInv, Exact, diskVars
<1>6. Reported' = Reported
  BY <1>2 DEF Reported, diskVars
<1> QED BY <1>1, <1>2, <1>3, <1>5, <1>6 DEF ResumeInv

LEMMA SetTransferStatusKeeps ==
  ASSUME ResumeInv, NEW t \in Transfers, SetTransferStatus(t)
  PROVE  ResumeInv'
<1>1. PICK s \in EndsOf(t) : tstatus' = [tstatus EXCEPT ![t] = IF @ \in Negative THEN @ ELSE s]
  BY DEF SetTransferStatus
<1>2. /\ tpc[t] = "running" /\ tpc' = [tpc EXCEPT ![t] = "set"]
      /\ UNCHANGED <<file, jobStatus, stored, lives, proc, next, known, finalPart, queue,
                     partsDone, prog, ctxCancelled, js, started, allScheduled>>
  BY DEF SetTransferStatus
<1>3. /\ tstatus \in [Transfers -> {"started", "success"} \cup Negative]
      /\ tpc \in [Transfers -> {"idle", "queued", "running", "set", "counted"}]
  BY DEF ResumeInv, ResumeTypeOK
<1>4. /\ tstatus[t] # "success" /\ PartOf[t] \in known /\ PartOf[t] \notin queue
      /\ proc \in Going /\ jobStatus \notin Final
  BY <1>2 DEF ResumeInv, Told, Idle, AtRest
<1>5. /\ s \in {"success", "failed", "skipped", "cancelled"}
      /\ s = "success" => t \in stored
      /\ s = "cancelled" => ctxCancelled
  BY ResumeAssumption DEF EndsOf
<1>6. /\ tpc'[t] = "set" /\ tstatus'[t] \in {tstatus[t], s} /\ tstatus'[t] # "started"
      /\ tstatus' \in [Transfers -> {"started", "success"} \cup Negative]
      /\ \A u \in Transfers : u # t => tpc'[u] = tpc[u] /\ tstatus'[u] = tstatus[u]
  BY <1>1, <1>2, <1>3, <1>5 DEF Negative
<1>7. ResumeTypeOK' /\ MemoryTypeOK'
  BY <1>2, <1>3, <1>6 DEF ResumeInv, ResumeTypeOK, MemoryTypeOK
<1>8. Idle' /\ Ordered' /\ AtRest'
  BY <1>2, <1>4, <1>6 DEF ResumeInv, Idle, Ordered, AtRest
<1>9. Told'
  BY <1>2, <1>4, <1>5, <1>6 DEF ResumeInv, Told
<1>10. Uncancelled'
  BY <1>2, <1>5, <1>6 DEF ResumeInv, Uncancelled
<1>11. Exact'
  <2>1. DoneParts' = DoneParts
    BY <1>2, <1>6 DEF DoneParts, TransfersOf
  <2>2. {u \in Transfers : tpc'[u] = "counted"} = {u \in Transfers : tpc[u] = "counted"}
        /\ \A u \in {v \in Transfers : tpc[v] = "counted"} : tstatus'[u] = tstatus[u]
    BY <1>2, <1>6
  <2>3. {tstatus'[u] : u \in {v \in Transfers : tpc'[v] = "counted"}}
          = {tstatus[u] : u \in {v \in Transfers : tpc[v] = "counted"}}
    BY <2>2
  <2> QED BY <1>2, <2>1, <2>3 DEF ResumeInv, Exact
<1>12. Reported' = Reported
  BY <1>4, <1>6 DEF Reported
<1> QED BY <1>2, <1>7, <1>8, <1>9, <1>10, <1>11, <1>12 DEF ResumeInv

(* The end of a transfer is counted; the last one of a part ends the part. *)
LEMMA ReportTransferDoneKeeps ==
  ASSUME ResumeInv, NEW t \in Transfers, ReportTransferDone(t)
  PROVE  ResumeInv'
<1> DEFINE p == PartOf[t]
           whole == \A u \in TransfersOf(p) : tpc'[u] = "counted"
<1>1. /\ tpc[t] = "set" /\ tpc' = [tpc EXCEPT ![t] = "counted"]
      /\ prog' = prog \cup {tstatus[t]}
      /\ partsDone' = partsDone + (IF whole THEN 1 ELSE 0)
      /\ UNCHANGED <<diskVars, lives, proc, next, known, finalPart, queue, ctxCancelled,
                     started, allScheduled>>
  BY DEF ReportTransferDone
<1>2. /\ tstatus \in [Transfers -> {"started", "success"} \cup Negative]
      /\ tpc \in [Transfers -> {"idle", "queued", "running", "set", "counted"}]
      /\ partsDone \in Nat /\ js.completed \in Nat
      /\ js \in [total : Nat, completed : Nat, failed : Nat, skipped : Nat, complete : BOOLEAN]
  BY DEF ResumeInv, ResumeTypeOK, MemoryTypeOK
<1>3. /\ tpc'[t] = "counted" /\ \A u \in Transfers : u # t => tpc'[u] = tpc[u]
      /\ tpc' \in [Transfers -> {"idle", "queued", "running", "set", "counted"}]
  BY <1>1, <1>2
<1>4. /\ p \in known /\ p \notin queue /\ proc \in Going /\ jobStatus \notin Final /\ p \in Parts
  BY <1>1, PartsFinite DEF ResumeInv, Idle, AtRest
<1>5. /\ js' \in [total : Nat, completed : Nat, failed : Nat, skipped : Nat, complete : BOOLEAN]
      /\ tstatus[t] = "success" => js'.completed = js.completed + 1
      /\ tstatus[t] # "success" => js'.completed = js.completed
  <2> DEFINE c == js.completed + 1
             f == js.failed + 1
             k == js.skipped + 1
  <2>1. js.failed \in Nat /\ js.skipped \in Nat
    BY <1>2
  <2>2. c \in Nat /\ f \in Nat /\ k \in Nat
    BY <1>2, <2>1
  <2>3. js' = CASE tstatus[t] = "success" -> [js EXCEPT !.completed = c]
                [] tstatus[t] = "failed"  -> [js EXCEPT !.failed = f]
                [] tstatus[t] = "skipped" -> [js EXCEPT !.skipped = k]
                [] OTHER                  -> js
    BY DEF ReportTransferDone
  <2> HIDE DEF c, f, k
  <2>4. /\ js' \in [total : Nat, completed : Nat, failed : Nat, skipped : Nat, complete : BOOLEAN]
        /\ tstatus[t] = "success" => js'.completed = c
        /\ tstatus[t] # "success" => js'.completed = js.completed
    <3>1. CASE tstatus[t] = "success"
      <4>1. js' = [js EXCEPT !.completed = c]
        BY <2>3, <3>1
      <4> QED BY <1>2, <2>2, <3>1, <4>1
    <3>2. CASE tstatus[t] = "failed"
      <4>1. js' = [js EXCEPT !.failed = f]
        BY <2>3, <3>2
      <4> QED BY <1>2, <2>2, <3>2, <4>1
    <3>3. CASE tstatus[t] = "skipped"
      <4>1. js' = [js EXCEPT !.skipped = k]
        BY <2>3, <3>3
      <4> QED BY <1>2, <2>2, <3>3, <4>1
    <3>4. CASE tstatus[t] \notin {"success", "failed", "skipped"}
      <4>1. js' = js
        BY <2>3, <3>4
      <4> QED BY <1>2, <3>4, <4>1
    <3> QED BY <3>1, <3>2, <3>3, <3>4
  <2> QED BY <2>4 DEF c
<1>6. ResumeTypeOK' /\ MemoryTypeOK'
  <2>1. partsDone' \in Nat
    BY <1>1, <1>2
  <2> QED BY <1>1, <1>3, <1>5, <2>1 DEF ResumeInv, ResumeTypeOK, MemoryTypeOK, diskVars
<1>7. Idle' /\ Ordered' /\ Told' /\ Uncancelled' /\ AtRest'
  <2>1. Idle' /\ Ordered'
    BY <1>1, <1>3, <1>4 DEF ResumeInv, Idle, Ordered, diskVars
  <2>2. Told' /\ Uncancelled' /\ AtRest'
    BY <1>1, <1>3, <1>4 DEF ResumeInv, Told, Uncancelled, AtRest, diskVars
  <2> QED BY <2>1, <2>2
<1>8. Exact'
  <2> SUFFICES ASSUME jobStatus \in Open
               PROVE  /\ partsDone' = Cardinality(DoneParts')
                      /\ prog' = {tstatus[u] : u \in {v \in Transfers : tpc'[v] = "counted"}}
    BY <1>1 DEF Exact, diskVars
  <2>1. partsDone = Cardinality(DoneParts)
        /\ prog = {tstatus[u] : u \in {v \in Transfers : tpc[v] = "counted"}}
    BY DEF ResumeInv, Exact
  <2>2. {u \in Transfers : tpc'[u] = "counted"} = {u \in Transfers : tpc[u] = "counted"} \cup {t}
    BY <1>3
  <2>3. prog' = {tstatus[u] : u \in {v \in Transfers : tpc'[v] = "counted"}}
    BY <1>1, <2>1, <2>2
  <2>4. p \notin DoneParts
    BY <1>1 DEF DoneParts, TransfersOf
  <2>5. DoneParts' = IF whole THEN DoneParts \cup {p} ELSE DoneParts
    BY <1>3, <1>4, <2>4 DEF DoneParts, TransfersOf
  <2>6. Cardinality(DoneParts \cup {p}) = Cardinality(DoneParts) + 1
    BY <2>4, DonePartsKnown, FS_AddElement
  <2> HIDE DEF whole
  <2>7. partsDone' = Cardinality(DoneParts')
    <3>1. CASE whole
      BY <1>1, <2>1, <2>5, <2>6, <3>1, Zenon
    <3>2. CASE ~whole
      <4>1. partsDone' = partsDone
        BY <1>1, <1>2, <3>2
      <4> QED BY <2>1, <2>5, <3>2, <4>1
    <3> QED BY <3>1, <3>2
  <2> QED BY <2>3, <2>7
<1>9. (js.completed <= Cardinality(Reported))'
  <2>1. /\ Reported \in SUBSET Transfers /\ Reported' \in SUBSET Transfers
        /\ Reported \subseteq Reported' /\ t \notin Reported
        /\ tstatus[t] = "success" => t \in Reported'
    BY <1>1, <1>3 DEF Reported, diskVars
  <2>2. Cardinality(Reported) \in Nat /\ Cardinality(Reported') \in Nat
        /\ js.completed <= Cardinality(Reported)
    BY <2>1, TransfersFinite DEF ResumeInv
  <2>3. CASE tstatus[t] = "success"
    <3>1. Cardinality(Reported) + 1 <= Cardinality(Reported')
      BY <2>1, <2>3, OneMoreTransfer
    <3> QED BY <1>2, <1>5, <2>2, <2>3, <3>1
  <2>4. CASE tstatus[t] # "success"
    <3>1. Cardinality(Reported) <= Cardinality(Reported')
      BY <2>1, MoreTransfers
    <3> QED BY <1>2, <1>5, <2>2, <2>4, <3>1
  <2> QED BY <2>3, <2>4
<1> QED BY <1>6, <1>7, <1>8, <1>9 DEF ResumeInv

(***************************************************************************)
(* The job is completed: as many parts are done as are known, so all of    *)
(* them are, and with the final one ordered they are all of the job's.     *)
(***************************************************************************)
LEMMA CompleteJobKeeps ==
  ASSUME ResumeInv, CompleteJob
  PROVE  ResumeInv'
<1>1. /\ known # {} /\ partsDone = Cardinality(known)
      /\ finalPart \/ jobStatus = "Cancelling"
      /\ partsDone' = 0 /\ prog' = {}
      /\ UNCHANGED <<file, tstatus, stored, lives, proc, next, known, finalPart, queue, tpc,
                     ctxCancelled, js, started, allScheduled>>
      /\ jobStatus' = CASE jobStatus = "Cancelling" -> "Cancelled"
                        [] jobStatus = "InProgress" -> Enhance(prog)
                        [] OTHER -> jobStatus
  BY DEF CompleteJob
<1>2. proc \in Going
  <2>1. Cardinality(known) # 0
    BY <1>1, DonePartsKnown, FS_EmptySet
  <2> QED BY <1>1, <2>1 DEF ResumeInv, Idle
<1>3. jobStatus' \notin Open
  BY <1>1 DEF Open, Enhance, ResumeInv, ResumeTypeOK, DoneStatuses
<1>4. ResumeTypeOK' /\ MemoryTypeOK'
  <2>1. jobStatus' \in DoneStatuses \cup {"InProgress", "Cancelling"}
    BY <1>1 DEF ResumeInv, ResumeTypeOK, DoneStatuses, Enhance
  <2> QED BY <1>1, <2>1 DEF ResumeInv, ResumeTypeOK, MemoryTypeOK
<1>5. Idle' /\ Told' /\ Exact' /\ Uncancelled' /\ Reported' = Reported
  BY <1>1, <1>2, <1>3 DEF ResumeInv, Idle, Told, Exact, Uncancelled, Reported, Open
<1>6. Ordered'
  BY <1>1, <1>2 DEF ResumeInv, Ordered, Going
<1>7. AtRest'
  <2>1. CASE jobStatus = "Cancelling"
    BY <1>1, <2>1 DEF AtRest, Final
  <2>2. CASE jobStatus \notin Open
    BY <1>1, <2>2 DEF ResumeInv, AtRest, Open
  <2>3. CASE jobStatus = "InProgress"
    <3>1. DoneParts = known /\ prog = {tstatus[t] : t \in {u \in Transfers : tpc[u] = "counted"}}
      BY <1>1, <2>3, DonePartsKnown DEF ResumeInv, Exact, Open
    <3>2. known = Parts /\ (proc = "ordering" => next = LastPart + 1)
      BY <1>1, <1>2, <2>3, ResumeAssumption DEF ResumeInv, Ordered, Going, Parts, MemoryTypeOK
    <3>3. \A t \in Transfers : tpc[t] = "counted" /\ tstatus[t] # "started"
      BY <3>1, <3>2, PartsFinite DEF DoneParts, TransfersOf, ResumeInv, Told
    <3>4. queue = {}
      <4> SUFFICES ASSUME NEW p \in queue PROVE FALSE
        OBVIOUS
      <4>1. p \in Parts
        BY DEF ResumeInv, ResumeTypeOK
      <4>2. PICK t \in TransfersOf(p) : TRUE
        BY <4>1, ResumeAssumption
      <4>3. t \in Transfers /\ PartOf[t] \in queue /\ tpc[t] = "counted"
        BY <3>3 DEF TransfersOf
      <4> QED BY <4>3 DEF ResumeInv, Idle
    <3>5. jobStatus' = "Completed" => "failed" \notin prog /\ "skipped" \notin prog
      BY <1>1, <2>3 DEF Enhance
    <3>6. ASSUME jobStatus' = "Completed", NEW t \in Transfers PROVE tstatus[t] = "success"
      <4>1. tstatus[t] \in prog
        BY <3>1, <3>3
      <4>2. tstatus[t] \in {"started", "success", "failed", "skipped", "cancelled"}
        BY DEF ResumeInv, ResumeTypeOK, Negative
      <4>3. tstatus[t] # "cancelled" /\ tstatus[t] # "started"
        BY <1>2, <2>3, <3>3 DEF ResumeInv, Uncancelled
      <4> QED BY <3>5, <3>6, <4>1, <4>2, <4>3
    <3> QED BY <1>1, <3>2, <3>3, <3>4, <3>6 DEF AtRest
  <2> QED BY <2>1, <2>2, <2>3 DEF Open
<1> QED BY <1>1, <1>4, <1>5, <1>6, <1>7 DEF ResumeInv

-----------------------------------------------------------------------------
LEMMA ResumeStarts ==
  ASSUME ResumeInit
  PROVE  ResumeInv
<1>1. /\ js = NoSummary /\ known = {} /\ queue = {} /\ next = 0 /\ proc = "ordering"
      /\ tpc = [t \in Transfers |-> "idle"] /\ tstatus = [t \in Transfers |-> "started"]
      /\ jobStatus = "InProgress" /\ partsDone = 0 /\ prog = {} /\ ctxCancelled = FALSE
      /\ finalPart = FALSE /\ stored = {}
  BY DEF ResumeInit
<1>2. ResumeTypeOK
  BY ResumeAssumption DEF ResumeInit, ResumeTypeOK
<1>3. MemoryTypeOK
  BY DEF ResumeInit, MemoryTypeOK, NoSummary
<1>4. Idle /\ Told /\ Uncancelled /\ AtRest
  BY <1>1 DEF Idle, Told, Uncancelled, AtRest, Going, Final, DoneStatuses
<1>5. Ordered
  BY <1>1, ResumeAssumption DEF Ordered
<1>6. Exact
  <2>1. DoneParts = {}
    BY <1>1, ResumeAssumption DEF DoneParts, TransfersOf
  <2>2. Cardinality(DoneParts) = 0
    BY <2>1, FS_EmptySet
  <2>3. {tstatus[t] : t \in {u \in Transfers : tpc[u] = "counted"}} = {}
    BY <1>1
  <2> QED BY <1>1, <2>2, <2>3 DEF Exact
<1>7. js.completed <= Cardinality(Reported)
  <2>1. Reported = {}
    BY <1>1 DEF Reported
  <2> QED BY <1>1, <2>1, FS_EmptySet DEF NoSummary
<1> QED BY <1>2, <1>3, <1>4, <1>5, <1>6, <1>7 DEF ResumeInv

LEMMA ResumeInvKept ==
  ASSUME ResumeInv, [ResumeNext]_resumeVars
  PROVE  ResumeInv'
<1>1. CASE UNCHANGED resumeVars
  BY <1>1 DEF resumeVars, diskVars, memVars, ResumeInv, ResumeTypeOK, MemoryTypeOK, Idle, Ordered,
              Told, Exact, DoneParts, Uncancelled, AtRest, Reported
<1>2. CASE \E t \in Transfers : GoOn(t) \/ StoreData(t)
  BY <1>2, StartTransferKeeps, SetTransferStatusKeeps, ReportTransferDoneKeeps, StoreDataKeeps
     DEF GoOn
<1>3. CASE ResumeSteps
  <2>1. CASE ResurrectAgain
    <3>1. lives' \in 1..MaxLives
      BY <2>1 DEF ResurrectAgain, ResumeInv, ResumeTypeOK
    <3> QED BY <2>1, <3>1, ResurrectKeeps DEF ResurrectAgain
  <2>2. CASE ExitRefused
    BY <2>2, LoseMemoryKeeps DEF ExitRefused
  <2> QED BY <1>3, <2>1, <2>2, RefuseToResumeKeeps, SetInProgressKeeps,
             ForceSummaryInProgressKeeps, ResetTransferKeeps, ResumeTransfersKeeps DEF ResumeSteps
<1>4. CASE ResumeCommand
  <2>1. lives' \in 1..MaxLives
    BY <1>4, ResumeAssumption DEF ResumeCommand, ResumeInv, ResumeTypeOK
  <2> QED BY <1>4, <2>1, ResurrectKeeps DEF ResumeCommand
<1>5. CASE FrontEndExits \/ Crash
  BY <1>5, LoseMemoryKeeps DEF FrontEndExits, Crash
<1> QED BY <1>1, <1>2, <1>3, <1>4, <1>5, CreatePlanHeaderKeeps, OrderPartKeeps,
           StartStatusManagerKeeps, SchedulePartKeeps, CompleteJobKeeps, CancelKeeps,
           RemovePlanFileKeeps DEF ResumeNext, Engine

LEMMA ResumeInvHolds ==
  ASSUME ResumeInv
  PROVE  PlanTellsTheTruth
<1>1. CompletedCountIsBacked
  <2> DEFINE S == {t \in Transfers : tstatus[t] = "success"}
  <2>1. Cardinality(Reported) <= Cardinality(S)
    BY MoreTransfers DEF Reported
  <2>2. Cardinality(Reported) \in Nat /\ Cardinality(S) \in Nat
    BY TransfersFinite DEF Reported
  <2>3. js.completed \in Nat /\ js.completed <= Cardinality(Reported)
    BY DEF ResumeInv, MemoryTypeOK
  <2>4. js.completed <= Cardinality(S)
    BY <2>1, <2>2, <2>3
  <2> QED BY <2>4 DEF CompletedCountIsBacked
<1>2. ResumedHasAllParts
  BY DEF ResumeInv, Ordered, ResumedHasAllParts
<1>3. /\ \A t \in Transfers : tstatus[t] = "success" => t \in stored
      /\ jobStatus \in Final => \A t \in Transfers : tstatus[t] # "started"
      /\ jobStatus = "Completed" => \A t \in Transfers : tstatus[t] = "success"
  BY DEF ResumeInv, Told, AtRest, Final, DoneStatuses
<1> QED BY <1>1, <1>2, <1>3 DEF ResumeInv, PlanTellsTheTruth, Final

LEMMA SuccessStays ==
  ASSUME ResumeInv, [ResumeNext]_resumeVars, NEW t \in Transfers, tstatus[t] = "success"
  PROVE  tstatus'[t] = "success" /\ tpc'[t] \notin {"queued", "running"}
<1>1. ResumeInv'
  BY ResumeInvKept
<1>2. tstatus'[t] = "success"
  <2>1. \/ UNCHANGED tstatus
        \/ \E u \in Transfers : SetTransferStatus(u) \/ ResetTransfer(u)
    BY DEF ResumeNext, Engine, GoOn, ResumeSteps, CreatePlanHeader, OrderPart, StartStatusManager,
           SchedulePart, StartTransfer, ReportTransferDone, StoreData, CompleteJob, FrontEndExits,
           ResurrectAgain, Resurrect, RefuseToResume, ExitRefused, SetInProgress,
           ForceSummaryInProgress, ResumeTransfers, CancelJob, CancelCommand, RemovePlanFile,
           Crash, ResumeCommand, resumeVars, diskVars
  <2>2. ASSUME NEW u \in Transfers, SetTransferStatus(u) PROVE tstatus'[t] = "success"
    <3>1. u # t
      BY <2>2 DEF SetTransferStatus, ResumeInv, Told
    <3> QED BY <2>2, <3>1 DEF SetTransferStatus, ResumeInv, ResumeTypeOK
  <2>3. ASSUME NEW u \in Transfers, ResetTransfer(u) PROVE tstatus'[t] = "success"
    BY <2>3 DEF ResetTransfer, Negative, ResumeInv, ResumeTypeOK
  <2> QED BY <2>1, <2>2, <2>3
<1> QED BY <1>1, <1>2 DEF ResumeInv, Told

(***************************************************************************)
(* Whenever the process dies, however often the job is resumed, cancelled  *)
(* or removed, with any number of parts and transfers: a final status in   *)
(* part 0 leaves no transfer pending, Completed means that all succeeded,  *)
(* a recorded success has its data at the destination, and a resumed job   *)
(* runs with all of its parts (resetJobPartStatus, ResumeJobOrder and      *)
(* reportJobPartDoneHandler together).                                     *)
(***************************************************************************)
THEOREM PlanIsTruthful == ResumeSpec => []PlanTellsTheTruth
<1>1. ResumeInit => ResumeInv
  BY ResumeStarts
<1>2. ResumeInv /\ [ResumeNext]_resumeVars => ResumeInv'
  BY ResumeInvKept
<1>3. ResumeInv => PlanTellsTheTruth
  BY ResumeInvHolds
<1> QED BY <1>1, <1>2, <1>3, PTL DEF ResumeSpec

(***************************************************************************)
(* A success that a plan file records is never taken back, and its         *)
(* transfer never scheduled or started again, in this life or a later one  *)
(* (ScheduleTransfers and resetJobPartStatus pass it over).                *)
(***************************************************************************)
THEOREM SuccessNotRepeated == ResumeSpec => SuccessIsNotRepeated
<1>1. ResumeInit => ResumeInv
  BY ResumeStarts
<1>2. ResumeInv /\ [ResumeNext]_resumeVars => ResumeInv'
  BY ResumeInvKept
<1>3. ResumeInv /\ [ResumeNext]_resumeVars =>
        [\A t \in Transfers : tstatus[t] = "success" =>
            tstatus'[t] = "success" /\ tpc'[t] \notin {"queued", "running"}]_resumeVars
  BY SuccessStays
<1> QED BY <1>1, <1>2, <1>3, PTL DEF ResumeSpec, SuccessIsNotRepeated

-----------------------------------------------------------------------------
(* The layout of a plan file.                                              *)

(* Every non-empty set of natural numbers has a least element.             *)
LEMMA HasLeast ==
  ASSUME NEW T \in SUBSET Nat, T # {}
  PROVE  \E x \in T : \A y \in T : x <= y
<1> DEFINE R == OpToRel(<, Nat)
<1>1. IsWellFoundedOn(R, Nat)
  BY NatLessThanWellFounded
<1>2. \A x, y \in Nat : y < x => <<y, x>> \in R
  BY DEF OpToRel
<1> HIDE DEF R
<1>3. PICK x \in T : \A y \in T : ~ (<<y, x>> \in R)
  BY <1>1, WFMin
<1>4. \A y \in T : ~(y < x) /\ y \in Nat /\ x \in Nat
  BY <1>2, <1>3
<1> QED BY <1>3, <1>4, SMT

(* The strings are at least the source and the destination.                *)
LEMMA StringsType ==
  /\ Len(Strings) \in Nat \ {0, 1} /\ DOMAIN Strings = 1..Len(Strings)
  /\ \A i \in 1..Len(Strings) : Strings[i] \in Fields
<1> DEFINE Held == {"Source", "Destination"} \cup STRING
<1>1. <<"Source", "Destination">> \in Seq(Held) /\ Len(<<"Source", "Destination">>) = 2
  OBVIOUS
<1>2. Properties \in Seq(STRING) /\ STRING \subseteq Held
  BY PlanAssumption
<1>3. Properties \in Seq(Held)
  BY <1>2, SeqMonotonic
<1>4. Strings \in Seq(Held) /\ Len(Strings) = 2 + Len(Properties) /\ Len(Properties) \in Nat
  <2> HIDE DEF Held
  <2> QED BY <1>1, <1>3, ConcatProperties DEF Strings
<1> QED BY <1>4 DEF Fields

(* Sums of as many numbers as there are strings exist, though they are     *)
(* defined by recursion.                                                   *)
SumsTo(k, length, g) ==
    /\ g \in [0..k -> Nat] /\ g[0] = 0
    /\ \A i \in 1..k : g[i] = g[i - 1] + length[Strings[i]]

LEMMA SumsGoOn ==
  ASSUME NEW length \in [Fields -> Nat], NEW k \in Nat, k + 1 <= Len(Strings),
         NEW g, SumsTo(k, length, g)
  PROVE  \E h : SumsTo(k + 1, length, h)
<1> DEFINE h == [i \in 0..(k + 1) |-> IF i = k + 1 THEN g[k] + length[Strings[k + 1]] ELSE g[i]]
<1>1. length[Strings[k + 1]] \in Nat
  BY StringsType
<1>2. g \in [0..k -> Nat] /\ g[0] = 0
      /\ \A i \in 1..k : g[i] = g[i - 1] + length[Strings[i]]
  BY DEF SumsTo
<1>3. h \in [0..(k + 1) -> Nat]
  <2>1. ASSUME NEW i \in 0..(k + 1) PROVE (IF i = k + 1 THEN g[k] + length[Strings[k + 1]] ELSE g[i]) \in Nat
    <3>1. CASE i = k + 1
      <4>1. g[k] \in Nat
        BY <1>2
      <4> QED BY <4>1, <1>1, <3>1
    <3>2. CASE i # k + 1
      <4>1. i \in 0..k
        BY <3>2
      <4> QED BY <4>1, <1>2, <3>2
    <3> QED BY <3>1, <3>2
  <2> QED BY <2>1
<1>4. h[0] = 0
  <2>1. 0 \in 0..(k + 1) /\ 0 # k + 1
    OBVIOUS
  <2> QED BY <2>1, <1>2
<1>5. ASSUME NEW i \in 1..(k + 1) PROVE h[i] = h[i - 1] + length[Strings[i]]
  <2>1. i \in 0..(k + 1) /\ i - 1 \in 0..(k + 1) /\ i - 1 # k + 1
    OBVIOUS
  <2>2. h[i - 1] = g[i - 1]
    BY <2>1
  <2>3. CASE i = k + 1
    <3>1. h[i] = g[k] + length[Strings[k + 1]]
      BY <2>1, <2>3
    <3> QED BY <2>2, <2>3, <3>1
  <2>4. CASE i # k + 1
    <3>1. i \in 1..k /\ h[i] = g[i]
      BY <2>1, <2>4
    <3> QED BY <2>2, <3>1, <1>2
  <2> QED BY <2>3, <2>4
<1> HIDE DEF h
<1>6. SumsTo(k + 1, length, h)
  BY <1>3, <1>4, <1>5 DEF SumsTo
<1> QED BY <1>6

LEMMA SumsExist ==
  ASSUME NEW length \in [Fields -> Nat]
  PROVE  \E g : SumsTo(Len(Strings), length, g)
<1> DEFINE Lacking == {k \in 0..Len(Strings) : ~ \E g : SumsTo(k, length, g)}
<1>1. Len(Strings) \in Nat
  BY StringsType
<1>2. SUFFICES Lacking = {}
  <2>1. Len(Strings) \notin Lacking
    BY <1>2
  <2> QED BY <1>1, <2>1
<1>3. SUFFICES ASSUME Lacking # {} PROVE FALSE
  OBVIOUS
<1>4. Lacking \in SUBSET Nat
  BY <1>1
<1>5. PICK k \in Lacking : \A y \in Lacking : k <= y
  <2> HIDE DEF Lacking
  <2> QED BY <1>3, <1>4, HasLeast
<1>6. k # 0
  <2>1. SumsTo(0, length, [i \in 0..0 |-> 0])
    BY DEF SumsTo
  <2> QED BY <1>5, <2>1
<1>7. k - 1 \in 0..Len(Strings) /\ k \in 0..Len(Strings) /\ k - 1 \in Nat /\ ~(k <= k - 1)
  BY <1>1, <1>5, <1>6
<1>8. k - 1 \notin Lacking
  <2> HIDE DEF Lacking
  <2> QED BY <1>5, <1>7
<1>9. PICK g : SumsTo(k - 1, length, g)
  BY <1>7, <1>8
<1>10. (k - 1) + 1 = k /\ k <= Len(Strings)
  BY <1>1, <1>7
<1>11. \E h : SumsTo((k - 1) + 1, length, h)
  BY <1>7, <1>9, <1>10, SumsGoOn
<1>12. \E h : SumsTo(k, length, h)
  BY <1>10, <1>11
<1> QED BY <1>5, <1>12

(* A string's end is the end of the one before, and its length.            *)
LEMMA EndsAddUp ==
  ASSUME NEW length \in [Fields -> Nat]
  PROVE  /\ Ends(length)[0] = 0
         /\ \A i \in 1..Len(Strings) : /\ Ends(length)[i] = Ends(length)[i - 1] + length[Strings[i]]
                                       /\ Ends(length)[i - 1] \in Nat /\ Ends(length)[i] \in Nat
<1> DEFINE Body(f) == [i \in 0..Len(Strings) |-> IF i = 0 THEN 0 ELSE f[i - 1] + length[Strings[i]]]
<1> DEFINE end == CHOOSE f : f = Body(f)
<1>0. Len(Strings) \in Nat
  BY StringsType
<1>1. PICK g : SumsTo(Len(Strings), length, g)
  BY SumsExist
<1>2. g = Body(g)
  <2>1. g \in [0..Len(Strings) -> Nat] /\ g[0] = 0
        /\ \A i \in 1..Len(Strings) : g[i] = g[i - 1] + length[Strings[i]]
    BY <1>1 DEF SumsTo
  <2>2. \A i \in 0..Len(Strings) : g[i] = IF i = 0 THEN 0 ELSE g[i - 1] + length[Strings[i]]
    BY <1>0, <2>1
  <2> QED BY <2>1, <2>2
<1>3. end = Body(end)
  BY <1>2
<1>4. Ends(length) = end
  BY DEF Ends
<1> HIDE DEF end
<1>5. end[0] = 0 /\ \A i \in 1..Len(Strings) : end[i] = end[i - 1] + length[Strings[i]]
  <2>1. \A i \in 0..Len(Strings) : end[i] = Body(end)[i]
    BY <1>3
  <2> QED BY <1>0, <2>1
<1>6. \A i \in 0..Len(Strings) : end[i] \in Nat
  <2> DEFINE Bad == {i \in 0..Len(Strings) : end[i] \notin Nat}
  <2>1. SUFFICES ASSUME Bad # {} PROVE FALSE
    OBVIOUS
  <2>2. Bad \in SUBSET Nat
    BY <1>0
  <2>3. PICK i \in Bad : \A y \in Bad : i <= y
    <3> HIDE DEF Bad
    <3> QED BY <2>1, <2>2, HasLeast
  <2>4. i # 0
    BY <2>3, <1>5
  <2>5. i - 1 \in 0..Len(Strings) /\ i \in 1..Len(Strings) /\ ~(i <= i - 1)
    BY <1>0, <2>3, <2>4
  <2>6. i - 1 \notin Bad
    <3> HIDE DEF Bad
    <3> QED BY <2>3, <2>5
  <2>7. end[i - 1] \in Nat /\ length[Strings[i]] \in Nat
    BY <2>5, <2>6, StringsType
  <2> QED BY <2>3, <2>5, <2>7, <1>5
<1>7. \A i \in 1..Len(Strings) : i \in 0..Len(Strings) /\ i - 1 \in 0..Len(Strings)
  BY <1>0
<1> QED BY <1>4, <1>5, <1>6, <1>7

LEMMA FitsInt ==
  ASSUME NEW n \in Nat, n <= MaxInt
  PROVE  ToInt(n) = n
<1> DEFINE m == MaxInt + 1
<1>1. MaxInt \in Nat
  BY PlanAssumption
<1>2. (n + m) % (2 * m) = n + m
  BY <1>1
<1> QED BY <1>1, <1>2 DEF ToInt

Char == Plan \X Fields \X Nat
EntryType == [offset : Int, length : [Fields -> Nat]]

PlanTypeOK ==
    /\ order \in [Plan -> [Fields -> Nat]]
    /\ \A t \in Plan : \A field \in Fields \ Checked : order[t][field] <= MaxInt
    /\ entries \in Seq(EntryType) /\ nextOffset \in Int /\ strings \in Seq(Char)
    /\ wrote \in 0..NumTransfers /\ nth \in 1..Len(Strings)
    /\ creating \in {"entries", "strings", "created", "panic"}

PhaseInv ==
    /\ creating = "entries" => Len(entries) < NumTransfers /\ wrote = 0 /\ nth = 1
    /\ creating = "strings" => Len(entries) = NumTransfers /\ wrote < NumTransfers
    /\ creating = "created" => Len(entries) = NumTransfers /\ wrote = NumTransfers /\ nth = 1

(* The int16s of an entry lose nothing, since too long a string would have *)
(* stopped the process.                                                    *)
EntriesInv == \A t \in 1..Len(entries) : t \in Plan /\ entries[t].length = order[t]

(* Within a transfer the file ends where the string before ends: only at   *)
(* its first string is this checked.                                       *)
EndInv ==
    creating = "strings" /\ nth > 1 =>
        Len(strings) = entries[wrote + 1].offset + Ends(order[wrote + 1])[nth - 1]

(* The string is where its transfer's entry says.                          *)
Placed(t, i) ==
    \A k \in 1..order[t][Strings[i]] :
        /\ entries[t].offset + Ends(order[t])[i - 1] + k \in 1..Len(strings)
        /\ strings[entries[t].offset + Ends(order[t])[i - 1] + k] = <<t, Strings[i], k>>

Written(t, i) == t <= wrote \/ (t = wrote + 1 /\ i < nth)

PlacedInv ==
    creating \in {"strings", "created"} =>
        \A t \in Plan : \A i \in 1..Len(Strings) : Written(t, i) => Placed(t, i)

PlanInv == PlanTypeOK /\ PhaseInv /\ EntriesInv /\ EndInv /\ PlacedInv

LEMMA PlanInitInv == PlanInit => PlanInv
<1> SUFFICES ASSUME PlanInit PROVE PlanInv
  OBVIOUS
<1> USE PlanAssumption DEF PlanInit
<1>1. PlanTypeOK
  <2>1. order \in [Plan -> [Fields -> Nat]]
    OBVIOUS
  <2>2. entries \in Seq(EntryType) /\ strings \in Seq(Char)
    BY EmptySeq
  <2> QED BY <2>1, <2>2, StringsType DEF PlanTypeOK
<1>2. Len(entries) = 0
  OBVIOUS
<1> QED BY <1>1, <1>2 DEF PlanInv, PhaseInv, EntriesInv, EndInv, PlacedInv

LEMMA WriteEntryInv ==
  ASSUME PlanInv, WriteEntry
  PROVE  PlanInv'
<1> DEFINE t == Len(entries) + 1
           entry == [offset |-> nextOffset, length |-> [field \in Fields |-> ToInt(order[t][field])]]
           tooLong == \E field \in Checked : order[t][field] > MaxInt
<1> USE PlanAssumption
<1>1. PlanTypeOK /\ creating = "entries" /\ Len(entries) < NumTransfers /\ wrote = 0 /\ nth = 1
      /\ EntriesInv /\ UNCHANGED <<order, strings, wrote, nth>>
  BY DEF PlanInv, PhaseInv, WriteEntry
<1>2. Len(entries) \in Nat /\ t \in Plan
  BY <1>1 DEF PlanTypeOK, Plan
<1>3. CASE tooLong
  <2>1. creating' = "panic" /\ UNCHANGED <<entries, nextOffset>>
    BY <1>3 DEF WriteEntry
  <2> QED BY <2>1, <1>1 DEF PlanInv, PlanTypeOK, PhaseInv, EntriesInv, EndInv, PlacedInv
<1>4. CASE ~tooLong
  <2>1. entries' = Append(entries, entry) /\ nextOffset' = nextOffset + StringsLength(entry)
        /\ creating' = IF t = NumTransfers THEN "strings" ELSE "entries"
    BY <1>4 DEF WriteEntry
  <2>2. order[t] \in [Fields -> Nat]
    BY <1>1, <1>2 DEF PlanTypeOK
  <2>3. \A field \in Fields : ToInt(order[t][field]) = order[t][field]
    <3> SUFFICES ASSUME NEW field \in Fields PROVE ToInt(order[t][field]) = order[t][field]
      OBVIOUS
    <3>1. order[t][field] \in Nat
      BY <2>2
    <3>2. order[t][field] <= MaxInt
      <4>1. CASE field \in Checked
        BY <3>1, <4>1, <1>4
      <4>2. CASE field \notin Checked
        BY <4>2, <1>1, <1>2 DEF PlanTypeOK
      <4> QED BY <4>1, <4>2
    <3> HIDE DEF t
    <3> QED BY <3>1, <3>2, FitsInt
  <2>4. entry.length = order[t]
    BY <2>2, <2>3
  <2>5. entry \in EntryType
    <3>1. nextOffset \in Int
      BY <1>1 DEF PlanTypeOK
    <3>2. [field \in Fields |-> ToInt(order[t][field])] = order[t]
      BY <2>2, <2>3
    <3> QED BY <3>1, <3>2, <2>2 DEF EntryType
  <2> HIDE DEF entry
  <2>6. /\ entries' \in Seq(EntryType) /\ Len(entries') = t
        /\ \A s \in 1..Len(entries) : entries'[s] = entries[s]
        /\ entries'[t] = entry
    <3>1. entries \in Seq(EntryType)
      BY <1>1 DEF PlanTypeOK
    <3> QED BY <3>1, <2>5, <2>1, AppendProperties
  <2>7. StringsLength(entry) \in Int
    <3>1. entry.length \in [Fields -> Nat]
      BY <2>4, <2>2
    <3>2. Len(Strings) \in 1..Len(Strings)
      BY StringsType
    <3>3. Ends(entry.length)[Len(Strings)] \in Nat
      BY <3>1, <3>2, EndsAddUp
    <3>4. MaxInt + 1 \in Nat /\ MaxInt + 1 > 0
      OBVIOUS
    <3>5. \A n \in Nat : ToInt(n) \in Int
      BY <3>4 DEF ToInt
    <3> QED BY <3>3, <3>5 DEF StringsLength
  <2>8. PlanTypeOK'
    BY <1>1, <2>1, <2>6, <2>7 DEF PlanTypeOK
  <2>9. PhaseInv'
    BY <1>1, <1>2, <2>1, <2>6 DEF PhaseInv
  <2>10. EntriesInv'
    <3> SUFFICES ASSUME NEW s \in 1..Len(entries') PROVE s \in Plan /\ entries'[s].length = order'[s]
      BY DEF EntriesInv, Plan
    <3>1. CASE s = t
      <4>0. order' = order
        BY <1>1
      <4>1. entries'[t] = entry /\ t \in Plan
        BY <2>6, <1>2
      <4>2. entries'[t].length = order'[t]
        BY <4>0, <4>1, <2>4
      <4> HIDE DEF t
      <4> QED BY <4>1, <4>2, <3>1
    <3>2. CASE s # t
      <4>1. s \in 1..Len(entries)
        BY <3>2, <2>6, <1>2
      <4> QED BY <4>1, <2>6, <1>1 DEF EntriesInv
    <3> QED BY <3>1, <3>2
  <2>11. EndInv'
    BY <1>1 DEF EndInv, PlanTypeOK
  <2>12. PlacedInv'
    BY <1>1 DEF PlacedInv, Written, Plan, PlanTypeOK
  <2> QED BY <2>8, <2>9, <2>10, <2>11, <2>12 DEF PlanInv
<1> QED BY <1>3, <1>4

LEMMA WriteStringInv ==
  ASSUME PlanInv, WriteString
  PROVE  PlanInv'
<1> DEFINE t == wrote + 1
           string == Text(t, Strings[nth])
           start == entries[t].offset + Ends(order[t])[nth - 1]
           length == order[t][Strings[nth]]
<1> USE PlanAssumption
<1>1. PlanTypeOK /\ creating = "strings" /\ Len(entries) = NumTransfers /\ wrote < NumTransfers
      /\ EntriesInv /\ EndInv /\ PlacedInv /\ UNCHANGED <<order, entries, nextOffset>>
  BY DEF PlanInv, PhaseInv, WriteString
<1>2. t \in Plan /\ wrote \in Nat /\ nth \in 1..Len(Strings) /\ Len(Strings) \in Nat
  BY <1>1, StringsType DEF PlanTypeOK, Plan
<1>3. CASE nth = 1 /\ ~LinesUp(t)
  <2>1. creating' = "panic" /\ UNCHANGED <<strings, wrote, nth>>
    BY <1>3 DEF WriteString
  <2> QED BY <2>1, <1>1 DEF PlanInv, PlanTypeOK, PhaseInv, EntriesInv, EndInv, PlacedInv
<1>4. CASE ~(nth = 1 /\ ~LinesUp(t))
  <2>1. /\ strings' = strings \o string
        /\ nth' = IF nth = Len(Strings) THEN 1 ELSE nth + 1
        /\ wrote' = IF nth = Len(Strings) THEN t ELSE wrote
        /\ creating' = IF wrote' = NumTransfers THEN "created" ELSE "strings"
    BY <1>4 DEF WriteString
  <2>2. order[t] \in [Fields -> Nat] /\ entries[t].offset \in Int
    <3>1. entries \in Seq(EntryType) /\ t \in 1..Len(entries)
      BY <1>1, <1>2 DEF PlanTypeOK, Plan
    <3>2. entries[t] \in EntryType
      BY <3>1, ElementOfSeq
    <3> QED BY <3>2, <1>1, <1>2 DEF PlanTypeOK, EntryType
  <2>3. length \in Nat /\ Strings[nth] \in Fields
    BY <2>2, <1>2, StringsType
  <2>4. /\ Ends(order[t])[0] = 0
        /\ Ends(order[t])[nth] = Ends(order[t])[nth - 1] + length
        /\ Ends(order[t])[nth - 1] \in Nat /\ Ends(order[t])[nth] \in Nat
    BY <2>2, <1>2, EndsAddUp
  <2>5. Len(strings) = start
    <3>1. CASE nth = 1
      <4>1. Len(strings) = entries[t].offset
        BY <3>1, <1>4 DEF LinesUp
      <4>2. nth - 1 = 0
        BY <3>1
      <4> QED BY <4>1, <4>2, <2>4, <2>2
    <3>2. CASE nth # 1
      BY <3>2, <1>1, <1>2 DEF EndInv
    <3> QED BY <3>1, <3>2
  <2>6. string \in Seq(Char) /\ Len(string) = length
        /\ \A k \in 1..length : string[k] = <<t, Strings[nth], k>>
    <3>1. string = [k \in 1..length |-> <<t, Strings[nth], k>>]
      BY DEF Text
    <3>2. \A k \in 1..length : <<t, Strings[nth], k>> \in Char
      BY <2>3, <1>2 DEF Char
    <3> HIDE DEF string, length
    <3> QED BY <2>3, <3>1, <3>2
  <2> HIDE DEF string, length
  <2>7. strings' \in Seq(Char) /\ Len(strings') = Len(strings) + length /\ Len(strings) \in Nat
        /\ \A j \in 1..(Len(strings) + length) :
              strings'[j] = IF j <= Len(strings) THEN strings[j] ELSE string[j - Len(strings)]
    <3>1. strings \in Seq(Char)
      BY <1>1 DEF PlanTypeOK
    <3> QED BY <3>1, <2>6, <2>1, ConcatProperties
  <2>8. PlanTypeOK'
    <3>1. nth' \in 1..Len(Strings)
      BY <2>1, <1>2
    <3>2. wrote' \in 0..NumTransfers
      BY <2>1, <1>1, <1>2
    <3> QED BY <3>1, <3>2, <1>1, <2>1, <2>7 DEF PlanTypeOK
  <2>9. PhaseInv'
    <3>1. creating' # "entries" /\ Len(entries') = NumTransfers
      BY <1>1, <2>1
    <3>2. creating' = "strings" => wrote' < NumTransfers
      BY <1>1, <1>2, <2>1
    <3>3. creating' = "created" => wrote' = NumTransfers /\ nth' = 1
      BY <1>1, <1>2, <2>1
    <3> QED BY <3>1, <3>2, <3>3 DEF PhaseInv
  <2>10. EntriesInv'
    BY <1>1 DEF EntriesInv
  <2>11. EndInv'
    <3> SUFFICES ASSUME nth' > 1
                 PROVE  Len(strings') = entries[wrote' + 1].offset + Ends(order[wrote' + 1])[nth' - 1]
      BY <1>1 DEF EndInv
    <3>1. nth' - 1 = nth /\ wrote' + 1 = t
      BY <2>1, <1>2
    <3> HIDE DEF t
    <3>2. Len(strings') = entries[t].offset + Ends(order[t])[nth]
      BY <2>2, <2>3, <2>4, <2>5, <2>7
    <3> QED BY <3>1, <3>2
  <2>12. PlacedInv'
    <3> SUFFICES ASSUME NEW s \in Plan, NEW i \in 1..Len(Strings), Written(s, i)'
                 PROVE  Placed(s, i)'
      BY DEF PlacedInv, Plan
    <3>1. Written(s, i) \/ (s = t /\ i = nth)
      BY <2>1, <1>2 DEF Written, Plan
    <3>2. CASE Written(s, i)
      <4>1. Placed(s, i)
        BY <3>2, <1>1 DEF PlacedInv
      <4> SUFFICES ASSUME NEW k \in 1..order[s][Strings[i]]
                   PROVE  LET at == entries[s].offset + Ends(order[s])[i - 1] + k
                          IN  at \in 1..Len(strings') /\ strings'[at] = <<s, Strings[i], k>>
        BY <1>1 DEF Placed
      <4> DEFINE at == entries[s].offset + Ends(order[s])[i - 1] + k
      <4>2. at \in 1..Len(strings) /\ strings[at] = <<s, Strings[i], k>>
        BY <4>1 DEF Placed
      <4> HIDE DEF at
      <4>3. at \in 1..(Len(strings) + length) /\ at <= Len(strings)
        BY <4>2, <2>7, <2>3
      <4>4. at \in 1..Len(strings') /\ strings'[at] = <<s, Strings[i], k>>
        BY <4>2, <4>3, <2>7
      <4> QED BY <4>4 DEF at
    <3>3. CASE s = t /\ i = nth
      <4> SUFFICES ASSUME NEW k \in 1..length
                   PROVE  start + k \in 1..Len(strings') /\ strings'[start + k] = <<t, Strings[nth], k>>
        BY <3>3, <1>1 DEF Placed, length
      <4> HIDE DEF start
      <4>1. start + k \in 1..(Len(strings) + length) /\ ~(start + k <= Len(strings))
            /\ (start + k) - Len(strings) = k
        BY <2>3, <2>5, <2>7
      <4> QED BY <4>1, <2>6, <2>7
    <3> QED BY <3>1, <3>2, <3>3
  <2> QED BY <2>8, <2>9, <2>10, <2>11, <2>12 DEF PlanInv
<1> QED BY <1>3, <1>4

LEMMA PlanInvReadsBack == PlanInv => ReadBack
<1> SUFFICES ASSUME PlanInv, creating = "created", NEW t \in Plan, NEW i \in DOMAIN Strings
             PROVE  GetString(t, i) = Text(t, Strings[i])
  BY DEF ReadBack
<1>1. i \in 1..Len(Strings) /\ Strings[i] \in Fields
  BY StringsType
<1>2. entries[t].length = order[t]
  BY DEF PlanInv, PhaseInv, EntriesInv, Plan
<1>3. Placed(t, i)
  BY <1>1, PlanAssumption DEF PlanInv, PlacedInv, Written, PhaseInv, Plan
<1>4. ASSUME NEW k \in 1..order[t][Strings[i]]
      PROVE  CharAt(StartOf(t, i) + k) = <<t, Strings[i], k>>
  <2> DEFINE at == entries[t].offset + Ends(order[t])[i - 1] + k
  <2>1. at \in 1..Len(strings) /\ strings[at] = <<t, Strings[i], k>>
    BY <1>3 DEF Placed
  <2>2. StartOf(t, i) + k = at
    BY <1>2 DEF StartOf
  <2>3. DOMAIN strings = 1..Len(strings)
    BY DEF PlanInv, PlanTypeOK
  <2> HIDE DEF at
  <2> QED BY <2>1, <2>2, <2>3 DEF CharAt
<1>5. GetString(t, i) = [k \in 1..order[t][Strings[i]] |-> <<t, Strings[i], k>>]
  BY <1>2, <1>4 DEF GetString
<1> QED BY <1>5 DEF Text

(***************************************************************************)
(* JobPartPlanFileName.Create: whatever the names, and however many the    *)
(* transfers, a plan file that was created gives back every string of      *)
(* every transfer exactly, although only the first string of a transfer is *)
(* compared with where the entries say it is.                              *)
(***************************************************************************)
THEOREM PlanReadsBack == PlanSpec => []ReadBack
<1>1. PlanInv /\ [PlanNext]_planVars => PlanInv'
  <2> SUFFICES ASSUME PlanInv, [PlanNext]_planVars PROVE PlanInv'
    OBVIOUS
  <2>1. CASE WriteEntry
    BY <2>1, WriteEntryInv
  <2>2. CASE WriteString
    BY <2>2, WriteStringInv
  <2>3. CASE UNCHANGED planVars
    BY <2>3 DEF planVars, PlanInv, PlanTypeOK, PhaseInv, EntriesInv, EndInv, PlacedInv, Placed, Written
  <2> QED BY <2>1, <2>2, <2>3 DEF PlanNext
<1> QED BY PlanInitInv, <1>1, PlanInvReadsBack, PTL DEF PlanSpec

=============================================================================
