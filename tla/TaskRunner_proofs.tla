------------------------- MODULE TaskRunner_proofs -------------------------
(***************************************************************************)
(* Proofs that the counts of a task's result add up, whatever was skipped, *)
(* lost or late, that nothing is deleted whose source is still there, and  *)
(* that the console gives each question an answer that was meant for it.   *)
(***************************************************************************)
EXTENDS TaskRunner, Console, SequenceTheorems, FiniteSetTheorems, TLAPS

TaskTypeOK ==
    /\ source \subseteq Records /\ dest \subseteq Records /\ unread \subseteq Records
    /\ tracked \subseteq Records /\ chosen \subseteq tracked /\ toList \subseteq chosen
    /\ skippedDel \in Nat
    /\ xfer \in [Records -> {"none", "queued"} \cup Finished]
    /\ jobEvents \in [Records -> SUBSET {"success", "failed", "skipped"}]
    /\ counted \subseteq Records /\ polled \subseteq counted
    /\ taskPc \in {"load", "list", "spinning", "crashed", "wait", "submit", "exit"}

(* The records that the load told the event hub to be skipped.             *)
SkippedBefore == {r \in Records : "skipped" \in jobEvents[r]}

(* A record is read once, then listed once, then transferred once.         *)
InOrder ==
    /\ unread \cap tracked = {}
    /\ taskPc = "load" => toList = {} /\ \A r \in Records : xfer[r] = "none"
    /\ taskPc \notin {"load", "list", "spinning", "crashed"} => toList = {}

Transferred ==
    /\ \A r \in toList : xfer[r] = "none"
    /\ \A r \in Records : xfer[r] # "none" => r \in chosen
    /\ \A r \in counted : xfer[r] \in Finished
    /\ taskPc \in {"submit", "exit"} => \A r \in Records : xfer[r] # "queued"

Loaded == InOrder /\ Transferred

(* A record that is still to be dealt with has had no event, any other one *)
(* at most; the skipped ones are counted, and are not chosen.              *)
Waits(r) ==
    \/ r \in unread
    \/ r \in chosen /\ taskPc = "load"
    \/ r \in toList
    \/ xfer[r] = "queued"

NotYetTold == \A r \in Records : Waits(r) => jobEvents[r] = {}

ToldOnce ==
    \A r \in Records : \E s \in {"success", "failed", "skipped"} : jobEvents[r] \subseteq {s}

SkippedCounted ==
    /\ SkippedBefore \subseteq tracked \ chosen
    /\ skippedDel = Cardinality(SkippedBefore)

Told == NotYetTold /\ ToldOnce /\ SkippedCounted

Missing == taskType = "DeltaDelete" => chosen \subseteq gone

(* What was sent of the whole task is still the result.                    *)
Sent ==
    /\ taskPc # "exit" => taskEvents = << >>
    /\ \A i \in DOMAIN taskEvents : taskEvents[i].complete => taskEvents[i] = TaskResult

TaskInv == TaskTypeOK /\ Loaded /\ Told /\ Missing /\ Sent

-----------------------------------------------------------------------------
(* Sets of records.                                                        *)

LEMMA RecordsFinite ==
  ASSUME NEW S \in SUBSET Records
  PROVE  IsFiniteSet(S) /\ Cardinality(S) \in Nat
  BY TaskAssumption, FS_Subset, FS_CardinalityType

LEMMA FewerRecords ==
  ASSUME NEW S \in SUBSET Records, NEW T \in SUBSET Records, S \subseteq T
  PROVE  Cardinality(S) <= Cardinality(T)
  BY RecordsFinite, FS_Subset

LEMMA ApartRecords ==
  ASSUME NEW S \in SUBSET Records, NEW T \in SUBSET Records, S \cap T = {}
  PROVE  Cardinality(S \cup T) = Cardinality(S) + Cardinality(T)
<1>1. IsFiniteSet(S) /\ IsFiniteSet(T) /\ Cardinality(S) \in Nat /\ Cardinality(T) \in Nat
  BY RecordsFinite
<1>2. Cardinality(S \cup T) = Cardinality(S) + Cardinality(T) - Cardinality(S \cap T)
  BY <1>1, FS_Union
<1> QED BY <1>1, <1>2, FS_EmptySet

LEMMA OneMoreRecord ==
  ASSUME NEW S \in SUBSET Records, NEW r \in Records, r \notin S
  PROVE  Cardinality(S \cup {r}) = Cardinality(S) + 1
  BY RecordsFinite, FS_AddElement

(***************************************************************************)
(* The arithmetic of the result: the transfers that the progress loop saw, *)
(* and all the others of the task but those that were skipped before, are  *)
(* failed or never scheduled among the ones called failed.                 *)
(***************************************************************************)
Within(e) ==
    /\ e.files = e.skipped + e.finished + e.failed
    /\ e.finished \in 0..Cardinality(Ended("success"))
    /\ e.skipped \in skippedDel..(skippedDel + Cardinality(Ended("skipped")))
    /\ e.failed >= Cardinality(Ended("failed"))
                   + Cardinality({r \in Ended("none") : "skipped" \notin jobEvents[r]})

LEMMA ResultWithin ==
  ASSUME TaskInv
  PROVE  Within(TaskResult)
<1> DEFINE P(outcome) == {r \in polled : xfer[r] = outcome}
           Unseen == Ended("failed") \ polled
           Lost == {r \in Ended("none") : "skipped" \notin jobEvents[r]}
           p == Cardinality(P("skipped"))
           f == Cardinality(P("success"))
           e == Cardinality(P("failed"))
           n == Cardinality(tracked)
<1>1. /\ polled \subseteq tracked /\ tracked \subseteq Records
      /\ \A r \in polled : xfer[r] \in Finished
      /\ skippedDel = Cardinality(SkippedBefore) /\ SkippedBefore \subseteq Ended("none")
      /\ SkippedBefore \cap polled = {}
  BY
     DEF TaskInv, TaskTypeOK, Loaded, InOrder, Transferred, Told, NotYetTold, Waits, ToldOnce, SkippedCounted, Ended, Finished
<1>2. polled = P("skipped") \cup P("success") \cup P("failed")
  BY <1>1 DEF Finished
<1>3. Cardinality(polled) = p + f + e
  <2>1. Cardinality(P("skipped") \cup P("success")) = p + f
    BY <1>1, ApartRecords
  <2>2. Cardinality((P("skipped") \cup P("success")) \cup P("failed"))
          = Cardinality(P("skipped") \cup P("success")) + e
    BY <1>1, ApartRecords
  <2> QED BY <1>2, <2>1, <2>2
<1>4. n = Cardinality(polled) + Cardinality(tracked \ polled)
  <2>1. polled \cup (tracked \ polled) = tracked
    BY <1>1
  <2> QED BY <1>1, <2>1, ApartRecords
<1>5. Cardinality(tracked \ polled)
        >= Cardinality(Unseen) + Cardinality(SkippedBefore) + Cardinality(Lost)
  <2>1. Cardinality(Unseen \cup SkippedBefore) = Cardinality(Unseen) + Cardinality(SkippedBefore)
    BY <1>1, ApartRecords DEF Ended
  <2>2. Cardinality((Unseen \cup SkippedBefore) \cup Lost)
          = Cardinality(Unseen \cup SkippedBefore) + Cardinality(Lost)
    BY <1>1, ApartRecords DEF Ended, SkippedBefore
  <2>3. (Unseen \cup SkippedBefore) \cup Lost \subseteq tracked \ polled
    BY <1>1 DEF Ended, Finished
  <2>4. Cardinality((Unseen \cup SkippedBefore) \cup Lost) <= Cardinality(tracked \ polled)
    BY <1>1, <2>3, FewerRecords
  <2> QED BY <2>1, <2>2, <2>4
<1>6. Cardinality(Ended("failed")) = e + Cardinality(Unseen)
  <2>1. Ended("failed") = P("failed") \cup Unseen /\ P("failed") \cap Unseen = {}
    BY <1>1 DEF Ended
  <2>2. P("failed") \in SUBSET Records /\ Unseen \in SUBSET Records
    BY <1>1 DEF Ended
  <2> HIDE DEF P, Unseen
  <2> QED BY <2>1, <2>2, ApartRecords
<1>7. /\ f <= Cardinality(Ended("success")) /\ p <= Cardinality(Ended("skipped"))
  BY <1>1, FewerRecords DEF Ended
<1>8. /\ p \in Nat /\ f \in Nat /\ e \in Nat /\ n \in Nat /\ skippedDel \in Nat
      /\ Cardinality(Unseen) \in Nat /\ Cardinality(Lost) \in Nat
      /\ Cardinality(Ended("success")) \in Nat /\ Cardinality(Ended("skipped")) \in Nat
      /\ Cardinality(tracked \ polled) \in Nat
  BY <1>1, RecordsFinite DEF Ended
<1>9. TaskResult = Result(TRUE, n, p + skippedDel, f, e + (n - (p + f + e) - skippedDel))
  BY DEF TaskResult, numOfNonCopy, numCopyJob, numJobOfTask, Polled
<1> HIDE DEF p, f, e, n, Unseen, Lost
<1>10. /\ TaskResult.files = n /\ TaskResult.skipped = p + skippedDel /\ TaskResult.finished = f
       /\ TaskResult.failed = e + (n - (p + f + e) - skippedDel)
  BY <1>9 DEF Result
<1>11. TaskResult.files = TaskResult.skipped + TaskResult.finished + TaskResult.failed
  BY <1>8, <1>10
<1>12. TaskResult.finished \in 0..Cardinality(Ended("success"))
  BY <1>7, <1>8, <1>10
<1>13. TaskResult.skipped \in skippedDel..(skippedDel + Cardinality(Ended("skipped")))
  BY <1>7, <1>8, <1>10
<1>14. TaskResult.failed >= Cardinality(Ended("failed")) + Cardinality(Lost)
  BY <1>1, <1>3, <1>4, <1>5, <1>6, <1>8, <1>10
<1> QED BY <1>11, <1>12, <1>13, <1>14 DEF Within, Lost

LEMMA TaskInvHolds ==
  ASSUME TaskInv
  PROVE  ResultAddsUp /\ DeletedOnlyWhenGone
<1>1. EventsAgree
  <2> SUFFICES ASSUME NEW r \in Records PROVE Cardinality(jobEvents[r]) <= 1
    BY DEF EventsAgree
  <2>1. PICK s : jobEvents[r] \subseteq {s}
    BY DEF TaskInv, Told, NotYetTold, Waits, ToldOnce, SkippedCounted
  <2>2. jobEvents[r] = {} \/ jobEvents[r] = {s}
    BY <2>1
  <2>3. Cardinality({}) = 0 /\ Cardinality({s}) = 1
    BY FS_EmptySet, FS_Singleton
  <2>4. Cardinality(jobEvents[r]) \in {0, 1}
    BY <2>2, <2>3
  <2> QED BY <2>4
<1>2. ASSUME NEW e \in Final PROVE e = TaskResult
  BY DEF Final, TaskInv, Sent
<1>3. ResultAddsUp
  BY <1>1, <1>2, ResultWithin, Zenon DEF ResultAddsUp, Within
<1>4. DeletedOnlyWhenGone
  BY DEF DeletedOnlyWhenGone, TaskInv, Loaded, InOrder, Transferred, Missing
<1> QED BY <1>3, <1>4

-----------------------------------------------------------------------------
(* The steps.                                                              *)

(* A step that sends nothing keeps what was sent.                          *)
LEMMA SentStays ==
  ASSUME TaskInv, taskEvents' = taskEvents, taskPc' # "exit", taskPc # "exit"
  PROVE  Sent'
  BY DEF TaskInv, Sent

(* The load decides on a record.                                           *)
LEMMA ReadRecordKeeps ==
  ASSUME TaskInv, NEW r \in Records, ReadRecord(r)
  PROVE  TaskInv'
<1>1. /\ taskPc = "load" /\ r \in unread /\ unread' = unread \ {r}
      /\ UNCHANGED <<taskType, source, dest, recreated, taskPc, toList, xfer, counted, polled,
                     pollPc, taskEvents>>
  BY DEF ReadRecord, jobVars
<1>2. /\ r \notin tracked /\ r \notin chosen /\ jobEvents[r] = {} /\ r \notin SkippedBefore
      /\ toList = {} /\ xfer[r] = "none"
  BY <1>1
     DEF TaskInv, Loaded, InOrder, Transferred, Told, NotYetTold, Waits, ToldOnce, SkippedCounted, TaskTypeOK, SkippedBefore
<1>3. skippedDel \in Nat /\ jobEvents \in [Records -> SUBSET {"success", "failed", "skipped"}]
  BY DEF TaskInv, TaskTypeOK
<1>4. \/ /\ tracked' = tracked \cup {r} /\ chosen' = chosen \cup {r}
         /\ UNCHANGED <<skippedDel, jobEvents>>
         /\ taskType = "DeltaDelete" => gone' = gone \cup {r}
         /\ taskType # "DeltaDelete" => gone' = gone
      \/ /\ tracked' \in {tracked, tracked \cup {r}} /\ chosen' = chosen
         /\ UNCHANGED skippedDel /\ jobEvents' = [jobEvents EXCEPT ![r] = {"failed"}]
         /\ gone \subseteq gone'
      \/ /\ tracked' = tracked \cup {r} /\ chosen' = chosen /\ gone' = gone
         /\ skippedDel' = skippedDel + 1 /\ jobEvents' = [jobEvents EXCEPT ![r] = {"skipped"}]
  <2>1. CASE taskType # "DeltaDelete"
    BY <2>1 DEF ReadRecord, HandleBlobArchiving
  <2>2. CASE taskType = "DeltaDelete" /\ SkipDeletion(r)
    BY <1>2, <1>3, <2>2 DEF SkipDeletion, Event
  <2>3. CASE taskType = "DeltaDelete" /\ ChooseDeletion(r)
    <3>1. gone' = gone \cup {r}
      BY <2>3 DEF ChooseDeletion, SourceAnswers
    <3> QED BY <1>2, <1>3, <2>3, <3>1 DEF ChooseDeletion, Event
  <2>4. CASE taskType = "DeltaDelete" /\ SourceProbeFails(r)
    BY <1>2, <1>3, <2>4 DEF SourceProbeFails, Event
  <2> QED BY <2>1, <2>2, <2>3, <2>4 DEF ReadRecord
<1>5. TaskTypeOK'
  <2>1. skippedDel' \in Nat
    BY <1>3, <1>4
  <2>2. jobEvents' \in [Records -> SUBSET {"success", "failed", "skipped"}]
    BY <1>3, <1>4
  <2>3. tracked' \subseteq Records /\ chosen' \subseteq tracked' /\ chosen \subseteq chosen'
    BY <1>4 DEF TaskInv, TaskTypeOK
  <2> QED BY <1>1, <2>1, <2>2, <2>3 DEF TaskInv, TaskTypeOK
<1>6. Loaded'
  <2>1. chosen \subseteq chosen' /\ unread' \cap tracked' = {}
    BY <1>1, <1>4 DEF TaskInv, Loaded, InOrder, Transferred
  <2> QED BY <1>1, <1>2, <2>1 DEF TaskInv, Loaded, InOrder, Transferred
<1>7. Told'
  <2>1. \A u \in Records : u # r => jobEvents'[u] = jobEvents[u]
    BY <1>3, <1>4
  <2>2. jobEvents'[r] \in {{}, {"failed"}, {"skipped"}} /\ (jobEvents'[r] # {} => chosen' = chosen)
    BY <1>2, <1>3, <1>4
  <2>3. NotYetTold'
    BY <1>1, <1>2, <1>4, <2>1, <2>2 DEF TaskInv, Told, NotYetTold, Waits, ToldOnce, SkippedCounted
  <2>4. ToldOnce'
    BY <2>1, <2>2 DEF TaskInv, Told, ToldOnce
  <2>5. SkippedCounted'
    <3>0. SkippedBefore \subseteq tracked \ chosen /\ skippedDel = Cardinality(SkippedBefore)
      BY DEF TaskInv, Told, SkippedCounted
    <3>1. CASE skippedDel' = skippedDel /\ "skipped" \notin jobEvents'[r]
      <4>1. SkippedBefore' = SkippedBefore
        BY <1>2, <2>1, <3>1 DEF SkippedBefore
      <4> QED BY <1>2, <1>4, <3>0, <3>1, <4>1 DEF SkippedCounted
    <3>2. CASE /\ tracked' = tracked \cup {r} /\ chosen' = chosen
               /\ skippedDel' = skippedDel + 1
               /\ jobEvents' = [jobEvents EXCEPT ![r] = {"skipped"}]
      <4>1. SkippedBefore' = SkippedBefore \cup {r}
        BY <1>3, <3>2 DEF SkippedBefore
      <4>2. Cardinality(SkippedBefore \cup {r}) = Cardinality(SkippedBefore) + 1
        BY <1>2, OneMoreRecord DEF SkippedBefore
      <4> QED BY <1>2, <3>0, <3>2, <4>1, <4>2 DEF SkippedCounted
    <3> QED BY <1>2, <1>3, <1>4, <3>1, <3>2
  <2> QED BY <2>3, <2>4, <2>5 DEF Told
<1>8. Missing'
  BY <1>1, <1>4 DEF TaskInv, Missing
<1> QED BY <1>1, <1>5, <1>6, <1>7, <1>8, SentStays DEF TaskInv

LEMMA StartCommandKeeps ==
  ASSUME TaskInv, StartCommand
  PROVE  TaskInv'
<1>1. /\ taskPc = "load" /\ unread = {} /\ taskPc' = "list" /\ toList' = chosen
      /\ UNCHANGED <<taskType, source, dest, gone, recreated, unread, tracked, chosen, skippedDel,
                     xfer, counted, polled, jobEvents, taskEvents>>
  BY DEF StartCommand, worldVars, loadVars
<1>2. TaskTypeOK' /\ Loaded' /\ Missing'
  BY <1>1 DEF TaskInv, TaskTypeOK, Loaded, InOrder, Transferred, Missing
<1>3. Told'
  BY <1>1 DEF TaskInv, TaskTypeOK, Told, NotYetTold, Waits, ToldOnce, SkippedCounted, SkippedBefore
<1> QED BY <1>1, <1>2, <1>3, SentStays DEF TaskInv

(* A name is scanned: found, found empty, or in vain.                      *)
LEMMA ScanKeeps ==
  ASSUME TaskInv, NEW r \in Records, Scan(r)
  PROVE  TaskInv'
<1>1. /\ taskPc = "list" /\ r \in toList /\ toList' = toList \ {r}
      /\ UNCHANGED <<taskType, source, dest, gone, recreated, unread, tracked, chosen, skippedDel,
                     counted, polled, taskEvents>>
  BY DEF Scan, ScanFinds, ScanFindsNothing, ScanFails, Scanned, worldVars, loadVars
<1>2. /\ xfer[r] = "none" /\ jobEvents[r] = {} /\ r \in chosen
      /\ xfer \in [Records -> {"none", "queued"} \cup Finished]
      /\ jobEvents \in [Records -> SUBSET {"success", "failed", "skipped"}]
  BY <1>1
     DEF TaskInv, TaskTypeOK, Loaded, InOrder, Transferred, Told, NotYetTold, Waits, ToldOnce, SkippedCounted
<1>3. \/ xfer' = [xfer EXCEPT ![r] = "queued"] /\ UNCHANGED <<taskPc, jobEvents>>
      \/ UNCHANGED <<taskPc, xfer, jobEvents>>
      \/ taskPc' \in {"spinning", "crashed"} /\ UNCHANGED <<xfer, jobEvents>>
      \/ /\ jobEvents' = [jobEvents EXCEPT ![r] = {"failed"}]
         /\ UNCHANGED <<taskPc, xfer>>
  <2>1. CASE ScanFinds(r) \/ ScanFindsNothing(r)
    BY <2>1 DEF ScanFinds, ScanFindsNothing
  <2>2. CASE ScanFails(r)
    <3>1. /\ UNCHANGED xfer
          /\ \/ taskPc' \in {"spinning", "crashed"} /\ UNCHANGED jobEvents
             \/ Event(r, "failed") /\ UNCHANGED taskPc
      BY <2>2 DEF ScanFails
    <3> QED BY <1>2, <3>1 DEF Event
  <2> QED BY <2>1, <2>2 DEF Scan
<1>4. /\ taskPc' \in {"list", "spinning", "crashed"}
      /\ xfer' \in [Records -> {"none", "queued"} \cup Finished]
      /\ jobEvents' \in [Records -> SUBSET {"success", "failed", "skipped"}]
      /\ \A u \in Records : u # r => xfer'[u] = xfer[u] /\ jobEvents'[u] = jobEvents[u]
      /\ xfer'[r] \in {"none", "queued"} /\ jobEvents'[r] \in {{}, {"failed"}}
      /\ xfer'[r] = "queued" => jobEvents'[r] = {}
  BY <1>1, <1>2, <1>3
<1>5. TaskTypeOK'
  BY <1>1, <1>4 DEF TaskInv, TaskTypeOK
<1>6. Loaded' /\ Missing'
  <2>1. InOrder'
    BY <1>1, <1>4 DEF TaskInv, Loaded, InOrder
  <2>2. Transferred'
    <3>1. \A u \in toList' : xfer'[u] = "none"
      BY <1>1, <1>4 DEF TaskInv, TaskTypeOK, Loaded, Transferred
    <3>2. \A u \in Records : xfer'[u] # "none" => u \in chosen'
      BY <1>1, <1>2, <1>4 DEF TaskInv, Loaded, Transferred
    <3>3. \A u \in counted' : xfer'[u] \in Finished
      BY <1>1, <1>2, <1>4 DEF TaskInv, TaskTypeOK, Loaded, Transferred, Finished
    <3> QED BY <1>4, <3>1, <3>2, <3>3 DEF Transferred
  <2> QED BY <1>1, <2>1, <2>2 DEF TaskInv, Loaded, Missing
<1>7. Told'
  <2>1. SkippedBefore' = SkippedBefore
    BY <1>2, <1>4 DEF SkippedBefore
  <2>2. r \notin unread
    BY <1>2 DEF TaskInv, TaskTypeOK, Loaded, InOrder, Transferred
  <2>3. NotYetTold'
    BY <1>1, <1>4, <2>2 DEF TaskInv, Told, NotYetTold, Waits, ToldOnce, SkippedCounted
  <2>4. ToldOnce'
    BY <1>4 DEF TaskInv, Told, NotYetTold, Waits, ToldOnce, SkippedCounted
  <2>5. SkippedCounted'
    BY <1>1, <2>1 DEF TaskInv, Told, SkippedCounted
  <2> QED BY <2>3, <2>4, <2>5 DEF Told
<1> QED BY <1>1, <1>4, <1>5, <1>6, <1>7, SentStays DEF TaskInv

LEMMA EndTransferKeeps ==
  ASSUME TaskInv, NEW r \in Records, EndTransfer(r)
  PROVE  TaskInv'
<1>1. PICK outcome \in {"success", "skipped", "failed"} :
        /\ xfer' = [xfer EXCEPT ![r] = outcome]
        /\ Event(r, IF outcome = "failed" THEN "failed" ELSE "success")
        /\ dest' \in {dest, dest \ {r}, dest \cup {r}}
  BY DEF EndTransfer
<1>2. /\ xfer[r] = "queued"
      /\ UNCHANGED <<taskType, source, gone, taskPc, unread, tracked, chosen, skippedDel, toList,
                     counted, polled, taskEvents>>
  BY DEF EndTransfer, loadVars
<1>3. /\ jobEvents[r] = {} /\ r \in chosen /\ r \notin toList /\ r \notin counted /\ r \notin unread
      /\ taskPc \notin {"load", "submit", "exit"}
      /\ xfer \in [Records -> {"none", "queued"} \cup Finished]
      /\ jobEvents \in [Records -> SUBSET {"success", "failed", "skipped"}]
  BY <1>2
     DEF TaskInv, TaskTypeOK, Loaded, InOrder, Transferred, Told, NotYetTold, Waits, ToldOnce, SkippedCounted, Finished
<1>4. /\ xfer' \in [Records -> {"none", "queued"} \cup Finished] /\ xfer'[r] \in Finished
      /\ jobEvents' \in [Records -> SUBSET {"success", "failed", "skipped"}]
      /\ \A u \in Records : u # r => xfer'[u] = xfer[u] /\ jobEvents'[u] = jobEvents[u]
      /\ jobEvents'[r] \in {{"success"}, {"failed"}}
  BY <1>1, <1>3 DEF Event, Finished
<1>5. TaskTypeOK'
  BY <1>1, <1>2, <1>4 DEF TaskInv, TaskTypeOK
<1>6. Loaded' /\ Missing'
  <2>1. InOrder'
    BY <1>2, <1>3, <1>4 DEF TaskInv, Loaded, InOrder
  <2>2. Transferred'
    <3>1. \A u \in toList' : xfer'[u] = "none"
      BY <1>2, <1>3, <1>4 DEF TaskInv, TaskTypeOK, Loaded, Transferred
    <3>2. \A u \in Records : xfer'[u] # "none" => u \in chosen'
      BY <1>2, <1>3, <1>4 DEF TaskInv, Loaded, Transferred
    <3>3. \A u \in counted' : xfer'[u] \in Finished
      BY <1>2, <1>4 DEF TaskInv, TaskTypeOK, Loaded, Transferred
    <3> QED BY <1>2, <1>3, <3>1, <3>2, <3>3 DEF Transferred
  <2> QED BY <1>2, <2>1, <2>2 DEF TaskInv, Loaded, Missing
<1>7. Told'
  <2>1. SkippedBefore' = SkippedBefore
    BY <1>3, <1>4 DEF SkippedBefore
  <2>2. NotYetTold'
    BY <1>2, <1>3, <1>4 DEF TaskInv, Told, NotYetTold, Waits, ToldOnce, SkippedCounted, Finished
  <2>3. ToldOnce'
    BY <1>4 DEF TaskInv, Told, NotYetTold, Waits, ToldOnce, SkippedCounted
  <2>4. SkippedCounted'
    BY <1>2, <2>1 DEF TaskInv, Told, SkippedCounted
  <2> QED BY <2>2, <2>3, <2>4 DEF Told
<1> QED BY <1>2, <1>3, <1>5, <1>6, <1>7, SentStays DEF TaskInv

(* The result of a task that has ended is a constant.                      *)
LEMMA ResultStays ==
  ASSUME UNCHANGED <<tracked, skippedDel, xfer, polled>>
  PROVE  TaskResult' = TaskResult
  BY DEF TaskResult, numOfNonCopy, numCopyJob, numJobOfTask, Polled

(* The steps that only count, poll or go on.                               *)
LEMMA CountingKeeps ==
  ASSUME TaskInv, TaskTypeOK',
         UNCHANGED <<taskType, unread, tracked, chosen, skippedDel, toList, xfer, jobEvents,
                     taskEvents, gone>>,
         \A r \in counted' : xfer[r] \in Finished,
         \/ taskPc' = taskPc
         \/ taskPc = "list" /\ toList = {} /\ taskPc' = "wait"
         \/ taskPc = "wait" /\ JobDone /\ taskPc' = "submit",
         polled' = polled \/ taskPc # "exit"
  PROVE  TaskInv'
<1>1. Loaded' /\ Missing' /\ Told'
  BY
     DEF TaskInv, Loaded, InOrder, Transferred, Missing, Told, NotYetTold, Waits, ToldOnce, SkippedCounted, SkippedBefore, JobDone
<1>2. Sent'
  <2>1. CASE taskPc' = "exit"
    BY <2>1, ResultStays DEF TaskInv, Sent
  <2>2. CASE taskPc' # "exit"
    BY <2>2, SentStays
  <2> QED BY <2>1, <2>2
<1> QED BY <1>1, <1>2 DEF TaskInv

(* What is in a sequence of at most two.                                   *)
LEMMA TwoAtMost ==
  ASSUME NEW a, NEW b, NEW s \in {<<a>>, << >>}, NEW t \in {<<b>>, << >>},
         NEW i \in DOMAIN (s \o t)
  PROVE  (s \o t)[i] \in {a, b}
<1>1. CASE s = << >> /\ t = << >>
  BY <1>1
<1>2. CASE s = <<a>> /\ t = << >>
  BY <1>2
<1>3. CASE s = << >> /\ t = <<b>>
  BY <1>3
<1>4. CASE s = <<a>> /\ t = <<b>>
  BY <1>4
<1> QED BY <1>1, <1>2, <1>3, <1>4

(* The events of the result, either of which may be lost.                  *)
LEMMA SubmitTaskResultKeeps ==
  ASSUME TaskInv, SubmitTaskResult
  PROVE  TaskInv'
<1>1. /\ taskPc = "submit" /\ taskPc' = "exit"
      /\ UNCHANGED <<taskType, source, dest, gone, recreated, unread, tracked, chosen, skippedDel,
                     toList, xfer, counted, polled, jobEvents>>
  BY DEF SubmitTaskResult, worldVars, loadVars, jobVars
<1>2. PICK part \in {<<Result(FALSE, numOfNonCopy, 0, 0, numOfNonCopy)>>, << >>},
           whole \in {<<TaskResult>>, << >>} : taskEvents' = part \o whole
  BY DEF SubmitTaskResult
<1>3. Result(FALSE, numOfNonCopy, 0, 0, numOfNonCopy).complete = FALSE
  BY DEF Result
<1>4. \A i \in DOMAIN taskEvents' : taskEvents'[i].complete => taskEvents'[i] = TaskResult
  <2> SUFFICES ASSUME NEW i \in DOMAIN taskEvents', taskEvents'[i].complete
               PROVE  taskEvents'[i] = TaskResult
    OBVIOUS
  <2>1. taskEvents'[i] \in {Result(FALSE, numOfNonCopy, 0, 0, numOfNonCopy), TaskResult}
    BY <1>2, TwoAtMost, Zenon
  <2> QED BY <1>3, <2>1
<1>5. TaskResult' = TaskResult
  BY <1>1, ResultStays
<1>6. Sent'
  BY <1>1, <1>3, <1>4, <1>5 DEF Sent
<1>7. TaskTypeOK' /\ Loaded' /\ Told' /\ Missing'
  BY <1>1
     DEF TaskInv, TaskTypeOK, Loaded, InOrder, Transferred, Told, NotYetTold, Waits, ToldOnce, SkippedCounted, SkippedBefore, Missing
<1> QED BY <1>6, <1>7 DEF TaskInv

-----------------------------------------------------------------------------
LEMMA TaskStarts ==
  ASSUME TaskInit
  PROVE  TaskInv
<1>1. SkippedBefore = {}
  BY DEF TaskInit, SkippedBefore
<1>2. Told
  BY <1>1, FS_EmptySet DEF TaskInit, Told, NotYetTold, Waits, ToldOnce, SkippedCounted
<1> QED BY <1>2 DEF TaskInit, TaskInv, TaskTypeOK, Loaded, InOrder, Transferred, Missing, Sent

LEMMA TaskInvKept ==
  ASSUME TaskInv, [TaskNext]_taskVars
  PROVE  TaskInv'
<1>1. CASE TaskFinalPart
  <2>1. TaskTypeOK'
    BY <1>1 DEF TaskFinalPart, TaskInv, TaskTypeOK, worldVars, loadVars, jobVars
  <2> QED BY <1>1, <2>1, CountingKeeps
          DEF TaskFinalPart, TaskInv, Loaded, InOrder, Transferred, worldVars, loadVars, jobVars
<1>2. CASE PollCounts
  <2>1. TaskTypeOK'
    BY <1>2 DEF PollCounts, TaskInv, TaskTypeOK, worldVars, loadVars
  <2> QED BY <1>2, <2>1, CountingKeeps
     DEF PollCounts, TaskInv, Loaded, InOrder, Transferred, worldVars, loadVars
<1>3. CASE PollStatus
  <2>1. TaskTypeOK'
    BY <1>3 DEF PollStatus, TaskInv, TaskTypeOK, worldVars, loadVars
  <2> QED BY <1>3, <2>1, CountingKeeps
     DEF PollStatus, TaskInv, Loaded, InOrder, Transferred, worldVars, loadVars
<1>4. ASSUME NEW r \in Records, CountTransfer(r) PROVE TaskInv'
  <2>1. TaskTypeOK'
    BY <1>4 DEF CountTransfer, TaskInv, TaskTypeOK, worldVars, loadVars
  <2> QED BY <1>4, <2>1, CountingKeeps
     DEF CountTransfer, TaskInv, Loaded, InOrder, Transferred, worldVars, loadVars
<1>5. ASSUME NEW r \in Records, Recreate(r) PROVE TaskInv'
  <2>1. TaskTypeOK'
    BY <1>5 DEF Recreate, TaskInv, TaskTypeOK, loadVars, jobVars
  <2> QED BY <1>5, <2>1, CountingKeeps
     DEF Recreate, TaskInv, Loaded, InOrder, Transferred, loadVars, jobVars
<1>6. CASE UNCHANGED taskVars
  <2>1. TaskTypeOK'
    BY <1>6 DEF taskVars, TaskInv, TaskTypeOK, worldVars, loadVars, jobVars
  <2> QED BY <1>6, <2>1, CountingKeeps
     DEF taskVars, TaskInv, Loaded, InOrder, Transferred, worldVars, loadVars, jobVars
<1> QED BY <1>1, <1>2, <1>3, <1>4, <1>5, <1>6, ReadRecordKeeps, StartCommandKeeps, ScanKeeps,
           EndTransferKeeps, SubmitTaskResultKeeps DEF TaskNext, TaskSteps

(***************************************************************************)
(* Whatever number of records a task has, however they were skipped, lost  *)
(* or late: the result that SubmitTaskResultToEventHubB2B sends adds up,   *)
(* calls no file finished that is not, hides no failed or lost one, and    *)
(* the events of a file do not contradict each other.                      *)
(***************************************************************************)
THEOREM ResultIsRight == TaskSpec => []ResultAddsUp
<1>1. TaskInit => TaskInv
  BY TaskStarts
<1>2. TaskInv /\ [TaskNext]_taskVars => TaskInv'
  BY TaskInvKept
<1>3. TaskInv => ResultAddsUp
  BY TaskInvHolds
<1> QED BY <1>1, <1>2, <1>3, PTL DEF TaskSpec

(***************************************************************************)
(* The DeltaDelete branch deletes a blob only when its source was missing  *)
(* at the time the task looked.                                            *)
(***************************************************************************)
THEOREM OnlyGoneIsDeleted == TaskSpec => []DeletedOnlyWhenGone
<1>1. TaskInit => TaskInv
  BY TaskStarts
<1>2. TaskInv /\ [TaskNext]_taskVars => TaskInv'
  BY TaskInvKept
<1>3. TaskInv => DeletedOnlyWhenGone
  BY TaskInvHolds
<1> QED BY <1>1, <1>2, <1>3, PTL DEF TaskSpec


----------------------------------------------------------------------------
(* What the user types, and what there is to read and to show.             *)
Texts == Answers \cup {"", "cancel", "good request", "bad request"}
TypedLine == [text : Texts, to : Everyone \cup {"none"}]
Line == [pc : {"read", "line", "cancel", "request"}, text : Texts,
         to : Everyone \cup {"none"}, late : BOOLEAN, at : Everyone \cup {"none"}]

Mail == [type : {"prompt", "end"}, from : Everyone]

ConsoleTypeOK ==
    /\ typed \in Seq(TypedLine)
    /\ watcher \in Line /\ inputQueue \in Seq(Line)
    /\ msgQueue \in Seq(Mail)
    /\ shown \in Everyone \cup {"none"}
    /\ prompt \in [Everyone -> {"no", "queued", "offering", "waiting"}]
    /\ reply \in [Everyone -> Texts]
    /\ saved \in [Types -> {"ask", "overwrite", "skip"}]
    /\ decided \in [Askers -> {"no", "overwrite", "skip"}]

(* A transfer that asks holds the lock of the overwritePrompter.           *)
OneAsks == \A a \in Askers : prompt[a] # "no" => lock = a

(* A line that is not late was read while the question was shown.          *)
Timely(l) == l.late \/ l.at = shown
LinesAreTimely ==
    shown # "none" => /\ watcher.pc = "line" => Timely(watcher)
                      /\ \A i \in 1..Len(inputQueue) : Timely(inputQueue[i])

(* A polite user has one line on its way at most, for what is shown.       *)
OneLine ==
    polite =>
      /\ typed # <<>> => /\ Len(typed) = 1 /\ inputQueue = <<>> /\ watcher.pc # "line"
                         /\ shown # "none" /\ typed[1].to = shown
      /\ watcher.pc = "line" => /\ typed = <<>> /\ inputQueue = <<>>
                               /\ shown # "none" /\ watcher.to = shown
      /\ inputQueue # <<>> => /\ Len(inputQueue) = 1 /\ typed = <<>> /\ watcher.pc # "line"
                              /\ shown # "none" /\ inputQueue[1].to = shown

ConsoleInv == ConsoleTypeOK /\ OneAsks /\ ForAllIsForAll /\ LinesAreTimely /\ OneLine

LEMMA ConsoleInitInv == ConsoleInit => ConsoleInv
<1> SUFFICES ASSUME ConsoleInit PROVE ConsoleInv
  OBVIOUS
<1>1. NoLine \in Line
  BY DEF NoLine, Line, Texts
<1>2. ConsoleTypeOK
  <2>1. watcher \in Line /\ shown \in Everyone \cup {"none"}
    BY <1>1 DEF ConsoleInit
  <2>2. inputQueue \in Seq(Line) /\ msgQueue \in Seq(Mail) /\ typed \in Seq(TypedLine)
    <3>1. << >> \in Seq(Line) /\ << >> \in Seq(Mail) /\ << >> \in Seq(TypedLine)
      BY EmptySeq
    <3> QED BY <3>1 DEF ConsoleInit
  <2>3. prompt \in [Everyone -> {"no", "queued", "offering", "waiting"}]
    BY DEF ConsoleInit
  <2>4. reply \in [Everyone -> Texts]
    BY DEF ConsoleInit, Texts
  <2>5. /\ saved \in [Types -> {"ask", "overwrite", "skip"}]
        /\ decided \in [Askers -> {"no", "overwrite", "skip"}]
    BY DEF ConsoleInit
  <2> QED BY <2>1, <2>2, <2>3, <2>4, <2>5 DEF ConsoleTypeOK
<1>3. OneAsks /\ ForAllIsForAll
  BY DEF ConsoleInit, OneAsks, ForAllIsForAll, Everyone
<1>4. LinesAreTimely
  BY DEF ConsoleInit, LinesAreTimely
<1>5. OneLine
  BY DEF ConsoleInit, OneLine, NoLine
<1> QED BY <1>2, <1>3, <1>4, <1>5 DEF ConsoleInv

LEMMA LateLines ==
  ASSUME NEW q \in Seq(Line)
  PROVE  /\ Late(q) \in Seq(Line) /\ Len(Late(q)) = Len(q)
         /\ \A i \in 1..Len(q) : Late(q)[i].late /\ Late(q)[i].pc = q[i].pc
<1>1. \A l \in Line : /\ [l EXCEPT !.late = TRUE] \in Line /\ [l EXCEPT !.late = TRUE].late
                      /\ [l EXCEPT !.late = TRUE].pc = l.pc
  BY DEF Line
<1>2. Late(q) = [i \in 1..Len(q) |-> [q[i] EXCEPT !.late = TRUE]]
  BY DEF Late
<1>3. \A i \in 1..Len(q) : q[i] \in Line
  OBVIOUS
<1>4. Len(q) \in Nat
  OBVIOUS
<1>5. Late(q) \in [1..Len(q) -> Line]
  BY <1>1, <1>2, <1>3
<1>6. Late(q) \in Seq(Line)
  BY <1>4, <1>5
<1>7. DOMAIN Late(q) = 1..Len(q)
  BY <1>2
<1>8. Len(Late(q)) = Len(q)
  BY <1>4, <1>6, <1>7
<1> QED BY <1>1, <1>2, <1>3, <1>6, <1>8

LEMMA ConsoleTypeStep == ConsoleTypeOK /\ ConsoleNext => ConsoleTypeOK'
<1> SUFFICES ASSUME ConsoleTypeOK, ConsoleNext PROVE ConsoleTypeOK'
  OBVIOUS
<1> USE DEF ConsoleTypeOK
<1>0. Askers \subseteq Everyone /\ Loop \in Everyone /\ \A a \in Askers : TypeOf[a] \in Types
  BY DEF Everyone, Types
<1>1. NoLine \in Line /\ \A a \in Everyone : Message("prompt", a) \in Mail /\ Message("end", a) \in Mail
  BY DEF NoLine, Line, Texts, Message, Mail
<1>12. \A a \in Everyone : /\ Append(msgQueue, Message("prompt", a)) \in Seq(Mail)
                          /\ Append(msgQueue, Message("end", a)) \in Seq(Mail)
  BY <1>1
<1>2. CASE UserAnswers \/ UserTypes
  <2>1. ASSUME NEW text \in Texts, Type(text) PROVE ConsoleTypeOK'
    <3>1. [text |-> text, to |-> shown] \in TypedLine
      BY DEF TypedLine
    <3> QED BY <2>1, <3>1 DEF Type, userVars, questionVars, overwriteVars
  <2>2. Answers \cup {"cancel", "good request", "bad request"} \subseteq Texts
    BY DEF Texts
  <2> QED BY <1>2, <2>1, <2>2 DEF UserAnswers, UserTypes
<1>13. CASE ReadLine
  <2>1. Head(typed) \in TypedLine /\ Tail(typed) \in Seq(TypedLine)
    BY <1>13 DEF ReadLine
  <2>2. watcher' \in Line
    BY <1>13, <2>1 DEF ReadLine, TypedLine, Line
  <2> QED BY <1>13, <2>1, <2>2 DEF ReadLine, userVars, questionVars, overwriteVars
<1>3. CASE Interrupt \/ IntervalPasses \/ ReportProgressOrExit \/ EnumerationEnds
  BY <1>0, <1>12, <1>3 DEF Interrupt, IntervalPasses, ReportProgressOrExit, EnumerationEnds,
     userVars, questionVars, overwriteVars
<1>4. CASE TakeAsMessage \/ SendCancel \/ HandleRequest
  BY <1>1, <1>4 DEF TakeAsMessage, SendCancel, HandleRequest, Line, userVars, questionVars, overwriteVars
<1>5. ASSUME NEW a \in Everyone, TakeAsAnswer(a) PROVE ConsoleTypeOK'
  BY <1>1, <1>5 DEF TakeAsAnswer, userVars, overwriteVars
<1>6. ASSUME NEW a \in Everyone, OfferToWait(a) PROVE ConsoleTypeOK'
  BY <1>6 DEF OfferToWait, userVars, overwriteVars
<1>7. ASSUME NEW a \in Askers, ShouldOverwrite(a) PROVE ConsoleTypeOK'
  <2>1. /\ msgQueue' \in Seq(Mail)
        /\ prompt' \in [Everyone -> {"no", "queued", "offering", "waiting"}]
    BY <1>0, <1>12, <1>7 DEF ShouldOverwrite, Ask
  <2>2. saved[TypeOf[a]] # "ask" => saved[TypeOf[a]] \in {"overwrite", "skip"}
    BY <1>0
  <2>3. decided' \in [Askers -> {"no", "overwrite", "skip"}]
    BY <2>2, <1>7 DEF ShouldOverwrite
  <2> QED BY <2>1, <2>3, <1>7 DEF ShouldOverwrite, jobLoopVars, userVars
<1>8. ASSUME NEW a \in Askers, ConfirmOverwrite(a) PROVE ConsoleTypeOK'
  BY <1>0, <1>8 DEF ConfirmOverwrite, Forget, Texts, userVars
<1>9. CASE Show
  <2>1. Head(msgQueue) \in Mail /\ Tail(msgQueue) \in Seq(Mail)
    BY <1>9 DEF Show
  <2>2. Late(inputQueue) \in Seq(Line)
    BY LateLines
  <2>3. Late(<<watcher>>)[1] \in Line
    <3>1. <<watcher>> \in Seq(Line) /\ Len(<<watcher>>) = 1
      OBVIOUS
    <3>2. Late(<<watcher>>) \in Seq(Line) /\ Len(Late(<<watcher>>)) = 1
      BY <3>1, LateLines
    <3> QED BY <3>2
  <2>4. watcher' \in Line /\ inputQueue' \in Seq(Line) /\ msgQueue' \in Seq(Mail)
    BY <1>9, <2>1, <2>2, <2>3 DEF Show
  <2>5. shown' \in Everyone \cup {"none"}
    BY <1>9, <2>1 DEF Show, Mail
  <2> QED BY <1>9, <2>4, <2>5 DEF Show, userVars, questionVars, overwriteVars
<1>10. CASE GetInputAfterTime
  <2>1. Head(inputQueue) \in Line /\ Tail(inputQueue) \in Seq(Line)
    BY <1>10 DEF GetInputAfterTime
  <2>2. Head(inputQueue).text \in Texts
    BY <2>1 DEF Line
  <2> QED BY <1>10, <2>1, <2>2 DEF GetInputAfterTime, userVars, overwriteVars
<1>11. CASE LoopCancels \/ LoopIsAnswered
  <2>1. msgQueue' \in Seq(Mail)
    BY <1>0, <1>12, <1>11 DEF LoopCancels, LoopIsAnswered, Ask
  <2>2. prompt' \in [Everyone -> {"no", "queued", "offering", "waiting"}]
    BY <1>11 DEF LoopCancels, LoopIsAnswered, Ask, Forget
  <2>3. reply' \in [Everyone -> Texts]
    BY <1>11 DEF LoopCancels, LoopIsAnswered, Forget, Texts
  <2> QED BY <1>11, <2>1, <2>2, <2>3 DEF LoopCancels, LoopIsAnswered, userVars, overwriteVars
<1> QED BY <1>2, <1>13, <1>3, <1>4, <1>5, <1>6, <1>7, <1>8, <1>9, <1>10, <1>11
        DEF ConsoleNext, WatcherStep, OtherStep

LEMMA OneAsksStep == ConsoleInv /\ ConsoleNext => (OneAsks /\ ForAllIsForAll)'
<1> SUFFICES ASSUME ConsoleInv, ConsoleNext PROVE (OneAsks /\ ForAllIsForAll)'
  OBVIOUS
<1> USE DEF ConsoleInv, OneAsks, ForAllIsForAll
<1>0. Askers \subseteq Everyone /\ Loop \notin Askers /\ "free" \notin Askers
      /\ \A a \in Askers : TypeOf[a] \in Types
  BY ConsoleAssumption DEF Everyone, Types
<1>1. prompt \in [Everyone -> {"no", "queued", "offering", "waiting"}]
      /\ saved \in [Types -> {"ask", "overwrite", "skip"}]
  BY DEF ConsoleTypeOK
<1>2. CASE UNCHANGED <<prompt, lock, saved>>
  BY <1>2
<1>3. ASSUME NEW a \in Everyone, TakeAsAnswer(a) \/ OfferToWait(a)
      PROVE  (OneAsks /\ ForAllIsForAll)'
  BY <1>0, <1>1, <1>3 DEF TakeAsAnswer, OfferToWait, overwriteVars
<1>4. ASSUME NEW a \in Askers, ShouldOverwrite(a)
      PROVE  (OneAsks /\ ForAllIsForAll)'
  <2>1. \A b \in Askers : prompt[b] = "no"
    BY <1>0, <1>4 DEF ShouldOverwrite
  <2>2. saved' = saved /\ \A b \in Askers : b # a => prompt'[b] = "no"
    BY <1>0, <1>1, <1>4, <2>1 DEF ShouldOverwrite, Ask
  <2>3. prompt'[a] # "no" => lock' = a /\ saved[TypeOf[a]] = "ask"
    BY <1>4, <2>1 DEF ShouldOverwrite
  <2> QED BY <2>2, <2>3
<1>5. ASSUME NEW a \in Askers, ConfirmOverwrite(a)
      PROVE  (OneAsks /\ ForAllIsForAll)'
  <2>1. \A b \in Askers : b # a => prompt[b] = "no"
    BY <1>5 DEF ConfirmOverwrite, Answered
  <2>2. \A b \in Askers : prompt'[b] = "no"
    BY <1>0, <1>1, <1>5, <2>1 DEF ConfirmOverwrite, Forget
  <2> QED BY <2>2
<1>6. CASE LoopCancels \/ LoopIsAnswered
  BY <1>0, <1>1, <1>6 DEF LoopCancels, LoopIsAnswered, Ask, Forget, overwriteVars
<1>7. ASSUME NEW text, Type(text) PROVE UNCHANGED <<prompt, lock, saved>>
  BY <1>7 DEF Type, questionVars, overwriteVars
<1>8. CASE UserAnswers \/ UserTypes \/ ReadLine
  BY <1>2, <1>7, <1>8 DEF UserAnswers, UserTypes, ReadLine, questionVars, overwriteVars
<1>9. CASE Interrupt \/ IntervalPasses \/ TakeAsMessage \/ SendCancel \/ HandleRequest
  BY <1>2, <1>9 DEF Interrupt, IntervalPasses, TakeAsMessage, SendCancel, HandleRequest,
     questionVars, overwriteVars
<1>10. CASE Show \/ GetInputAfterTime \/ ReportProgressOrExit \/ EnumerationEnds
  BY <1>2, <1>10 DEF Show, GetInputAfterTime, ReportProgressOrExit, EnumerationEnds,
     questionVars, overwriteVars
<1> QED BY <1>3, <1>4, <1>5, <1>6, <1>8, <1>9, <1>10 DEF ConsoleNext, WatcherStep, OtherStep

LEMMA TimelyStep == ConsoleInv /\ ConsoleNext => LinesAreTimely'
<1> SUFFICES ASSUME ConsoleInv, ConsoleNext PROVE LinesAreTimely'
  OBVIOUS
<1> USE DEF ConsoleInv, LinesAreTimely, Timely
<1>1. watcher \in Line /\ inputQueue \in Seq(Line)
  BY DEF ConsoleTypeOK
<1>2. CASE UNCHANGED <<watcher, inputQueue, shown>>
  BY <1>2
<1>3. ASSUME NEW text, Type(text) PROVE LinesAreTimely'
  BY <1>2, <1>3 DEF Type
<1>12. CASE ReadLine
  <2>1. watcher'.at = shown /\ inputQueue' = inputQueue /\ shown' = shown
    BY <1>12 DEF ReadLine
  <2> QED BY <2>1
<1>4. CASE UserAnswers \/ UserTypes \/ ReadLine
  BY <1>3, <1>4, <1>12 DEF UserAnswers, UserTypes
<1>5. CASE TakeAsMessage \/ SendCancel \/ HandleRequest
  <2>1. NoLine.pc = "read" /\ \A pc : [watcher EXCEPT !.pc = pc].pc = pc
    BY <1>1 DEF NoLine, Line
  <2>2. watcher'.pc # "line"
    BY <1>5, <2>1 DEF TakeAsMessage, SendCancel, HandleRequest
  <2>3. UNCHANGED <<inputQueue, shown>>
    BY <1>5 DEF TakeAsMessage, SendCancel, HandleRequest
  <2> QED BY <2>2, <2>3
<1>6. ASSUME NEW a \in Everyone, TakeAsAnswer(a) PROVE LinesAreTimely'
  <2>1. watcher'.pc # "line" /\ shown' = shown
    BY <1>6 DEF TakeAsAnswer, NoLine
  <2>2. inputQueue' = Append(inputQueue, watcher) /\ watcher.pc = "line"
    BY <1>6 DEF TakeAsAnswer
  <2>3. Len(inputQueue') = Len(inputQueue) + 1 /\ Len(inputQueue) \in Nat
    BY <1>1, <2>2
  <2>4. \A i \in 1..Len(inputQueue') :
           inputQueue'[i] = IF i = Len(inputQueue) + 1 THEN watcher ELSE inputQueue[i]
    BY <1>1, <2>2, <2>3
  <2> QED BY <2>1, <2>2, <2>3, <2>4
<1>7. CASE Show
  <2>1. CASE Head(msgQueue).type = "prompt"
    <3>1. inputQueue' = Late(inputQueue) /\ watcher' = Late(<<watcher>>)[1]
      BY <1>7, <2>1 DEF Show
    <3>2. <<watcher>> \in Seq(Line) /\ Len(<<watcher>>) = 1
      BY <1>1
    <3>3. watcher'.late
      <4>1. \A i \in 1..1 : Late(<<watcher>>)[i].late
        BY <3>2, LateLines
      <4> QED BY <3>1, <4>1
    <3>4. \A i \in 1..Len(inputQueue') : inputQueue'[i].late
      BY <1>1, <3>1, LateLines
    <3> QED BY <3>3, <3>4
  <2>2. CASE Head(msgQueue).type # "prompt"
    BY <1>7, <2>2 DEF Show
  <2> QED BY <2>1, <2>2
<1>8. CASE GetInputAfterTime
  <2>1. inputQueue # <<>> /\ inputQueue' = Tail(inputQueue) /\ watcher' = watcher
        /\ shown' \in {shown, "none"}
    BY <1>8 DEF GetInputAfterTime
  <2>2. \A i \in 1..Len(inputQueue') : i + 1 \in 1..Len(inputQueue)
                                      /\ inputQueue'[i] = inputQueue[i + 1]
    BY <1>1, <2>1
  <2> QED BY <2>1, <2>2
<1>9. CASE Interrupt \/ IntervalPasses \/ ReportProgressOrExit \/ EnumerationEnds
           \/ LoopCancels \/ LoopIsAnswered
  BY <1>2, <1>9 DEF Interrupt, IntervalPasses, ReportProgressOrExit, EnumerationEnds,
     LoopCancels, LoopIsAnswered
<1>10. ASSUME NEW a \in Everyone, OfferToWait(a) PROVE LinesAreTimely'
  BY <1>2, <1>10 DEF OfferToWait
<1>11. ASSUME NEW a \in Askers, ShouldOverwrite(a) \/ ConfirmOverwrite(a) PROVE LinesAreTimely'
  BY <1>2, <1>11 DEF ShouldOverwrite, ConfirmOverwrite
<1> QED BY <1>4, <1>5, <1>6, <1>7, <1>8, <1>9, <1>10, <1>11
        DEF ConsoleNext, WatcherStep, OtherStep

LEMMA ManneredForGood == ConsoleNext => polite' = polite
<1> SUFFICES ASSUME ConsoleNext PROVE polite' = polite
  OBVIOUS
<1>1. CASE UserAnswers \/ UserTypes \/ Interrupt \/ IntervalPasses
  BY <1>1 DEF UserAnswers, UserTypes, Type, Interrupt, IntervalPasses, userVars
<1>2. ASSUME NEW a \in Everyone, TakeAsAnswer(a) \/ OfferToWait(a) PROVE polite' = polite
  BY <1>2 DEF TakeAsAnswer, OfferToWait, userVars
<1>3. CASE ReadLine \/ TakeAsMessage \/ SendCancel \/ HandleRequest
  BY <1>3 DEF ReadLine, TakeAsMessage, SendCancel, HandleRequest, userVars
<1>4. ASSUME NEW a \in Askers, ShouldOverwrite(a) \/ ConfirmOverwrite(a) PROVE polite' = polite
  BY <1>4 DEF ShouldOverwrite, ConfirmOverwrite, userVars
<1>5. CASE Show \/ GetInputAfterTime \/ LoopCancels \/ LoopIsAnswered
           \/ ReportProgressOrExit \/ EnumerationEnds
  BY <1>5 DEF Show, GetInputAfterTime, LoopCancels, LoopIsAnswered, ReportProgressOrExit,
     EnumerationEnds, userVars
<1> QED BY <1>1, <1>2, <1>3, <1>4, <1>5 DEF ConsoleNext, WatcherStep, OtherStep

LEMMA OneLineStep == ConsoleInv /\ ConsoleNext => OneLine'
<1> SUFFICES ASSUME ConsoleInv, ConsoleNext, polite PROVE OneLine'
  BY ManneredForGood DEF OneLine
<1> USE DEF ConsoleInv, OneLine
<1>1. watcher \in Line /\ inputQueue \in Seq(Line) /\ typed \in Seq(TypedLine)
  BY DEF ConsoleTypeOK
<1>2. CASE UNCHANGED <<polite, typed, watcher, inputQueue, shown>>
  BY <1>2
<1>3. CASE UserAnswers
  <2>1. PICK text : typed' = Append(<<>>, [text |-> text, to |-> shown])
    BY <1>3 DEF UserAnswers, Type
  <2>2. Len(typed') = 1 /\ typed'[1].to = shown
    BY <2>1
  <2>3. shown # "none" /\ watcher.pc = "read" /\ inputQueue = <<>>
        /\ UNCHANGED <<watcher, inputQueue, shown>>
    BY <1>3 DEF UserAnswers, Type
  <2> QED BY <2>2, <2>3
<1>4. ~UserTypes
  BY DEF UserTypes
<1>5. CASE ReadLine
  <2>1. typed # <<>> /\ Len(typed) = 1 /\ inputQueue = <<>> /\ shown # "none" /\ typed[1].to = shown
    BY <1>5 DEF ReadLine
  <2>2. typed' = <<>> /\ Head(typed) = typed[1]
    BY <1>1, <1>5, <2>1 DEF ReadLine
  <2>3. watcher'.to = shown /\ inputQueue' = inputQueue /\ shown' = shown
    BY <1>5, <2>1, <2>2 DEF ReadLine
  <2> QED BY <2>1, <2>2, <2>3
<1>6. CASE TakeAsMessage \/ SendCancel \/ HandleRequest
  <2>1. NoLine.pc = "read" /\ \A pc : [watcher EXCEPT !.pc = pc].pc = pc
    BY <1>1 DEF NoLine, Line
  <2>2. watcher'.pc # "line" /\ UNCHANGED <<typed, inputQueue, shown>>
    BY <1>6, <2>1 DEF TakeAsMessage, SendCancel, HandleRequest, userVars
  <2> QED BY <2>2
<1>7. ASSUME NEW a \in Everyone, TakeAsAnswer(a) PROVE OneLine'
  <2>1. watcher.pc = "line" /\ watcher'.pc # "line" /\ UNCHANGED <<typed, shown>>
    BY <1>7 DEF TakeAsAnswer, NoLine, userVars
  <2>2. typed = <<>> /\ inputQueue = <<>> /\ shown # "none" /\ watcher.to = shown
    BY <2>1
  <2>3. inputQueue' = Append(<<>>, watcher)
    BY <1>7, <2>2 DEF TakeAsAnswer
  <2>4. Len(inputQueue') = 1 /\ inputQueue'[1] = watcher
    BY <2>3
  <2> QED BY <2>1, <2>2, <2>4
<1>8. CASE Show
  <2>1. shown = "none" /\ typed' = typed
    BY <1>8 DEF Show, userVars
  <2>2. typed = <<>> /\ inputQueue = <<>> /\ watcher.pc # "line"
    BY <2>1
  <2>3. CASE Head(msgQueue).type = "prompt"
    <3>1. inputQueue' = Late(inputQueue) /\ watcher' = Late(<<watcher>>)[1]
      BY <1>8, <2>3 DEF Show
    <3>2. Late(inputQueue) \in Seq(Line) /\ Len(Late(inputQueue)) = 0
      BY <1>1, <2>2, LateLines
    <3>3. inputQueue' = <<>>
      BY <3>1, <3>2, EmptySeq
    <3>4. <<watcher>> \in Seq(Line) /\ Len(<<watcher>>) = 1 /\ <<watcher>>[1] = watcher
      BY <1>1
    <3>5. \A i \in 1..1 : Late(<<watcher>>)[i].pc = <<watcher>>[i].pc
      BY <3>4, LateLines
    <3>6. watcher'.pc = watcher.pc
      BY <3>1, <3>4, <3>5
    <3> QED BY <2>1, <2>2, <3>3, <3>6
  <2>4. CASE Head(msgQueue).type # "prompt"
    BY <1>8, <2>1, <2>2, <2>4 DEF Show
  <2> QED BY <2>3, <2>4
<1>9. CASE GetInputAfterTime
  <2>1. inputQueue # <<>> /\ inputQueue' = Tail(inputQueue) /\ UNCHANGED <<typed, watcher>>
    BY <1>9 DEF GetInputAfterTime, userVars
  <2>2. Len(inputQueue) = 1 /\ typed = <<>> /\ watcher.pc # "line"
    BY <2>1
  <2>3. inputQueue' = <<>>
    BY <1>1, <2>1, <2>2
  <2> QED BY <2>1, <2>2, <2>3
<1>10. CASE Interrupt \/ IntervalPasses \/ ReportProgressOrExit \/ EnumerationEnds
           \/ LoopCancels \/ LoopIsAnswered
  BY <1>2, <1>10 DEF Interrupt, IntervalPasses, ReportProgressOrExit, EnumerationEnds,
     LoopCancels, LoopIsAnswered, userVars
<1>11. ASSUME NEW a \in Everyone, OfferToWait(a) PROVE OneLine'
  BY <1>2, <1>11 DEF OfferToWait, userVars
<1>12. ASSUME NEW a \in Askers, ShouldOverwrite(a) \/ ConfirmOverwrite(a) PROVE OneLine'
  BY <1>2, <1>12 DEF ShouldOverwrite, ConfirmOverwrite, userVars
<1> QED BY <1>3, <1>4, <1>5, <1>6, <1>7, <1>8, <1>9, <1>10, <1>11, <1>12
        DEF ConsoleNext, WatcherStep, OtherStep

LEMMA ConsoleInvStep == ConsoleInv /\ [ConsoleNext]_consoleVars => ConsoleInv'
<1> SUFFICES ASSUME ConsoleInv, [ConsoleNext]_consoleVars PROVE ConsoleInv'
  OBVIOUS
<1>1. CASE ConsoleNext
  BY <1>1, ConsoleTypeStep, OneAsksStep, TimelyStep, OneLineStep DEF ConsoleInv
<1>2. CASE UNCHANGED consoleVars
  BY <1>2 DEF consoleVars, userVars, questionVars, overwriteVars, jobLoopVars, ConsoleInv,
     ConsoleTypeOK, OneAsks, ForAllIsForAll, LinesAreTimely, Timely, OneLine
<1> QED BY <1>1, <1>2

LEMMA FirstIsTimely ==
  ASSUME ConsoleInv, shown # "none", inputQueue # << >>, ~Head(inputQueue).late
  PROVE  Head(inputQueue).at = shown /\ (polite => Head(inputQueue).to = shown)
<1>1. inputQueue \in Seq(Line)
  BY DEF ConsoleInv, ConsoleTypeOK
<1>2. Head(inputQueue) = inputQueue[1]
  BY <1>1
<1>3. 1 \in 1..Len(inputQueue)
  <2>1. Len(inputQueue) \in Nat \ {0}
    BY <1>1, EmptySeq
  <2> QED BY <2>1
<1> QED BY <1>2, <1>3 DEF ConsoleInv, LinesAreTimely, Timely, OneLine

LEMMA ReplyStep ==
  ASSUME ConsoleInv, ConsoleNext, NEW a \in Everyone, reply[a] = "", reply'[a] # ""
  PROVE  Head(inputQueue).at = a /\ (polite => Head(inputQueue).to = a)
<1> USE DEF ConsoleInv
<1>1. reply \in [Everyone -> Texts] /\ inputQueue \in Seq(Line)
  BY DEF ConsoleTypeOK
<1>2. reply' # reply
  OBVIOUS
<1>3. ASSUME NEW b \in Everyone, Forget(b) PROVE FALSE
  BY <1>1, <1>3 DEF Forget
<1>4. ASSUME NEW text, Type(text) PROVE FALSE
  BY <1>2, <1>4 DEF Type, questionVars
<1>5. ~(UserAnswers \/ UserTypes \/ ReadLine)
  BY <1>2, <1>4 DEF UserAnswers, UserTypes, ReadLine, questionVars
<1>6. ~(Interrupt \/ IntervalPasses \/ TakeAsMessage \/ SendCancel \/ HandleRequest)
  BY <1>2 DEF Interrupt, IntervalPasses, TakeAsMessage, SendCancel, HandleRequest, questionVars
<1>7. ~(Show \/ ReportProgressOrExit \/ EnumerationEnds \/ LoopCancels)
  BY <1>2 DEF Show, ReportProgressOrExit, EnumerationEnds, LoopCancels, questionVars
<1>8. ~LoopIsAnswered /\ \A b \in Askers : ~ConfirmOverwrite(b)
  BY <1>3 DEF LoopIsAnswered, ConfirmOverwrite, Everyone
<1>9. /\ \A b \in Everyone : ~OfferToWait(b) /\ ~TakeAsAnswer(b)
      /\ \A b \in Askers : ~ShouldOverwrite(b)
  BY <1>2 DEF OfferToWait, TakeAsAnswer, ShouldOverwrite
<1>10. GetInputAfterTime
  BY <1>5, <1>6, <1>7, <1>8, <1>9 DEF ConsoleNext, WatcherStep, OtherStep
<1>11. shown # "none" /\ inputQueue # <<>> /\ ~Head(inputQueue).late /\ shown = a
  BY <1>1, <1>2, <1>10 DEF GetInputAfterTime
<1> QED BY <1>11, FirstIsTimely

(***************************************************************************)
(* Whoever asks and whatever is typed, an answer was read while its        *)
(* question was shown, and typed then if the user is polite; and no        *)
(* question is about a type the user has answered for: getInputAfterTime   *)
(* drops what came before, ShouldOverwrite looks and asks under its lock.  *)
(***************************************************************************)
THEOREM AnswersFit == ConsoleSpec => AnswersFitTheirQuestions
<1>1. ConsoleInv => ForAllIsForAll
  BY DEF ConsoleInv
<1>2. ConsoleInv /\ [ConsoleNext]_consoleVars =>
        [\A a \in Everyone : reply[a] = "" /\ reply'[a] # "" =>
             /\ Head(inputQueue).at = a
             /\ polite => Head(inputQueue).to = a]_consoleVars
  BY ReplyStep
<1> QED BY <1>1, <1>2, ConsoleInitInv, ConsoleInvStep, PTL DEF ConsoleSpec, AnswersFitTheirQuestions
=============================================================================
