--------------------------- MODULE FolderCreation ---------------------------
(***************************************************************************)
(* ste/folderCreationTracker.go with its users: the folders of a job are   *)
(* created by whichever transfer needs them first, and the transfer of a   *)
(* folder decides by the --overwrite option whether to set its properties: *)
(* without overwriting, only on a folder this job has created.  That fact  *)
(* is kept in the plan file, as the status FolderCreated of the folder's   *)
(* transfer, and in memory while that transfer has not been scheduled.     *)
(*                                                                         *)
(* The tracker keeps the plan of the part that made it, the first one: the *)
(* index of a folder of a later part means another transfer to it.         *)
(*                                                                         *)
(* One actor per transfer and the goroutine that schedules them in order.  *)
(* A process that dies loses everything but the plan and the destination,  *)
(* and the job is resumed (at most MaxCrashes times).                      *)
(***************************************************************************)
EXTENDS Integers, Sequences, SequencesExt

CONSTANTS Order,     \* the transfers, in the order of their parts and indices
          IsFolder,  \* IsFolder[t]: whether t is the transfer of a folder
          PathOf,    \* PathOf[t]: the folders from the top down to t's own (or its parent)
          PartOf, IndexOf, \* the place of each, indices counted from one
          Overwrite, \* "true", "false" (or ifSourceNewer) or "prompt"
          MaxCrashes

Transfers == ToSet(Order)
Folders == UNION {ToSet(PathOf[t]) : t \in Transfers}

FolderOf(t) == Last(PathOf[t])

\* Every transfer is scheduled once, every folder has one transfer at most, an index
\* means one transfer in its part, and a later part comes only after full ones.
ASSUME CreationAssumption ==
    /\ Order \in Seq(Transfers) /\ IsInjective(Order)
    /\ \A t \in Transfers : /\ IsFolder[t] \in BOOLEAN
                            /\ PathOf[t] \in Seq(Folders) /\ PathOf[t] # << >>
                            /\ IsFolder[t] => IndexOf[t] \in Nat \ {0}
    /\ \A s, t \in Transfers : IsFolder[s] /\ IsFolder[t] /\ FolderOf(s) = FolderOf(t) => s = t
    /\ \A s, t \in Transfers : PartOf[s] = PartOf[t] /\ IndexOf[s] = IndexOf[t] => s = t
    /\ \A t \in Transfers : \E p \in Transfers : PartOf[p] = 0 /\ IndexOf[p] = IndexOf[t]
    /\ Overwrite \in {"true", "false", "prompt"} /\ MaxCrashes \in Nat

VARIABLES store,        \* what the destination is: "files" (or a disk), "adls", "adlsWithSAS"
          remote,       \* the folders at the destination
          before,       \* those that were there before the job
          plan,         \* the status of each transfer in the plan files
          contents,     \* the tracker: folder -> index of its transfer, 0 when not registered
          unregistered, \* unregisteredButCreated
          scheduled,    \* how many transfers ScheduleTransfers has passed
          act,          \* where each transfer stands and the folders it has yet to create
          noted, gaveUp,\* history: creations recorded; folders whose transfer failed or skipped once
          lost,         \* history: creations that were in memory only when the process died
          propsSet,     \* the folders whose properties were set
          crashes

creationVars == <<store, remote, before, plan, contents, unregistered, scheduled, act,
                  noted, gaveUp, lost, propsSet, crashes>>

CreationInit ==
    /\ store \in {"files", "adls", "adlsWithSAS"}
    /\ before \in SUBSET Folders
    /\ \A t \in Transfers : \A i, j \in DOMAIN PathOf[t] : \* a folder's parents exist when it does
           i < j /\ PathOf[t][j] \in before => PathOf[t][i] \in before
    /\ remote = before
    /\ plan = [t \in Transfers |-> "started"]
    /\ contents = [d \in Folders |-> 0]
    /\ unregistered = {}
    /\ scheduled = 0
    /\ act = [t \in Transfers |-> [pc |-> "waiting", todo |-> << >>]]
    /\ noted = {} /\ gaveUp = {} /\ lost = {} /\ propsSet = {} /\ crashes = 0

Goes(t, pc, todo) == act' = [act EXCEPT ![t] = [pc |-> pc, todo |-> todo]]

\* The transfer an index means to the tracker is that of the first part.
Slot(index) == {t \in Transfers : PartOf[t] = 0 /\ IndexOf[t] = index}

(* SetTransferStatus(FolderCreated, false): a failed status stays.         *)
Failing == {"failed", "skipped"}
MarkCreated(statuses, index) ==
    [t \in Transfers |-> IF t \in Slot(index) /\ statuses[t] \notin Failing
                         THEN "created" ELSE statuses[t]]

(***************************************************************************)
(* ScheduleTransfers: a success is not scheduled again, a failure starts   *)
(* again, and a folder is registered (RegisterPropertiesTransfer).         *)
(***************************************************************************)
\* Mutant: what was created before the folder is registered is forgotten.
ScheduleAndForget ==
    /\ scheduled < Len(Order)
    /\ scheduled' = scheduled + 1
    /\ LET t == Order[scheduled + 1]
       IN  IF plan[t] = "success"
           THEN Goes(t, "done", << >>) /\ UNCHANGED <<plan, contents>>
           ELSE /\ Goes(t, "ready", << >>)
                /\ contents' = IF IsFolder[t]
                               THEN [contents EXCEPT ![FolderOf(t)] = IndexOf[t]] ELSE contents
                /\ plan' = [plan EXCEPT ![t] = IF @ = "failed" THEN "started" ELSE @]
    /\ UNCHANGED <<store, remote, before, unregistered, noted, gaveUp, lost, propsSet, crashes>>

Schedule ==
    /\ scheduled < Len(Order)
    /\ scheduled' = scheduled + 1
    /\ LET t == Order[scheduled + 1]
           d == FolderOf(t)
           started == [plan EXCEPT ![t] = IF @ = "failed" THEN "started" ELSE @]
       IN  IF plan[t] = "success"
           THEN Goes(t, "done", << >>) /\ UNCHANGED <<plan, contents, unregistered>>
           ELSE /\ Goes(t, "ready", << >>)
                /\ plan' = IF IsFolder[t] /\ d \in unregistered
                           THEN MarkCreated(started, IndexOf[t]) ELSE started
                /\ IF IsFolder[t]
                   THEN /\ contents' = [contents EXCEPT ![d] = IndexOf[t]]
                        /\ unregistered' = unregistered \ {d}
                   ELSE UNCHANGED <<contents, unregistered>>
    /\ UNCHANGED <<store, remote, before, noted, gaveUp, lost, propsSet, crashes>>

(* The first look at the destination: nothing to create if it is there.    *)
(* ADLS is asked for the folder alone, and makes its parents without a     *)
(* word; elsewhere the folders of the path are created one by one.         *)
LookForFolder(t) ==
    /\ act[t].pc = "ready"
    /\ IF FolderOf(t) \in remote THEN Goes(t, "ensured", << >>)
       ELSE Goes(t, "creating", IF store = "files" THEN PathOf[t] ELSE <<FolderOf(t)>>)
    /\ UNCHANGED <<store, remote, before, plan, contents, unregistered, scheduled,
                   noted, gaveUp, lost, propsSet, crashes>>

(* One folder of the path: created here, or by another in the meantime.    *)
CreateFolder(t) ==
    /\ act[t].pc = "creating"
    /\ IF act[t].todo = << >> THEN Goes(t, "ensured", << >>) /\ UNCHANGED remote
       ELSE /\ remote' = remote \cup (IF store = "files" THEN {Head(act[t].todo)}
                                      ELSE ToSet(PathOf[t]))
            /\ IF Head(act[t].todo) \in remote
               THEN Goes(t, "creating", Tail(act[t].todo))
               ELSE Goes(t, "recording", act[t].todo)
    /\ UNCHANGED <<store, before, plan, contents, unregistered, scheduled,
                   noted, gaveUp, lost, propsSet, crashes>>

(* The sender for ADLS records the URL with its SAS: a name under which    *)
(* nobody is registered or will be.                                        *)
RecordCreation(t) ==
    /\ act[t].pc = "recording"
    /\ LET d == Head(act[t].todo)
       IN  /\ CASE store = "adlsWithSAS" -> UNCHANGED <<plan, unregistered>>
                [] store # "adlsWithSAS" /\ contents[d] # 0 ->
                      plan' = MarkCreated(plan, contents[d]) /\ UNCHANGED unregistered
                [] store # "adlsWithSAS" /\ contents[d] = 0 ->
                      unregistered' = unregistered \cup {d} /\ UNCHANGED plan
           /\ noted' = noted \cup {d}
    /\ Goes(t, "creating", Tail(act[t].todo))
    /\ UNCHANGED <<store, remote, before, contents, scheduled, gaveUp, lost, propsSet, crashes>>

(* A file is transferred once its folder is there.                         *)
FinishFile(t) ==
    /\ act[t].pc = "ensured" /\ ~IsFolder[t]
    /\ plan' = [plan EXCEPT ![t] = "success"]
    /\ Goes(t, "done", << >>)
    /\ UNCHANGED <<store, remote, before, contents, unregistered, scheduled,
                   noted, gaveUp, lost, propsSet, crashes>>

(* What the tracker reads: the status of the transfer in its own plan.     *)
Created(d) == \E s \in Slot(contents[d]) : plan[s] = "created"

ShouldSetProperties(d, answer) ==
    CASE Overwrite = "true" -> TRUE
      [] Overwrite = "false" -> Created(d)
      [] Overwrite = "prompt" -> Created(d) \/ answer

(* The transfer of a folder: decide, then set the properties or skip.      *)
DecideFolder(t) ==
    /\ act[t].pc = "ensured" /\ IsFolder[t]
    /\ \E answer \in BOOLEAN :
          Goes(t, IF ShouldSetProperties(FolderOf(t), answer) THEN "set" ELSE "skip", << >>)
    /\ UNCHANGED <<store, remote, before, plan, contents, unregistered, scheduled,
                   noted, gaveUp, lost, propsSet, crashes>>

(* SetFolderProperties and the status; it may fail and the job be resumed. *)
FinishFolder(t) ==
    /\ act[t].pc \in {"set", "skip"}
    /\ \/ /\ act[t].pc = "set"
          /\ plan' = [plan EXCEPT ![t] = IF @ \in Failing THEN @ ELSE "success"]
          /\ propsSet' = propsSet \cup {FolderOf(t)}
          /\ UNCHANGED gaveUp
       \/ /\ act[t].pc = "set"
          /\ plan' = [plan EXCEPT ![t] = IF @ \in Failing THEN @ ELSE "failed"]
          /\ gaveUp' = gaveUp \cup {FolderOf(t)}
          /\ UNCHANGED propsSet
       \/ /\ act[t].pc = "skip"
          /\ plan' = [plan EXCEPT ![t] = IF @ \in Failing THEN @ ELSE "skipped"]
          /\ gaveUp' = gaveUp \cup {FolderOf(t)}
          /\ UNCHANGED propsSet
    /\ Goes(t, "stop", << >>)
    /\ UNCHANGED <<store, remote, before, contents, unregistered, scheduled, noted, lost, crashes>>

StopTracking(t) ==
    /\ act[t].pc = "stop"
    /\ contents' = [contents EXCEPT ![FolderOf(t)] = 0]
    /\ Goes(t, "done", << >>)
    /\ UNCHANGED <<store, remote, before, plan, unregistered, scheduled,
                   noted, gaveUp, lost, propsSet, crashes>>

(* The process dies and the job is resumed: memory goes, the plan stays.   *)
CrashAndResume ==
    /\ crashes < MaxCrashes
    /\ crashes' = crashes + 1
    /\ contents' = [d \in Folders |-> 0]
    /\ unregistered' = {}
    /\ lost' = lost \cup unregistered
    /\ scheduled' = 0
    /\ act' = [t \in Transfers |-> [pc |-> "waiting", todo |-> << >>]]
    /\ UNCHANGED <<store, remote, before, plan, noted, gaveUp, propsSet>>

CreationNext ==
    \/ Schedule \/ CrashAndResume
    \/ \E t \in Transfers :
          \/ LookForFolder(t) \/ CreateFolder(t) \/ RecordCreation(t) \/ FinishFile(t)
          \/ DecideFolder(t) \/ FinishFolder(t) \/ StopTracking(t)

CreationSpec == CreationInit /\ [][CreationNext]_creationVars

TrackerNeverPanics ==
    \A t \in Transfers :
        act[t].pc \in {"stop", "set", "skip"} \/ (act[t].pc = "ensured" /\ IsFolder[t])
            => contents[FolderOf(t)] # 0

(***************************************************************************)
(* common/folderCreationTracker_interface.go:3-6: without overwriting, "we *)
(* only set folder properties on folders which were created by the current *)
(* job".  Not so when two folders have one index in two parts.             *)
(***************************************************************************)
OldFoldersKeepProperties ==
    Overwrite = "false" => propsSet \cap before = {}

\* The transfer of d has the index of that of another folder, which was recorded.
SharesSlot(d) ==
    \E s, t \in Transfers :
        /\ IsFolder[s] /\ IsFolder[t] /\ s # t
        /\ FolderOf(t) = d /\ IndexOf[s] = IndexOf[t] /\ FolderOf(s) \in noted

OnlySharersLoseTheirs ==
    Overwrite = "false" => \A d \in propsSet \cap before : SharesSlot(d)

\* The status that stands for t in the plan is that of a transfer that has ended, or did once.
SlotIsTaken(t) ==
    \E p \in Slot(IndexOf[t]) :
        (p # t /\ plan[p] = "success") \/ (IsFolder[p] /\ FolderOf(p) \in gaveUp)

(***************************************************************************)
(* Neither panic of the tracker is reached ("this should not happen,       *)
(* ever"): a folder is registered whenever its transfer asks about it or   *)
(* stops tracking it, across crashes too.  A folder that was there before  *)
(* the job keeps its properties unless the user allows to overwrite them,  *)
(* or its index is that of another folder in another part, which the job   *)
(* created: the plan of the first part holds one status for both.  And a   *)
(* creation that was recorded is honoured: the folder's transfer does not  *)
(* skip it as one that already existed, also when the record was made      *)
(* before the transfer was registered, or the job was resumed in between.  *)
(* The exceptions are the code's: a record in memory only when the process *)
(* dies (folderCreationTracker.go:92), one under a URL with its SAS, and   *)
(* one whose status in the plan is that of an ended transfer.              *)
(***************************************************************************)
CreationsAreHonoured ==
    /\ [](TrackerNeverPanics /\ OnlySharersLoseTheirs)
    /\ [][\A t \in Transfers :
             act[t].pc = "ensured" /\ act'[t].pc = "skip"
                 => \/ FolderOf(t) \notin noted \ lost
                    \/ store = "adlsWithSAS" \/ SlotIsTaken(t)]_creationVars

=============================================================================
