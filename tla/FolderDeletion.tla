--------------------------- MODULE FolderDeletion ---------------------------
(***************************************************************************)
(* common/folderDeletionManager.go as DeleteFile (ste/xfer-deleteFile.go)  *)
(* uses it: files and folders of a tree are deleted by transfers that run  *)
(* in any order, and a folder, which the service deletes only when empty,  *)
(* is attempted again whenever its last known child has gone.              *)
(*                                                                         *)
(* One actor per transfer.  The manager's lock makes each of its critical  *)
(* sections one step; the call to the service between two of them is a     *)
(* step of its own.                                                        *)
(***************************************************************************)
EXTENDS Integers, FiniteSets

CONSTANTS TreeFiles, TreeFolders, ParentOf, Root

ASSUME TreeAssumption ==
    /\ Root \notin TreeFiles \cup TreeFolders /\ TreeFiles \cap TreeFolders = {}
    /\ ParentOf \in [TreeFiles \cup TreeFolders -> TreeFolders \cup {Root}]

VARIABLES present,  \* what the service still has
          tracked,  \* the keys of the map contents
          childCount, requested, \* folderDeletionState: the count, and whether deleter is set
          actor,    \* where each transfer stands, and the folder it is working on
          deletionCancelled, \* the context of the job is done
          erred     \* history: the files, and the folders that were empty, whose deletion
                    \* ended with an error, whether or not the service did it

deletionVars == <<present, tracked, childCount, requested, actor, deletionCancelled, erred>>

Entities == TreeFiles \cup TreeFolders
ChildrenOf(d) == {e \in Entities : ParentOf[e] = d}

DeletionInit ==
    /\ \E gone \in SUBSET TreeFiles : \* someone else deleted a file after it was enumerated
          Cardinality(gone) <= 1 /\ present = Entities \ gone
    /\ tracked = {}
    /\ childCount = [d \in TreeFolders \cup {Root} |-> 0]
    /\ requested = [d \in TreeFolders \cup {Root} |-> FALSE]
    /\ actor = [e \in Entities |-> [pc |-> "exists", on |-> Root]]
    /\ deletionCancelled = FALSE /\ erred = {}

At(e, pc, on) == actor' = [actor EXCEPT ![e] = [pc |-> pc, on |-> on]]

CancelDeletion ==
    /\ ~deletionCancelled /\ \E e \in Entities : actor[e].pc \notin {"done", "cancelled"}
    /\ deletionCancelled' = TRUE
    /\ UNCHANGED <<present, tracked, childCount, requested, actor, erred>>

(* A transfer that finds itself cancelled is reported done at once ...     *)
SeeCancellation(e) ==
    /\ actor[e].pc = "exists" /\ deletionCancelled
    /\ At(e, "cancelled", e)
    /\ UNCHANGED <<present, tracked, childCount, requested, deletionCancelled, erred>>

(* ... any other begins with RecordChildExists.                            *)
RecordChildExists(e) ==
    /\ actor[e].pc = "exists" /\ ~deletionCancelled
    /\ tracked' = tracked \cup {ParentOf[e]}
    /\ childCount' = [childCount EXCEPT ![ParentOf[e]] = @ + 1]
    /\ At(e, IF e \in TreeFiles THEN "delete" ELSE "request", e)
    /\ UNCHANGED <<present, requested, deletionCancelled, erred>>

(***************************************************************************)
(* doDeleteFile: the file goes, or was gone already (a 404 is a success);  *)
(* an error, with or without an effect at the service, is reported without *)
(* telling the manager.                                                    *)
(***************************************************************************)
DeleteFile(e) ==
    /\ actor[e].pc = "delete"
    /\ \/ present' = present \ {e} /\ At(e, "deleted", e) /\ UNCHANGED erred
       \/ present' \in {present, present \ {e}} /\ At(e, "done", e) /\ erred' = erred \cup {e}
    /\ UNCHANGED <<tracked, childCount, requested, deletionCancelled>>

ShouldDeleteNow(d) == requested'[d] /\ childCount'[d] = 0

(***************************************************************************)
(* RecordChildDeleted for the entity the actor has just deleted: a file,   *)
(* or a folder on the way up from tryDeletion.                             *)
(***************************************************************************)
RecordChildDeleted(e) ==
    /\ actor[e].pc = "deleted"
    /\ LET d == ParentOf[actor[e].on]
       IN  IF d \in tracked
           THEN /\ childCount' = [childCount EXCEPT ![d] = IF @ > 0 THEN @ - 1 ELSE 0]
                /\ UNCHANGED requested
                /\ IF ShouldDeleteNow(d) THEN At(e, "try", d) ELSE At(e, "done", d)
           ELSE At(e, "done", d) /\ UNCHANGED <<childCount, requested>>
    /\ UNCHANGED <<present, tracked, deletionCancelled, erred>>

RequestDeletion(e) ==
    /\ actor[e].pc = "request"
    /\ tracked' = tracked \cup {e}
    /\ requested' = [requested EXCEPT ![e] = TRUE]
    /\ UNCHANGED <<present, childCount, deletionCancelled, erred>>
    /\ IF ShouldDeleteNow(e) THEN At(e, "try", e) ELSE At(e, "done", e)

(***************************************************************************)
(* The call of the deleter: the service deletes an empty folder, and a     *)
(* missing one counts as deleted; a folder with children stays.  Any other *)
(* error counts as not deleted.                                            *)
(***************************************************************************)
IsEmpty(d) == ChildrenOf(d) \cap present = {}

CallDeleter(e) ==
    /\ actor[e].pc = "try"
    /\ LET d == actor[e].on
       IN  \/ IsEmpty(d) /\ present' = present \ {d} /\ At(e, "forget", d) /\ UNCHANGED erred
           \/ IsEmpty(d) /\ present' \in {present, present \ {d}} /\ At(e, "done", d)
              /\ erred' = erred \cup {d}
           \/ ~IsEmpty(d) /\ At(e, "done", d) /\ UNCHANGED <<present, erred>>
    /\ UNCHANGED <<tracked, childCount, requested, deletionCancelled>>

\* Mutant: the parent is not told of the folder's deletion.
ForgetFolderAndStop(e) ==
    /\ actor[e].pc = "forget"
    /\ LET d == actor[e].on
       IN  /\ tracked' = tracked \ {d}
           /\ childCount' = [childCount EXCEPT ![d] = 0]
           /\ requested' = [requested EXCEPT ![d] = FALSE]
           /\ At(e, "done", d)
    /\ UNCHANGED <<present, deletionCancelled, erred>>

(* tryDeletion after a success: the entry goes, then on to the parent.     *)
ForgetFolder(e) ==
    /\ actor[e].pc = "forget"
    /\ LET d == actor[e].on
       IN  /\ tracked' = tracked \ {d}
           /\ childCount' = [childCount EXCEPT ![d] = 0]
           /\ requested' = [requested EXCEPT ![d] = FALSE]
           /\ At(e, "deleted", d)
    /\ UNCHANGED <<present, deletionCancelled, erred>>

DeletionStep(e) ==
    \/ SeeCancellation(e) \/ RecordChildExists(e) \/ DeleteFile(e) \/ RecordChildDeleted(e)
    \/ RequestDeletion(e) \/ CallDeleter(e) \/ ForgetFolder(e)

DeletionNext == CancelDeletion \/ \E e \in Entities : DeletionStep(e)

(* The transfers are run by goroutines that nothing stops.                 *)
DeletionFairness == \A e \in Entities : WF_deletionVars(DeletionStep(e))

DeletionSpec == DeletionInit /\ [][DeletionNext]_deletionVars /\ DeletionFairness

(***************************************************************************)
(* Whatever the order of the transfers, the failed attempts and the        *)
(* attempts that meet, and whenever the job is cancelled: in the end a     *)
(* folder is left standing empty only when its transfer came too late to   *)
(* ask for its deletion, or when its own deletion, once it was empty, or   *)
(* that of a child in it, ended with an error; and the folders still       *)
(* tracked with a deleter are those that are left and whose transfers      *)
(* asked, and perhaps some that went with an error.                        *)
(***************************************************************************)
EmptyFoldersGo ==
    <>[](LET asked == {d \in TreeFolders \cap present : actor[d].pc # "cancelled"}
             awaited == {d \in tracked : requested[d]}
         IN  /\ \A d \in asked : IsEmpty(d) => ({d} \cup ChildrenOf(d)) \cap erred # {}
             /\ asked \subseteq awaited /\ awaited \subseteq asked \cup erred)

=============================================================================
