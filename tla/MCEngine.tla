------------------------------ MODULE MCEngine ------------------------------
(***************************************************************************)
(* The small components of the transfer engine, checked side by side: they *)
(* share no state, so in each behaviour one of them runs and the others    *)
(* stay where they begin.                                                  *)
(*   pool      a pool of one worker that may grow to five                  *)
(*   cpu       a window of two samples, a channel of five                  *)
(*   deletion  d1 holds d2, d2 holds f1 and f2                             *)
(*   creation  a file in top/sub, and the transfers of both folders, that   *)
(*             of sub first in a second part, as that of top in the first   *)
(*   download  two files that compete for the RAM of two chunks            *)
(*   plan      two transfers, lengths of up to three                       *)
(*   sender    a source of up to two chunks, each kind of destination      *)
(*   pacer     a coarse and a fine request, the cap lifted and set again   *)
(***************************************************************************)
EXTENDS WorkerPool, CpuMonitor, FolderDeletion, FolderCreation, Download, PlanFile,
        RemoteSenders, Pacer, TLC

VARIABLE part

engineVars == <<part, poolVars, cpuVars, deletionVars, creationVars, downloadVars, planVars,
                senderVars, pacerVars>>

MCFiles == {"f1", "f2"}
MCFolders == {"d1", "d2"}
MCParent == ("d1" :> "/") @@ ("d2" :> "d1") @@ ("f1" :> "d2") @@ ("f2" :> "d2")

MCOrder == <<"dirTop", "file", "dirSub">>
MCIsFolder == [t \in Range(MCOrder) |-> t # "file"]
MCPath == [t \in Range(MCOrder) |-> IF t = "dirTop" THEN <<"top">> ELSE <<"top", "sub">>]
MCPart == [t \in Range(MCOrder) |-> IF t = "dirSub" THEN 1 ELSE 0]
MCIndex == ("dirTop" :> 1) @@ ("file" :> 2) @@ ("dirSub" :> 1)

MCNumChunks == ("a" :> 2) @@ ("b" :> 1)

MCProperties == <<"ContentType", "Metadata">>

MCBytes == ("copy" :> 3) @@ ("body" :> 1)
MCNewCaps == <<0, 2>>

EngineInit ==
    /\ part \in {"pool", "cpu", "deletion", "creation", "download", "plan", "sender", "pacer"}
    /\ PoolInit /\ CpuInit /\ DownloadInit
    /\ part # "deletion" => present = Entities
    /\ DeletionInit
    /\ part # "creation" => before = {} /\ store = "files"
    /\ CreationInit
    /\ part # "plan" => order = [t \in Plan |-> [f \in Fields |-> 0]]
    /\ PlanInit
    /\ part # "sender" => kind = "page" /\ source = << >> /\ lists = {} /\ local = TRUE
    /\ SenderInit
    /\ part # "sender" => ~blob.exists
    /\ PacerInit

EngineNext ==
    /\ UNCHANGED part
    /\ \/ /\ part = "pool" /\ PoolNext
          /\ UNCHANGED <<cpuVars, deletionVars, creationVars, downloadVars,
                        planVars, senderVars, pacerVars>>
       \/ /\ part = "cpu" /\ CpuNext
          /\ UNCHANGED <<poolVars, deletionVars, creationVars, downloadVars,
                        planVars, senderVars, pacerVars>>
       \/ /\ part = "deletion" /\ DeletionNext
          /\ UNCHANGED <<poolVars, cpuVars, creationVars, downloadVars,
                        planVars, senderVars, pacerVars>>
       \/ /\ part = "creation" /\ CreationNext
          /\ UNCHANGED <<poolVars, cpuVars, deletionVars, downloadVars,
                        planVars, senderVars, pacerVars>>
       \/ /\ part = "download" /\ DownloadNext
          /\ UNCHANGED <<poolVars, cpuVars, deletionVars, creationVars,
                        planVars, senderVars, pacerVars>>
       \/ /\ part = "plan" /\ PlanNext
          /\ UNCHANGED <<poolVars, cpuVars, deletionVars, creationVars,
                        downloadVars, senderVars, pacerVars>>
       \/ /\ part = "sender" /\ SenderNext
          /\ UNCHANGED <<poolVars, cpuVars, deletionVars, creationVars,
                        downloadVars, planVars, pacerVars>>
       \/ /\ part = "pacer" /\ PacerNext
          /\ UNCHANGED <<poolVars, cpuVars, deletionVars, creationVars,
                        downloadVars, planVars, senderVars>>

EngineSpec == EngineInit /\ [][EngineNext]_engineVars

\* The folders alone, on an Azure file share or a disk.
FoldersSpec == part = "creation" /\ store = "files" /\ EngineSpec

(***************************************************************************)
(* The liveness of the component that runs, under its own fairness (that   *)
(* of the others, which do not move, would be no assumption about them):   *)
(* PoolServes, EmptyFoldersGo, DownloadsEnd, SendEnds and PacedRequestsEnd  *)
(* as their modules state them.                                            *)
(***************************************************************************)
PoolDoesServe == part = "pool" /\ PoolFairness => PoolServes
EmptyFoldersDoGo == part = "deletion" /\ DeletionFairness => EmptyFoldersGo
TransfersDoEnd ==
    /\ part = "download" /\ DownloadFairness => DownloadsEnd
    /\ part = "sender" /\ SenderFairness => SendEnds
PacedRequestsDoEnd == part = "pacer" /\ PacerFairness => PacedRequestsEnd

=============================================================================
