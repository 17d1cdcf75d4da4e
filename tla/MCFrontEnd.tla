----------------------------- MODULE MCFrontEnd -----------------------------
(***************************************************************************)
(* The components on the side of the commands, checked side by side: in    *)
(* each behaviour one of them runs and the others stay where they begin    *)
(* (what joins them, and the engine, is part of each of the modules).      *)
(*   enumeration  two objects in up to two versions, parts of one transfer *)
(*   crawler      a root with a file and two directories, one of which may *)
(*                fail; two workers, two transformers                      *)
(*   console      a file and a folder that exist at the destination        *)
(*   task         three records                                            *)
(*   resume       two parts of one transfer, three lives                   *)
(*   walk         three folders, two files and two links leading anywhere  *)
(*   copy         each flag alone, those that are checked together; with   *)
(*                recursion, with a wildcard; in every direction           *)
(***************************************************************************)
EXTENDS Enumeration, Crawler, Console, TaskRunner, JobResume, LocalWalk, CopyCommand, TLC

VARIABLE component

frontEndVars == <<component, enumVars, crawlerVars, consoleVars, taskVars, resumeVars,
                  walkVars, copyVars>>

MCFilesIn == ("root" :> {"f0"}) @@ ("d1" :> {"f1", "f2"}) @@ ("d2" :> {})
MCSubdirs == ("root" :> {"d1", "d2"}) @@ ("d1" :> {}) @@ ("d2" :> {})

MCTypeOf == ("f1" :> "file") @@ ("dir1" :> "folder")

MCPartOf == ("t1" :> 0) @@ ("t2" :> 1)

MCPathTo ==
    ("top" :> <<"top">>) @@ ("start" :> <<"top", "start">>)
    @@ ("sub" :> <<"top", "start", "sub">>) @@ ("file" :> <<"top", "start", "sub", "file">>)
    @@ ("other" :> <<"top", "other">>) @@ ("link" :> <<"top", "start", "link">>)
    @@ ("loop" :> <<"top", "start", "sub", "loop">>)

MCFlags ==
    {"forceIfReadOnly", "decompress", "appendBlob", "bigBlocks", "include", "exclude",
     "includeDate", "listOfFiles", "includePath", "listOfVersions", "blobTags",
     "s2sBlobTags", "cpkByName", "cpkByValue", "posix", "permissions", "followSymlinks",
     "noOwner", "backup", "lastModified", "tier", "noGuessMimeType", "contentType",
     "metadata", "putMd5", "checkMd5", "fileAttributes", "quiet", "prompt", "dryrun",
     "noSubdir", "stubs"}

MCPairs ==
    {{"appendBlob", "bigBlocks"}, {"listOfFiles", "includePath"},
     {"s2sBlobTags", "blobTags"}, {"cpkByName", "cpkByValue"},
     {"followSymlinks", "permissions"}, {"quiet", "prompt"}, {"quiet", "dryrun"},
     {"permissions", "include"}}

MCFlagSets ==
    {f \union r : f \in {{}} \union {{x} : x \in MCFlags} \union MCPairs,
                  r \in SUBSET {"recursive", "wildcard"}}

OneCommand ==
    [name |-> "copy", from |-> "Local", to |-> "Blob", asked |-> Nothing,
     flags |-> {}, system |-> "linux"]

Zero == [n \in Names |-> 0]

FrontEndInit ==
    /\ component \in {"enumeration", "crawler", "console", "task", "resume", "walk",
                    "copy"}
    /\ component # "enumeration" =>
          way = "copy" /\ mirror = TRUE /\ src = Zero /\ dst = Zero /\ blind = {}
    /\ EnumInit
    /\ component # "crawler" => mode = "blob" /\ bad = {}
    /\ CrawlerInit
    /\ component # "console" => polite = FALSE
    /\ ConsoleInit
    /\ component # "task" => taskType = "Full" /\ source = {} /\ dest = {}
    /\ TaskInit
    /\ ResumeInit
    /\ component # "walk" =>
          /\ linkTo = [l \in Links |-> Nowhere] /\ rejected = {}
          /\ options = [recursive |-> TRUE, followSymlinks |-> FALSE, direct |-> TRUE]
    /\ WalkInit
    /\ component # "copy" => command = OneCommand
    /\ CopyInit

FrontEndNext ==
    /\ UNCHANGED component
    /\ \/ /\ component = "enumeration" /\ EnumNext
          /\ UNCHANGED <<crawlerVars, consoleVars, taskVars, resumeVars, walkVars, copyVars>>
       \/ /\ component = "crawler" /\ CrawlerNext
          /\ UNCHANGED <<enumVars, consoleVars, taskVars, resumeVars, walkVars, copyVars>>
       \/ /\ component = "console" /\ ConsoleNext
          /\ UNCHANGED <<enumVars, crawlerVars, taskVars, resumeVars, walkVars, copyVars>>
       \/ /\ component = "task" /\ TaskNext
          /\ UNCHANGED <<enumVars, crawlerVars, consoleVars, resumeVars, walkVars, copyVars>>
       \/ /\ component = "resume" /\ ResumeNext
          /\ UNCHANGED <<enumVars, crawlerVars, consoleVars, taskVars, walkVars, copyVars>>
       \/ /\ component = "walk" /\ WalkNext
          /\ UNCHANGED <<enumVars, crawlerVars, consoleVars, taskVars, resumeVars, copyVars>>
       \/ /\ component = "copy" /\ CopyNext
          /\ UNCHANGED <<enumVars, crawlerVars, consoleVars, taskVars, resumeVars, walkVars>>

FrontEndSpec == FrontEndInit /\ [][FrontEndNext]_frontEndVars

(***************************************************************************)
(* The liveness of the component that runs, under its own fairness:        *)
(* TraversalEnds, PoliteUsersSeeTheEnd, TaskEnds, LivesEnd as their        *)
(* modules state them.                                                     *)
(***************************************************************************)
TraversalDoesEnd == component = "crawler" /\ CrawlerFairness => TraversalEnds
PoliteUsersDoSeeTheEnd == component = "console" /\ ConsoleFairness => PoliteUsersSeeTheEnd
TasksAndLivesDoEnd ==
    /\ component = "task" /\ TaskFairness => TaskEnds
    /\ component = "resume" /\ ResumeFairness => LivesEnd

=============================================================================
