------------------------------ MODULE Crawler ------------------------------
(***************************************************************************)
(* The traversers that list a tree in parallel. Crawl workers take         *)
(* directories from one list, put what they find in a channel, and add the *)
(* subdirectories to the list (parallel.Crawl); for Azure Files a second   *)
(* pool turns the entries into objects (parallel.Transform); the goroutine *)
(* that called Traverse takes the results. Three users of the crawl:       *)
(*   "walk"  local files (Walk, WalkWithSymlinks without symbolic links):  *)
(*           an error is an entry of its own, and a warning;               *)
(*   "blob"  (parallelList): the first error ends the traversal;           *)
(*   "file"  Azure Files: errors are skipped; the closure that asks for    *)
(*           the properties assigns to the err of the function around it.  *)
(* The entry of a directory is one more file of its parent.                *)
(***************************************************************************)
EXTENDS Integers, Sequences, FiniteSets, SequencesExt

CONSTANTS Workers, Transformers,
          Modes,
          Root, Subdirs, FilesIn,  \* the tree
          BadDirs, BadFiles,       \* those that may fail to be listed, or read
          ChannelCap,              \* bound: the channels hold 1000 results
          Timeouts                 \* bound: a batch that comes late is asked for 3 times

VARIABLES mode,
          bad,         \* what may fail in this traversal: directories, files, the "pool"
          unstarted, dirInProgress, \* protected by cond.L
          worker,      \* of each crawl worker: where it is, the directory, names
                       \* not read yet, results to put, directories for the list
          output, ctxDone,
          transformer, \* where each is, and the file it is at
          sharedErr,   \* err of fileTraverser.Traverse
          transformed, delivered, warned, ended,
          late,        \* of each worker: batches in a row that came late
          skipped      \* history: what was in those batches, and below it

crawlVars == <<unstarted, dirInProgress, worker>>
transformVars == <<transformer, sharedErr, transformed>>
readerVars == <<delivered, warned, ended, ctxDone>>
retryVars == <<late, skipped>>
crawlerVars == <<mode, bad, crawlVars, output, transformVars, readerVars, retryVars>>

Dirs == DOMAIN FilesIn
Files == UNION {FilesIn[d] : d \in Dirs}
Found(f) == [file |-> f, err |-> FALSE]
Failed(where) == [file |-> where, err |-> TRUE]

(* The files of a directory and of all that is below it.                   *)
Subtree(d) == {e \in Dirs : \A D \in SUBSET Dirs :
                d \in D /\ (\A c \in D : Subdirs[c] \subseteq D) => e \in D}
Below(d) == UNION {FilesIn[e] : e \in Subtree(d)}

NoDir == [pc |-> "acquire", dir |-> "none", names |-> {}, puts |-> {}, found |-> {}]

CrawlerInit ==
    /\ mode \in Modes
    /\ bad \in SUBSET (BadDirs \cup CASE mode = "file" -> BadFiles
                                       [] mode = "walk" -> {"pool"}
                                       [] mode = "blob" -> {})
    /\ unstarted = <<Root>> /\ dirInProgress = 0
    /\ worker = [w \in Workers |-> NoDir]
    /\ output = <<>> /\ ctxDone = FALSE
    /\ transformer = [t \in Transformers |-> [pc |-> "take", file |-> "none"]]
    /\ sharedErr = FALSE /\ transformed = <<>>
    /\ delivered = [f \in Files |-> 0] /\ warned = {} /\ ended = "no"
    /\ late = [w \in Workers |-> 0] /\ skipped = {}

(***************************************************************************)
(* processOneDirectory. A Broadcast sends those that wait back to look.    *)
(***************************************************************************)
Broadcast(ws) == [w \in Workers |-> IF ws[w].pc = "waiting"
                                    THEN [ws[w] EXCEPT !.pc = "acquire"] ELSE ws[w]]
GoTo(w, pc) == [worker EXCEPT ![w].pc = pc]

Acquire(w) ==
    /\ worker[w].pc = "acquire"
    /\ IF ~ctxDone /\ unstarted # <<>>
       THEN /\ unstarted' = Tail(unstarted)
            /\ dirInProgress' = dirInProgress + 1
            /\ worker' = Broadcast([worker EXCEPT ![w] =
                   [NoDir EXCEPT !.pc = "list", !.dir = Head(unstarted),
                                 !.names = FilesIn[Head(unstarted)],
                                 !.found = Subdirs[Head(unstarted)]]])
       ELSE /\ worker' = GoTo(w, IF ~ctxDone /\ dirInProgress > 0 THEN "waiting" ELSE "gone")
            /\ UNCHANGED <<unstarted, dirInProgress>>
    /\ UNCHANGED <<mode, bad, output, transformVars, readerVars, retryVars>>

Heartbeat ==
    /\ \E w \in Workers : worker[w].pc = "waiting"
    /\ worker' = Broadcast(worker)
    /\ UNCHANGED <<mode, bad, unstarted, dirInProgress, output, transformVars,
                   readerVars, retryVars>>

(***************************************************************************)
(* The worker bodies: a directory comes in batches of names, and any call  *)
(* of a bad one may fail, with some of the subdirectories found. The local *)
(* reader that has its files looked up by a pool asks again when the pool  *)
(* is late, and is given the names that follow; late once more, it fails.  *)
(***************************************************************************)
Listing(w) == worker[w].pc = "list" /\ worker[w].puts = {}

ReadBatch(w) ==
    /\ Listing(w)
    /\ \E batch \in SUBSET worker[w].names :
          /\ batch # {} \/ worker[w].names = {}
          /\ worker' = [worker EXCEPT ![w].puts = {Found(f) : f \in batch},
                                      ![w].names = @ \ batch,
                                      ![w].pc = IF batch = worker[w].names
                                                THEN "listed" ELSE "list"]
    /\ late' = [late EXCEPT ![w] = 0]
    /\ UNCHANGED <<mode, bad, unstarted, dirInProgress, output, transformVars,
                   readerVars, skipped>>

PoolIsLate(w) ==
    /\ "pool" \in bad /\ Listing(w) /\ late[w] < Timeouts
    /\ late' = [late EXCEPT ![w] = @ + 1]
    /\ \E files \in SUBSET worker[w].names, dirs \in SUBSET worker[w].found :
          /\ files \cup dirs # {}
          /\ worker' = [worker EXCEPT ![w].names = @ \ files, ![w].found = @ \ dirs]
          /\ skipped' = skipped \cup files \cup UNION {Below(d) : d \in dirs}
    /\ UNCHANGED <<mode, bad, unstarted, dirInProgress, output, transformVars, readerVars>>

ListingFails(w) ==
    /\ Listing(w)
    /\ worker[w].dir \in bad \/ ("pool" \in bad /\ late[w] = Timeouts)
    /\ \E dirs \in SUBSET worker[w].found :
          worker' = [worker EXCEPT ![w] =
              [pc |-> IF mode = "walk" THEN "listed" ELSE "error", dir |-> worker[w].dir,
               names |-> {}, found |-> dirs,
               puts |-> IF mode = "walk" THEN {Failed(worker[w].dir)} ELSE {}]]
    /\ late' = [late EXCEPT ![w] = 0]
    /\ UNCHANGED <<mode, bad, unstarted, dirInProgress, output, transformVars,
                   readerVars, skipped>>

\* Mutant: a result that finds the channel full is dropped.
PutOrDrop(w) ==
    /\ \E r \in worker[w].puts :
          /\ worker' = [worker EXCEPT ![w].puts = @ \ {r}]
          /\ output' = IF Len(output) < ChannelCap THEN Append(output, r) ELSE output
    /\ UNCHANGED <<mode, bad, unstarted, dirInProgress, transformVars, readerVars, retryVars>>

\* addOutput does not block on a full channel when the traversal is given up.
Put(w) ==
    /\ \E r \in worker[w].puts :
          /\ worker' = [worker EXCEPT ![w].puts = @ \ {r}]
          /\ \/ Len(output) < ChannelCap /\ output' = Append(output, r)
             \/ ctxDone /\ UNCHANGED output
    /\ UNCHANGED <<mode, bad, unstarted, dirInProgress, transformVars, readerVars, retryVars>>

\* Mutant: nobody is woken up when a directory is finished.
FinishDirectorySilently(w) ==
    /\ worker[w].puts = {} /\ worker[w].pc \in {"listed", "error"}
    /\ unstarted' = unstarted \o SetToSeq(worker[w].found)
    /\ dirInProgress' = dirInProgress - 1
    /\ worker' = [worker EXCEPT ![w] =
          IF @.pc = "error" THEN [NoDir EXCEPT !.pc = "send error", !.dir = worker[w].dir]
                            ELSE NoDir]
    /\ UNCHANGED <<mode, bad, output, transformVars, readerVars, retryVars>>

FinishDirectory(w) ==
    /\ worker[w].puts = {} /\ worker[w].pc \in {"listed", "error"}
    /\ unstarted' = unstarted \o SetToSeq(worker[w].found)
    /\ dirInProgress' = dirInProgress - 1
    /\ worker' = Broadcast([worker EXCEPT ![w] =
          IF @.pc = "error" THEN [NoDir EXCEPT !.pc = "send error", !.dir = worker[w].dir]
                            ELSE NoDir])
    /\ UNCHANGED <<mode, bad, output, transformVars, readerVars, retryVars>>

SendError(w) ==
    /\ worker[w].pc = "send error" /\ Len(output) < ChannelCap
    /\ output' = Append(output, Failed(worker[w].dir))
    /\ worker' = GoTo(w, IF ctxDone THEN "gone" ELSE "acquire")
    /\ UNCHANGED <<mode, bad, unstarted, dirInProgress, transformVars, readerVars, retryVars>>

OutputClosed == \A w \in Workers : worker[w].pc = "gone"

(***************************************************************************)
(* processOneObject of the second pool, with convertToStoredObject: the    *)
(* result of GetProperties is assigned to the shared err, which is looked  *)
(* at afterwards.                                                          *)
(***************************************************************************)
Move(t, pc, file) == transformer' = [transformer EXCEPT ![t] = [pc |-> pc, file |-> file]]

TakeResult(t) ==
    /\ mode = "file" /\ transformer[t].pc = "take" /\ output # <<>>
    /\ output' = Tail(output)
    /\ Move(t, IF Head(output).err THEN "put error" ELSE "get", Head(output).file)
    /\ UNCHANGED <<mode, bad, crawlVars, sharedErr, transformed, readerVars, retryVars>>

GetProperties(t) ==
    /\ transformer[t].pc = "get"
    /\ sharedErr' = (transformer[t].file \in bad)
    /\ Move(t, "check", transformer[t].file)
    /\ UNCHANGED <<mode, bad, crawlVars, output, transformed, readerVars, retryVars>>

\* A failed call leaves no properties to be read: a look at them panics.
CheckErr(t) ==
    /\ transformer[t].pc = "check"
    /\ IF ~sharedErr /\ transformer[t].file \in bad
       THEN ended' = "failed" /\ UNCHANGED transformer
       ELSE /\ Move(t, IF sharedErr THEN "put error" ELSE "put", transformer[t].file)
            /\ UNCHANGED ended
    /\ UNCHANGED <<mode, bad, crawlVars, output, sharedErr, transformed,
                   delivered, warned, ctxDone, retryVars>>

PutObject(t) ==
    /\ transformer[t].pc \in {"put", "put error"} /\ Len(transformed) < ChannelCap
    /\ transformed' = Append(transformed,
           IF transformer[t].pc = "put" THEN Found(transformer[t].file)
                                        ELSE Failed(transformer[t].file))
    /\ Move(t, "take", "none")
    /\ UNCHANGED <<mode, bad, crawlVars, output, sharedErr, readerVars, retryVars>>

TransformerLeaves(t) ==
    /\ mode = "file" /\ transformer[t].pc = "take"
    /\ ctxDone \/ (OutputClosed /\ output = <<>>)
    /\ Move(t, "gone", "none")
    /\ UNCHANGED <<mode, bad, crawlVars, output, sharedErr, transformed, readerVars, retryVars>>

TransformedClosed == \A t \in Transformers : transformer[t].pc = "gone"

(***************************************************************************)
(* The loop of the caller over the last channel.                           *)
(***************************************************************************)
Receive(r) ==
    IF ~r.err
    THEN delivered' = [delivered EXCEPT ![r.file] = @ + 1]
         /\ UNCHANGED <<warned, ended, ctxDone>>
    ELSE /\ warned' = warned \cup {r.file}
         /\ IF mode = "blob" THEN ended' = "failed" /\ ctxDone' = TRUE
                             ELSE UNCHANGED <<ended, ctxDone>>
         /\ UNCHANGED delivered

Process ==
    \/ /\ mode = "file" /\ transformed # <<>>
       /\ transformed' = Tail(transformed)
       /\ Receive(Head(transformed))
       /\ UNCHANGED <<mode, bad, crawlVars, output, transformer, sharedErr, retryVars>>
    \/ /\ mode # "file" /\ output # <<>>
       /\ output' = Tail(output)
       /\ Receive(Head(output))
       /\ UNCHANGED <<mode, bad, crawlVars, transformVars, retryVars>>

\* The last lines of the traverser of Azure Files return the shared err.
TraverseReturns ==
    /\ IF mode = "file" THEN TransformedClosed /\ transformed = <<>>
                        ELSE OutputClosed /\ output = <<>>
    /\ ended' = IF sharedErr THEN "failed" ELSE "done"
    /\ ctxDone' = (mode = "file")
    /\ UNCHANGED <<mode, bad, crawlVars, output, transformVars, delivered, warned, retryVars>>

CallerStep == Process \/ TraverseReturns
CrawlStep(w) == \/ Acquire(w) \/ ReadBatch(w) \/ ListingFails(w)
                \/ Put(w) \/ FinishDirectory(w) \/ SendError(w)
TransformStep(t) == \/ TakeResult(t) \/ GetProperties(t) \/ CheckErr(t)
                    \/ PutObject(t) \/ TransformerLeaves(t)

CrawlerNext ==
    /\ ended = "no"
    /\ \/ \E w \in Workers : CrawlStep(w) \/ PoolIsLate(w)
       \/ \E t \in Transformers : TransformStep(t)
       \/ Heartbeat \/ CallerStep

CrawlerSpec == CrawlerInit /\ [][CrawlerNext]_crawlerVars

(* Every goroutine runs on; the heartbeat is not relied upon.              *)
CrawlerFairness ==
    /\ \A w \in Workers : WF_crawlerVars(ended = "no" /\ CrawlStep(w))
    /\ \A t \in Transformers : WF_crawlerVars(ended = "no" /\ TransformStep(t))
    /\ WF_crawlerVars(ended = "no" /\ CallerStep)

----------------------------------------------------------------------------
(* Directories and files hang below the root, each in one directory.       *)
ASSUME TreeShape ==
    /\ IsFiniteSet(Dirs) /\ Root \in Dirs /\ Dirs = Subtree(Root)
    /\ Subdirs \in [Dirs -> SUBSET (Dirs \ {Root})]
    /\ \A d, e \in Dirs : d # e =>
          Subdirs[d] \cap Subdirs[e] = {} /\ FilesIn[d] \cap FilesIn[e] = {}
    /\ Dirs \cap Files = {}

ASSUME Crews ==
    /\ IsFiniteSet(Workers) /\ Workers # {} /\ Transformers # {}
    /\ Modes \subseteq {"walk", "blob", "file"}

ASSUME CanFail ==
    /\ BadDirs \subseteq Dirs /\ BadFiles \subseteq Files
    /\ "pool" \notin Dirs \cup Files

(* What the caller was told of: a directory stands for all below it.       *)
Reported == (UNION {Below(d) : d \in warned \cap Dirs}) \cup (warned \cap Files)

TraverserScan == INSTANCE Scan
    WITH Entries <- Files, fallible <- bad # {}, reported <- Reported

(***************************************************************************)
(* What the callers rely on, of any number of workers in any order: no     *)
(* entry comes twice; when a traversal ends well, every entry has come, or *)
(* was reported itself or with a directory above it, or (a flaw: see the   *)
(* README) was in a batch that came late and was asked for again; and it   *)
(* reports, skips and fails only if something is bad.                      *)
(***************************************************************************)
ImplementsScan == TraverserScan!ScanSpec

(***************************************************************************)
(* The traversal ends: no wake-up of cond is lost, the last worker notices *)
(* that there is no more, and no channel stays full.                       *)
(***************************************************************************)
TraversalEnds == <>(ended # "no")

(***************************************************************************)
(* "This func must be threadsafe/goroutine safe", it says of the closures  *)
(* the two pools run: a file whose properties can be had is not reported   *)
(* as failed.                                                              *)
(***************************************************************************)
GoodFilesAreRead == warned \cap Files \subseteq bad
============================================================================
