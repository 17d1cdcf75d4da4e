# Verification of the transfer engine

TLA+ models, TLC runs and TLAPS proofs about the transfer engine of this
repository (a fork of AzCopy v10.16 that runs migration tasks). Everything is
translated from the Go source; `PROJECT.json` maps each definition to the lines
it stands for, and lists the runs, the findings, the hazards and the theorems.

## 1. The system

One process. A *front end* (`cmd/`) enumerates a source and orders *job parts*
of up to 10 000 transfers; the *transfer engine* (`ste/`) persists each part in
a memory-mapped plan file, schedules its transfers, runs them in chunks on a
pool of goroutines and counts what became of them; `jobsAdmin/` connects the
two and brings jobs back from their plan files; `common/` has the shared
machinery (limiters, pools, writers, trackers, the lifecycle manager, which also
loads migration tasks and reports their results to an event hub through
`dbmgr/`).

### Components, state, operations

| Component | Source | State | Operations | Hard behaviour | What makes it correct |
|---|---|---|---|---|---|
| Job manager | `ste/mgr-JobMgr.go`, `ste/mgr-JobPartMgr.go` | part managers, final-part flag, parts done, job status (in part 0's plan), context, channels for parts, transfers, part progress | `AddJobPart`, `scheduleJobParts`, `ScheduleTransfers`, `transferProcessor`, `ReportTransferDone`, `reportJobPartDoneHandler`, `CancelPauseJobOrder` | every operation is in its own goroutine; counters, flag and status are read at different moments | a job is completed once, when all of it has reported; its final status agrees with its transfers and stays |
| Status manager | `ste/jobStatusManager.go` | running summary, five channels | `SendJobPartCreatedMsg`, `SendXferDoneMsg`, `ListJobSummary`, `handleStatusUpdateMessage` | select over closing channels; requests racing the end | summaries lose no transfer; requests do not fail; the last summary is complete |
| Summaries | `jobsAdmin/init.go` (`GetJobSummary`) | - | combines counts and status | counts and status of different moments | a summary that says done is complete |
| Progress loop | `cmd/copy.go` (`ReportProgressOrExit`), `common/lifecyleMgr.go` | last summary | poll, report, exit | must end, also for a job resumed or without transfers | exits when the job is done, with final counts |
| Transfer manager | `ste/mgr-JobPartTransferMgr.go`, `ste/xfer*.go` | chunks done, status, destination lock, cleanup actions | `SetNumberOfChunks`, `ReportChunkDone`, `FailActive*`, `EnsureDestinationUnlocked`, `ReportTransferDone` | chunks end concurrently with failure and cancellation | one epilogue per transfer, one report, lock released |
| Pool sizer, tuner | `mgr-JobMgr.go` (`poolSizer`), `ste/concurrencyTuner.go` | actual and target pool size | scale up and back, tune | blocking hand-offs between sizer and workers | pool follows target, no deadlock |
| Jobs admin, resume | `jobsAdmin/JobsAdmin.go`, `init.go` | job managers by id, plan files | `ResurrectJob`, `ResumeJobOrder`, `JobMgrCleanUp` | crash and restart; parts added twice | a resumed job redoes exactly what had not succeeded |
| Plan files | `ste/JobPartPlan*.go` | status per transfer and per job | create, map, `SetTransferStatus` | torn progress after a crash | status only moves forward |
| Limiters and pools | `common/cacheLimiter.go`, `multiSizeSlicePool.go`, `ste/pacer-*.go` | bytes or slots in use | `TryAdd`, `WaitUntilAdd`, `Remove`, `RequestTrafficAllocation` | priorities, waiting, cancellation | never above the limit, nothing leaks, waiters proceed |
| Chunked file writer | `common/chunkedFileWriter.go` | chunks waiting, next offset | enqueue, flush, worker | reordering, failure in the middle | bytes written in order, exactly once |
| Folder trackers | `ste/folderCreationTracker.go`, `common/folderDeletionManager.go` | folders and their contents | create, record, request deletion | concurrent last child | a folder is deleted once and only when empty |
| Exclusive string map | `common/exclusiveStringMap.go` | destinations in use | `Add`, `Remove` | concurrent transfers to one path | one transfer per destination |
| Commands | `cmd/copy.go` (`cook`, `process`), `validators.go`, `copyEnumeratorInit.go`, `remove.go`, `benchmark.go`, `setProperties.go` | direction, options, what is at both ends, containers made | infer, check, dispatch, look, order | options, kinds of place and levels combine in hundreds of ways | an accepted command is carried out, each object to a place of its own |
| Enumeration | `cmd/zc_*.go`, `copyEnumerator*.go` | the part under construction | add, dispatch, final part | part limits | every transfer is in one part, one part is final |
| Sync | `cmd/sync*.go` | index of one side | compare, finish | - | copies and deletes exactly the differences |
| Crawler, transformer | `common/parallel/` | pending directories | crawl, transform | termination by counting | every directory once, then the channel closes |
| Lifecycle, task runner | `common/lifecyleMgr.go` | output queue, prompts, maps of task items | output, prompt, cancel, load, report | console input racing prompts; retries | each item of a task is classified once |
| Local walk | `cmd/zc_traverser_local.go` | queue of folders, seen paths | walk, follow a link, list | links that lead back or to one another | everything is found once |
| Task database clients | `dbmgr/`, `azblobmgr/` | connections | send, receive | - | external services |

Interaction. `ExecuteNewCopyJobPartOrder` calls `AddJobPart` and then sends the
status manager a part-created message. The scheduler goroutine takes parts from a
channel and offers their transfers to initiation workers over another; workers
run a transfer, send the status manager an xfer-done message, count it in its
part, and the last one of a part hands the part's counters to the handler
goroutine over an unbuffered channel. The handler decides whether the job is
complete, closes `xferDone`, waits until the status manager has drained it and
stores the final status in the plan of part 0, which the front end polls.
`CancelPauseJobOrder`, called from another goroutine, stores a status of its own
in the same place and cancels the context everything runs under.

## 2. Plan

1. `JobMgr`, `JobMgrInv`, `JobCompletion`: `JobSummary`: done, proved.
2. `TransferChunks`, `TransferInv`: uploads and copies: done, proved.
3. The rest of the engine, a module per component, composed in `MCEngine`:
   `WorkerPool` with `ConcurrencyTuner`, `CpuMonitor`, `Download`, `RemoteSenders`,
   `Pacer`, `FolderCreation`, `FolderDeletion`, `PlanFile`: done.
4. The side of the commands, composed in `MCFrontEnd`: `Enumeration` with `Scan`,
   `Crawler`, `LocalWalk`, `CopyCommand`, `Console`, `TaskRunner`, `JobResume`: done.
5. Proofs: the job manager, transfers, senders, downloads, pool, resuming, tasks,
   enumeration with its crawl and its walk of links, plan files, console and folder
   creations: done (section 5).
6. Left: what section 7 lists.

Abstract specifications: `JobCompletion`, which the job manager is proved to
implement, and `Scan`, which the crawl and the transformation together are proved
to implement and on which `Enumeration` relies.

## 3. The modules

Engine, one job:

- `JobMgr` has one action per access to shared state. Program counters name the
  place in the code: `fePc` in `AddJobPart` and `SendJobPartCreatedMsg`, `tpc[t]`
  in whatever worker is finishing transfer `t`, `hPc` in
  `reportJobPartDoneHandler`, `cPc` in `CancelPauseJobOrder`. Channels are sets
  with a capacity (their order is not relied on: transfers of a part are
  independent and parts are counted, not named); the unbuffered `jobPartProgress`
  is a transfer at `"reporting"` taken by `ReceivePartDone`. A send on a closed
  channel, a second close and the panic of `setFinalPartOrdered` are recorded in
  `panic`, after which nothing moves: the process is dead. `JobMgrInv` holds the
  inductive invariant and the refinement mapping to `JobCompletion`.
- `JobSummary` extends `JobMgr` with the status manager's counters and end, the
  requests for a summary and the front end's loop. The steps of `JobMgr` that are
  part of it are conjoined with what they do to the summary.
- `TransferChunks`: several transfers to block blobs, uploads or service-to-service
  copies. `xpc[t]` is the place of the goroutine that initiates transfer `t`
  (`anyToRemote_file`, `scheduleSendChunks`), `next`, `reader`, `prefetchErr` and
  `hashed` are its locals; `cpc[c]` is the place of chunk func `c` in the queue, in
  its body, in `failActiveTransfer` or in `ReportChunkDone`; `epc[t]` is the place
  in the epilogue, which the last chunk to be counted runs in its worker. The
  service is state too: what each blob holds and which uncommitted blocks it has. A
  request goes well, fails without effect, or fails having been carried out. A
  transfer of one chunk puts the whole blob, but a copy of an Azure file or of one
  chunk that is too large for that (`BlocksAnyway`), which puts a list of one block;
  `HasCommittedBlocks` says which blobs consist of a list. `TransferInv` holds the
  inductive invariants.
- `RemoteSenders`: one file sent to an append blob, page blob, managed disk, Azure
  file or Data Lake file, which are built in place, with lost answers, retries,
  cancellation and the clean-up.
- `Download`: the initiator, the chunk functions, the chunked file writer with the
  limiter of RAM, and the epilogue, whose renaming and deletion of the file may fail:
  that is logged (`logged`) and changes nothing else.
- `WorkerPool` extends `ConcurrencyTuner` (one observation, one recommendation) with
  the pool sizer and the workers, counted by where they stand. `CpuMonitor` is the
  monitor the tuner asks. `Pacer` is the token bucket and its users.
- `FolderCreation`, `FolderDeletion`: the two trackers with the transfers that use
  them. `FolderCreation` has folders in any part, while the tracker knows one plan
  (`Slot`), destinations that are made folder by folder or at once (`store`), and a
  crash (`lost`: recorded in memory only when it came). `FolderDeletion` has deletions
  that fail and a job that is cancelled. `PlanFile`: writing a part's plan and reading
  every string of it back.

Commands:

- `CopyCommand`: copy, benchmark, remove and set-properties from the command line to
  the order. `stage` is how far the command has come: `Cook` infers the direction and
  checks the flags against it, `Dispatch` and `Redirect` are the switch of
  `processCopyJobPartOrders`, `InitEnumerator` looks at both ends, chooses what
  becomes of folders and makes containers, `Enumerate` is the processor with
  `MakeEscapedRelativePath`. Names are escaped one to one, which is left out.
- `Enumeration`: copy and both kinds of sync: the index, the comparators, the cut
  into parts, the deletions, the exit; what a traverser brings is as `Scan` says.
- `Crawler`: `parallel.Crawl` and `Transform` with their three users. `warned` and
  `skipped` say which directories and entries an error was reported of, and what went
  by in batches that came late. It implements `Scan`.
- `LocalWalk`: the local traverser with links, over `Crawler`'s walk of one folder.
- `Console`: output, questions and answers, cancellation. A line that is typed waits in
  standard input (`typed`) until `watchInputs` reads it (`ReadLine`), which gives it its
  time; the watcher may be behind, as it waits for room in `cancelChannel` and for the
  handler of a request.
- `TaskRunner`: a task from its records to its result.
- `JobResume`: a job over several lives of the program.

`MCCore`, `MCEnds`, `MCJobMgr`, `MCTransferChunks`, `MCEngine` and `MCFrontEnd`
instantiate them. `MCCore`, `MCEnds`, `MCEngine` and `MCFrontEnd` put components side by
side: the variable `part` (`component`) says which of them runs in a behaviour while
the others stay where they begin. They share no state, so interleaving them would
multiply states and show nothing more; where components do interact, one module has them all (the
writer and the limiter in `Download`, the pool and the tuner in `WorkerPool`, plan
files and job manager in `JobResume`, traversal, index and parts in `Enumeration`).

### Abstractions

- A transfer between its start and its end is one step of `JobMgr`, which chooses
  the outcome. Outcomes are kept apart as far as the counters do:
  `"TierUnavailable"` is `TierAvailabilityCheckFailure`, which the status manager
  counts as failed and the part manager does not count.
- An error of the front end between two parts, a job with priorities, the
  `reportCancelCh` of a job being cleaned up, and the debugging knobs of
  `ScheduleTransfers` are left out of `JobMgr`; resuming is in `JobResume`.
- A transfer found cancelled late in its epilogue keeps the status it started
  with ("we leave these transfer status alone"); `JobMgr` counts it with
  `"Cancelled"`, as the code does: neither adds to a counter.
- In `TransferChunks` all the checks before the destination is locked are one
  choice. `failActiveTransfer` looks at the context, cancels it and stores the
  status; these are two steps in a chunk func, where other chunks can look in
  between, and one in the prologue and the epilogue, where no other goroutine of
  the transfer is running.
- Chunks have size one, in RAM and in the byte counters. That a failing request
  can be retried by reading the file again is left out of `TransferChunks` and
  `Download`, as is the overshoot in `TryAdd` between its addition and its
  correction.
- The service accepts a list of whatever blocks there are: a bad list would be
  refused there, and the model relies on the client alone.
- A reader of `jstm.js` after the status manager has gone sees its last value:
  nobody writes it any more.
- Speeds, times and bytes are outcomes of comparisons where only the comparison
  matters (tuner, CPU monitor, overwrite by age); the rate of the pacer is tokens
  per tick.
- Objects have a version in place of a time; filters are the set of what they
  reject.

## 4. The runs

| Run | Shows |
|---|---|
| `core` | jobs, with two requests to cancel or pause at any moment: completion happens once, when everything known is counted (`IndInv`), without a cancellation when everything is ordered and reported (`CompletionCoversJob`); a status that speaks of failures or skips has some behind it (`StatusIsBacked`); it waits for the status manager (`DrainedWhenDone`); the job manager implements `JobCompletion`. Two uploads or copies that want one destination: one report each, at the end (`TransferIndInv`, `ReportedOnceAtTheEnd`), with a status that is true (`OutcomesAreTrue`); a blob of committed blocks is replaced by a whole file or stays (`BlockListsSurvive`), and a transfer that fails does not touch the blocks of another (`BlocksUndisturbed`) |
| `ends` | nothing in a job waits for ever, stopped (`CancelDoesWindDown`) or not (`JobDoesEnd`); the status manager's last word is complete (`LastSummaryCovers`) and the front end's loop ends (`ProgressDoesEnd`); with RAM for every chunk, a single worker and room for one chunk in the queue, every transfer ends (`TransfersReachTheirEnd`) |
| `engine` | the pool counts its workers right (`PoolIsCounted`) and goes on serving chunks (`PoolDoesServe`); the CPU monitor misses no slow half of a window (`SlowIsNotMissed`); a download is whole under a name that is known, or says it is not (`DownloadedWhole`), and ends; a plan reads back as written or is refused (`ReadBack`); a file built in place is whole when the sender says so (`AllOrNothing`), and its sending ends; empty folders go, unless a deletion ended with an error (`EmptyFoldersDoGo`); the creation of a folder is honoured, crash or not (`CreationsAreHonoured`); paced requests proceed, if the bucket can ever hold them (`PacedRequestsDoEnd`) |
| `front_end` | an accepted command is dispatched and leaves the root of a destination container alone (`CommandsAreCarriedOut`), and sends no two objects to one place (`TransfersAreApart`); a sync that succeeds leaves the sides alike (`SuccessIsInSync`), deletes nothing it saw on the source (`SeenIsNotDeleted`); parts are whole and the final one is sent (`PartsAreWhole`); the parallel traversal implements `Scan` and ends; a walk through links finds everything once (`WalkIsWhole`); questions are answered by lines read while they are shown (`AnswersFitTheirQuestions`) and a user who answers sees the end; the result of a task adds up, a task deletes only what is gone, and ends but for the two scans that `TaskEnds` names; plan files tell the truth whenever the process dies (`PlanTellsTheTruth`), what succeeded is not done again (`SuccessIsNotRepeated`) and the lives end |
| the others | one property each, violated: section 6 |

### Bounds

- Jobs: two parts, transfer `a` in part 0, `b` (and `c`) in part 1, every channel of
  capacity 1: small enough to fill up, so senders do block. Two parts make "known
  parts done but the final one not ordered" possible; two transfers in a part make
  one the last and another overtaken by it; `core`, which checks no liveness, takes
  `b` and `c` as symmetric. `MaxCancels` bounds the requests to
  stop; two suffice for a request to meet the effects of another. The outcomes of
  `core` are failed and skipped, the two `StatusIsBacked` speaks of; the job of `ends`
  has success and failure. Its summary is of a job nobody cancels, with one transfer in
  each part, both skipped: the status manager treats outcomes alike but for the counter.
- Transfers: two, one of two chunks and one of one. One chunk takes the put of a
  whole blob, two the put of a block list and the race of a failing chunk with the
  last one. They share a destination, or have one each where the question is
  waiting. One worker makes an epilogue keep all chunks waiting, two make chunks run
  side by side, and room for one chunk in the queue makes the one that schedules
  wait. A destination starts empty or with an older blob, of committed blocks or put
  whole (in `core` a copy starts with one of committed blocks, which it could lose, and
  the one chunk is one that is put as a block if copied; in `ends` the destinations start
  empty, as does the source of the one chunk).
- `engine`: a pool of one worker that may grow to five, in which the tuner passes
  through all its states; a window of two samples, a channel of five and eight samples
  (`MaxSamples`), so that slow ones lengthen the window until the channel is full; a
  folder with a file and a folder with two files, so that two last children meet,
  deletions that may fail, and a job that may be cancelled; a file two folders deep and
  the transfers of both folders, of the same index in two parts, every kind of
  destination, one crash; two downloads (two chunks and one) that compete for the RAM of
  two; a plan of two transfers with lengths of up to four and integers that hold three,
  so that lengths and sums overflow; a source of up to two chunks, two tries, a flush
  after each; a request of three tokens that is larger than the first cap ever allows,
  and one of a single token, the cap lifted and set again, and no expected size of
  requests (`Expected` is 0), as for the pacer of all jobs.
- `front_end`: two objects in up to two versions, parts of one, one change of the
  source while it is scanned; a root with a file and two folders one of which may
  fail, two workers, two transformers, one late batch before the reader gives up
  (`Timeouts`, 3 in the code); a file and a folder that exist at the destination, two
  lines, requests or interrupts of a user who is not polite (`LinesCap`); three records,
  and every length of an error of the scan that the code treats differently; two parts of one
  transfer and three lives, enough for a resumed job to crash again; three folders,
  two files and two links that may lead to anything; every direction, asked for or
  inferred, with each flag alone, the pairs that are checked together, recursive or
  not, with a wildcard or not, on both systems, between all kinds of places, for a
  tree that has a file, a compressed one and a folder in each of two containers.

The theorems hold for any number.

### Fairness

Each request to a service is answered. Weak fairness for each goroutine: the Go
scheduler runs any goroutine that can go on. The status manager's select picks at
random among what is ready, so a message that is ready again and again is taken
with probability one: `FairSummarySpec` gives the taking of messages strong
fairness. Requests to cancel, crashes, time-outs and lost answers are never
required. Where fairness asks for a user, the property says so (a polite user
answers). In `MCEngine` and `MCFrontEnd` a liveness property reads: if this
component runs, under its fairness, then its progress.

## 5. What is proved

`JobMgr_proofs`, for any number of parts and transfers, any assignment of
transfers to parts allowed by `JobShape`, any channel capacities and any number
of requests:

- `TypeCorrect`: `TypeOK`.
- `Inductive`: `IndInv`. `CompletionCoversJob` is not inductive: the handler
  compares a count with a count. The invariant relates each count to the set it
  counts: `transfersDone[p]` is the number of transfers at or past `"counted"`,
  exactly one of them finds itself the last (`CountInv`); `partsDone` is the
  number of parts whose last transfer has handed over (`Handled`) until the job
  is completed and less ever after (`HandlerInv`), which is why a completed job
  is not completed again; parts are known before they are scheduled
  (`FrontEndInv`, `ScheduleInv`). Equal cardinalities of `Handled` and
  `jobPartMgrs`, one a subset of the other, make them equal.
- `CoversJob`, `SendsFailOnlyWhenCancelled`, `CompletesOnce`, `CloseCovers`: what
  follows from it.
- `Drained`: the final status waits for the status manager.
- `StatusBacked`: `StatusIsBacked`. The status is made of counters that have
  travelled from the transfer through its part to the handler; the invariant
  (`BackedInv`) follows a failure or a skip along that way: an outcome is kept once
  a transfer has one (`OutcomeInv`), and a counter that is not zero, wherever it is,
  has such a transfer behind it (`CountsAreReal`).
- `Implements`: the job manager implements `JobCompletion`.
- `LastSummary`: `LastSummaryIsComplete`. What the status manager has taken in are the
  transfers that have reported and are not in `xferDone` any more, and its counters
  count them (`TakenInv`); without a cancellation no outcome is `"Cancelled"`
  (`UncancelledInv`), and it ends only when `xferDone` is closed and drained, which
  by `IndInv` is after every transfer has reported.

`Transfer_proofs`, for any number of transfers and chunks, any destinations, workers
and capacities:

- `TransferInductive`: `TransferIndInv`. The number of chunks done is the number of
  chunk funcs that have counted themselves, and the epilogue starts when that is all
  of them (`EpilogueAfterChunks`), which makes it run once; chunks are scheduled in
  order and only past the early returns (`ScheduledInOrder`), so a transfer that
  reports early has none; it holds its destination, alone, from locking to unlocking
  (`HeldAlone`); blocks are those of block lists (`BlocksOfLists`).
- `ReportedOnce`: `ReportedOnceAtTheEnd`.
- `Undisturbed`: `BlocksUndisturbed`. Whoever removes blocks at a destination holds
  it, and `HeldAlone` makes that the transfer itself.
- `OutcomesTrue`: `OutcomesAreTrue`. The invariant (`OutcomesInv`) follows a
  transfer through everything that can happen to it. A chunk func that has cancelled
  its transfer goes on to store the failure and the epilogue waits for it, so that a
  transfer of a job nobody cancels never ends as cancelled (`FailureInv`); while
  reading goes well the chunks up to the one at hand are hashed, and an error
  cancels (`HashInv`); what a transfer that is not cancelled has put is at the
  service, as blocks until they are committed (`LandedInv`); and the bytes in active
  files are those of a set of chunks, of which a transfer takes exactly its own off
  at the end (`BytesOf`).
- `ListsSurvive`: `BlockListsSurvive`. Only a transfer that is not cancelled commits,
  with all its chunks put, by `LandedInv`, and with its blocks still there, by
  `HeldAlone`; and a clean-up deletes only where there are no committed blocks. A blob
  that was put whole has none: section 6.

`Pool_proofs`:

- `PoolCounted`: `PoolIsCounted`, for any sizes of the pool and number of chunks,
  assuming `Patience` (the timers are longer than the start or the exit of a worker;
  without it the bound on the pool fails). `Counted` alone is not inductive: what
  the sizer does next depends on why it waits. `Waiting` says so (somebody is about
  to enter or to leave, or nothing is to be done), `Starting` and `Leaving` that
  there is one of them at a time, apart from the one that a request to tune slowly
  starts too early. `TunerInv` keeps the recommendation in range: a probe remembers
  what it was raised from (`Raising`), so that backing off, which divides by what was
  multiplied and rounds both times, returns there and not below the initial pool. The
  rounded division undoes the multiplication up to some thousands of connections,
  hence the 3000 of `getMainPoolSize` in `PoolSizesAssumption`.
- `SlowNotMissed`: `SlowIsNotMissed`, for any window. The channel holds the last
  samples (`CpuInv`), as many as the window and one more for each slow one that came
  since it was full; what is counted are the slow ones among them, hence those of the
  last `WindowSize` too.

`JobResume_proofs`, for any parts, transfers and number of lives:

- `PlanIsTruthful`: `PlanTellsTheTruth`. The invariant says what the memory of a
  life knows of the files: only a life that orders or runs the job moves transfers
  (`Idle`), parts are ordered from the first on (`Ordered`), a transfer's place in
  memory goes with its status in the plan (`Told`), the handler's counters are exact
  until the job is completed (`Exact`), a transfer is cancelled only if the job was
  (`Uncancelled`), and a status that is final otherwise leaves nothing pending
  (`AtRest`), also for the next life, which starts from the files.
- `SuccessNotRepeated`: `SuccessIsNotRepeated`, from the same invariant.
- `PlanReadsBack`: `ReadBack` of `PlanFile`, for any lengths, number of strings and of
  transfers. No conversion to int16 has changed the length of a string of an entry
  that was written (`EntriesInv`), but the sum of a transfer's lengths may have been;
  the sanity check stops the process then, though only before a transfer's first
  string: within a transfer the file ends where the string before ends (`EndInv`), and
  what is written stays where its entry says (`PlacedInv`). The sums are a recursive
  function; that it has its values (`SumsExist`) is shown with a least counterexample
  (`HasLeast`).

`TaskRunner_proofs`, for any finite set of records (`TaskAssumption`):

- `ResultIsRight`: `ResultAddsUp`. The files of the result are partitioned into those
  skipped at load, counted by the status manager, and failed by subtraction; `Told`
  and `Sent` say which records the events and the transfers are about, so that the
  differences are not negative.
- `OnlyGoneIsDeleted`: `DeletedOnlyWhenGone`. Only records found missing (`Missing`)
  are listed for a deletion.
- `AnswersFit`: `AnswersFitTheirQuestions`, for any transfers that ask. Only the holder
  of the lock asks (`OneAsks`), and each line that is not marked as late was read while
  the question now shown was shown (`LinesAreTimely`), also the one that the watcher has
  read and not yet handed over. A polite user has one line on its way at most, typed for
  what is shown (`OneLine`).

`Enumeration_proofs`, for any names, versions and size of parts (`EnumAssumption`):

- `SyncIsTrue`: `SuccessIsInSync`. Its invariant says where each object is while it
  is not at the destination: no object of the source gets lost between the
  traversals, the index, the part being filled, the parts ordered and the failures
  (`SourceInv`), and no extra one either (`ExtrasInv`), because of what the index
  holds at each moment (`IndexInv`, `MetInv`, `OrderedInv`).
- `NothingSeenIsDeleted`: `SeenIsNotDeleted`, from `MetInv` and `IndexInv`.
- `PartsWhole`: `PartsAreWhole`, from `PartsInv`.
- `CarriedOut` and `AreApart`: `CommandsAreCarriedOut` and `TransfersAreApart` of
  `CopyCommand`. `CommandInv` says that all that is ordered comes from objects the
  source yields and the folder property option lets through; the path made for the
  source, with its container before it when there are several, tells these objects
  apart (`PathsTellApart`).
- `CrawlImplements`: `ImplementsScan`: the crawl, the pool that transforms and their
  caller implement `Scan`. In `CrawlInv`, an entry is in one place at a time: below a
  directory that no worker has taken, in the hands of one worker (`WorkersApart`,
  `WorkersOwn`), in a channel, with the second pool, or passed on (`PassedOnce`).
  Whatever is nowhere was skipped with a late batch or is covered by an error, reported
  or about to be (`NothingLost`). Who leaves knows that nothing more
  will come (`GoneInv`), though workers leave one by one, and an error has something
  bad behind it (`FaultInv`). That the directories taken by two workers lead to
  different entries comes from the shape of the tree (`BelowParts`).
- `LocalWalkIsWhole`: `WalkIsWhole` of `LocalWalk`, for any tree of folders and any
  links. The name under which a directory is queued has not been the beginning of a
  name (`ItemsInv`), and a name has one last link in it (`NamesInv`, `BaseIsUnique`), so
  none comes twice. A folder, or a file by itself, is handed over again only if what
  came before was found from a start that was named through a link (`OnceInv`). What
  was ever begun is handed over, rejected, still to come or below a queued directory
  (`WholeInv`); when nothing is left, what was handled is closed under links and hence
  all that is to be found.

`Download_proofs`, for any files, chunks, limits of RAM and order of arrival:

- `DownloadIsWhole`: `DownloadedWhole`. For each file: chunks counted are done
  (`ChunksInv`); the writer gets each chunk once, has it in its queue or its
  unsaved chunks, and saves in order, so that what it has written is the chunks
  before the next to save (`QueueInv`); a writer that nobody cancels keeps all it
  got, and one that ends well has everything behind it (`WriterInv`); the file under
  the final name, or under the temporary one when the log says so, is what was written
  (`DiskInv`). `RamInv`: the limiter has what the
  chunks in flight reserved, file by file and in all, until somebody is cancelled.

`RemoteSenders_proofs`, for any kind of destination, source and number of tries:

- `SentWholeOrGone`: `AllOrNothing`. The service's answers are lost or late, so the
  invariant speaks of what is at the destination and not of what was answered: in an
  append blob a prefix of the source at least as long as the chunks reported, since a
  block is only accepted at its offset; elsewhere each reported chunk in its place,
  and zeros where there is neither a chunk nor old data (`ArrivingInv`), which is what
  makes skipping zeros right (`NothingSent`). New content is only at a destination
  marked as modified, hence the clean-up finds it (`MarkedInv`), and the epilogue
  begins when no chunk is on its way (`TurnsInv`).
- `Honours`: `CreationsAreHonoured`, for any folders, parts, crashes and order of
  creations. A folder is registered exactly while its transfer is between scheduling and
  end (`Registered`); a creation that counts is in memory or in the plan, unless it was
  lost in a crash, the destination is reached with a SAS, or its place in the plan is
  that of an ended transfer (`Honoured`); only what was not there before is recorded
  (`OnlyOwn`), since a folder is recorded by the transfer that saw it missing, but what
  is recorded counts for every folder of the same index.

The assumptions are those the modules name: `TransfersShape` (a transfer has a
destination and at least one chunk), `JobShape` (how `addTransfer` and
`dispatchFinalPart` cut parts, which `PartsWhole` proves: only a sole part can be
empty), the outcomes and requests the code has, finite sets of transfers and
records, positive capacities and sizes, a folder structure that is a tree
(`TreeShape`), crawled by at least one worker (`Crews`), a local tree whose paths
lead through folders (`LocalWalkAssumption`), one transfer at most per folder
and per index of a part, later parts after full ones (`CreationAssumption`), lengths
that are natural numbers (`PlanAssumption`), and 3000 connections at most in a pool
that is tuned.

Every safety property that a passing run checks is thus a theorem (`LastSummaryCovers` of
`ends` is `LastSummaryIsComplete` of `JobSummary`, for its part of the run). Only
model-checked: all liveness (fairness and ENABLED are out of the prover's reach).

## 6. Findings

Each has a run whose counterexample shows it.

- `CompletedIsFinal`: cancelling races completing, and a completed job becomes
  `Cancelling` for ever.
- `TransfersEnd` (`prefetch_wait_ends`): the prefix of every chunk func returns
  without closing the prefetched reader when the transfer has been cancelled, so
  one failing chunk leaves the RAM of others counted for ever, and another
  transfer can wait for it. (`ends` has RAM for all chunks.)
- `OnlyReplacedWhole` (`old_blob_survives`): the clean-up of a cancelled upload deletes
  a destination that has uncommitted blocks and no committed ones
  (`ste/sender-blockBlob.go:262`); an older blob that was made by one Put Blob has no
  committed blocks, so it goes too. `BlockListsSurvive` is what is left of the promise.
- `OldFoldersKeepProperties` (`old_folders_keep`): the one tracker of a job looks up the
  index of a folder's transfer in the plan of the first part, whatever part it is in, so
  creating one folder can open the properties of another, which is older than the job.
  (`OnlySharersLoseTheirs`, a part of `CreationsAreHonoured`, says that nothing else can.)
- `OnlyExtrasAreDeleted`: a sync deletes the copy of a file it could not read.
- `GoodFilesAreRead`: goroutines share the variable of an error.
- `SingleFilesKeepTheirName`: a single file copied into a folder is sent to the
  folder's own path, as `cmd/copyEnumeratorInit.go:285` computes the destination with
  the rules of sources.
- `HalfMadeIsRemoved`: an append or page blob whose creation was answered with an
  error is left half made.

Further observations met while modelling, which no run of their own shows. The job
manager:

- an empty job has an empty part 0, which is completed at once; the error that
  stands for "nothing scheduled" is never produced, so "already in sync" is not
  said;
- a part ordered after a cancelled job was completed makes its transfers send on a
  closed channel; a request for a summary can send on `listReq` just closed;
- a transfer counts as done before it counts as failed, so a job with a failed
  transfer can be `Completed`; a summary can say done with counts from before.

Pool, tuner, CPU monitor, pacer:

- the tuner reports "hit maximum" though it has backed off; a request for slow
  tuning is lost when the sizer is not at its select, and the pool may exceed its
  maximum by one;
- the CPU monitor keeps each slow sample that finds its window full, so that it counts
  more than the "last windowSize intervals" of its comment (`common/cpuMonitor.go:111`),
  and stops for good once a hundred samples fill its window channel (its comment says
  "It runs forever"); `SlowIsNotMissed` states what it does count;
- `jobsAdmin/JobsAdmin.go:126` sets up the pacer with no expected size of requests,
  though copies between services ask for whole chunks: with a low `--cap-mbps` such
  a request waits for ever, though `ste/pacer-tokenBucketPacer.go:34` says that the
  caller is allowed to proceed; `PacedRequestsEnd` excludes such a request by name
  (`TooLarge`), and fails without that exclusion;
- the automatic pacer of page blobs resets the tuned rate every 20 seconds
  (`ste/pacer-tokenBucketPacer.go:161`), and `UndoRequest` returns tokens an unpaced
  request never took.

Transfers:

- creating a folder and recording it are two steps, and a Data Lake folder is
  recorded under its URL with the SAS, where nobody looks for it; a record in memory is
  lost in a crash during the traversal, which `ste/folderCreationTracker.go:92` takes to
  be harmless (`CreationsAreHonoured` excludes both by name);
- a download whose renaming fails is a success with its content under the temporary
  name, and one that failed keeps a part of it if the deletion fails; both are logged
  only;
- an empty folder stays if its deletion, or that of the last folder in it, ends with an
  error: it is tried again only when another child goes;
- a download can give back RAM twice after a cancellation, leaves a file of the
  wrong length under its final name, and can reach its panic "reached branch where
  jptm is assumed to be live";
- the clean-up of Azure files and Data Lake files deletes an older file they never
  touched when their prologue fails early; `PutSDDL` changes an LRU cache under a
  read lock;
- a sum of lengths that overflows 16 bits is caught by the sanity check of `Create`.

Resume:

- a plan cut short by a crash may be resumed; the count of pending transfers can go
  below zero (`cmd/jobsResume.go:138`); a job with status `Failed` is refused by
  `ResumeJobOrder` (the comment at `jobsAdmin/init.go:387` speaks of all failed
  ones).

Tasks and console:

- every error of a processor is dropped (`getProcessingError`,
  `cmd/zc_enumerator.go:757`), so a part that could not be sent may be missing
  without a word;
- a task whose scan ends with an error of 37 to 99 characters cuts it at 100 and panics
  (`cmd/zc_traverser_list.go:88`), and the listing loop of a Google bucket that cannot be
  listed spins: no result is sent. Both are in the run, and `TaskEnds` excludes just these
  two;
- an error of the probe leaves a record out of the number of files; completeness is
  forced to true; results are sent synchronously and an error of sending is lost.
  `common/lifecyleMgr.go:1167` takes "authorization failure" for absence, but for a Google
  source, which is what is modelled, `isSingleGCSObjectForDelSrc` never answers that;
- a line gets its time when `watchInputs` reads it, not when it is typed
  (`common/lifecyleMgr.go:2610`), and the watcher waits for room in `cancelChannel` (2621)
  and for the handler of a request (2641): a line typed before a question, but read after
  it is shown, answers it, though the comment at 2652 says "only user input after the
  specified time is returned to make sure that we are getting the right answer to our
  question". For a user who is not polite, `AnswersFitTheirQuestions` promises the time of
  reading only;
- a line typed too early can use up an answer; "cancel" while a question is open is
  taken as its answer; the third quick cancel blocks the reader; with quiet output
  questions are never answered; one refused performance message makes all later ones
  fail (`jobsAdmin/JobsAdmin.go:612`).

Walks:

- a batch of a directory that came late is asked for again from a handle that has moved
  on (`common/parallel/dirReader.go:93`), so its names are skipped without a word:
  `ImplementsScan` excuses these entries (`skipped`), and fails without that; where the path of the source itself
  goes through a link, things below are found twice if a link leads back; a link to
  a file in a folder walked twice is handed over twice.

The copy command:

- as both paths are source paths, `--as-subdir` (`cmd/copy.go:1955`) has no effect,
  all versions of a `--list-of-versions` go to one name, a container copied to an
  account loses its name, resolved bucket names are created and not used, and what is
  downloaded keeps the escaping of URLs;
- `--include-directory-stub` (`cmd/copy.go:1976`) makes downloads from blobs order
  folders, which the downloader cannot take;
- `PipeFile`, if asked for, passes `cook` and panics in `GetResourceRoot`;
  `FilePipe` is refused by the dispatch; `BenchmarkBlobFS` cannot be inferred;
- the check of `--blob-tags` refuses `BlobFSNone` only (`cmd/copy.go:570`); those of
  the service-to-service options come before the options are set;
- a direction that is asked for is not compared with the arguments;
  `SplitResourceString` drops its error; the test for a trailing wildcard of a local
  source reads `IsLocal && a || b || c`.

Credentials (read, not modelled):

- `GetTokenInfo` answers with the token it first found for the life of the process,
  also when the refresh callbacks ask; an error of the automatic login is reported
  to the first caller only; the token in the environment is erased when read, so a
  failed refresh loses it.

## 7. Not modelled

- Clients of services: `azbfs`, `dbmgr`, `azblobmgr`, the REST calls of the senders;
  what they answer is a choice of the models above. Generated code.
- Parsing and formatting: SDDL, the syntax of URLs, paths and flags, help, output.
- Credentials and their caches: input and output of platform stores.
- The list, environment and login commands, copying through a pipe; the automatic
  pacer of page blobs, the slice pool, the performance advisor, logging.
- Tests and fixtures (`e2etest/`, `testSuite/`), which are a sixth of the Go code.

The map covers the control of the engine and the commands; what it leaves out is
chiefly this list, with the getters, builders of requests and platform variants of
the files it does cover.
