----------------------------- MODULE WorkerPool -----------------------------
(***************************************************************************)
(* The main pool of a job (ste/mgr-JobMgr.go): poolSizer drives the number *)
(* of chunkProcessor goroutines towards the number the tuner recommends,   *)
(* one start or one scale-back at a time, and winds the pool down when the *)
(* job is cleaned up.  All of its channels but done are unbuffered, so     *)
(* every send below is a rendezvous of two goroutines.                     *)
(*                                                                         *)
(* Workers are interchangeable and counted by where they stand.  One job,  *)
(* one queue of chunks (the priorities are left out), at most MaxChunks    *)
(* chunks.  With Patience the four seconds of the monitoring timer and the *)
(* minute before the clean-up are longer than the start or the exit of a   *)
(* worker; without it they may elapse at any moment.                       *)
(***************************************************************************)
EXTENDS ConcurrencyTuner

CONSTANTS MaxChunks,   \* bound: chunks the job's transfers schedule
          MaxSlowTune, \* bound: parts added while the job runs, each a request to tune slowly
          Patience

ASSUME PoolBoundsAssumption ==
    MaxChunks \in Nat /\ MaxSlowTune \in Nat /\ Patience \in BOOLEAN

VARIABLES sizer,   \* the goroutine poolSizer and its locals
          pool,    \* how many workers are where
          chunks,  \* how many chunks are to come, queued and executed
          slowTune,\* requests made (RequestTuneSlowly), and whether one was heard
          closing  \* where the clean-up of the job stands

poolVars == <<sizer, pool, chunks, slowTune, closing, tunerVars>>

Workers == pool.starting + pool.looping + pool.busy + pool.leaving

PoolInit ==
    /\ TunerInit
    /\ sizer = [pc |-> "off", target |-> 0, actual |-> 0, stable |-> FALSE, listening |-> TRUE]
    /\ pool = [starting |-> 0, looping |-> 0, busy |-> 0, leaving |-> 0]
    /\ chunks = [ahead |-> MaxChunks, queued |-> 0, done |-> 0]
    /\ slowTune = [asked |-> 0, heard |-> FALSE]
    /\ closing = "no"

(***************************************************************************)
(* The head of poolSizer's loop, entered with the locals s and the pool p: *)
(* start a worker, block on offering a scale-back, or leave; then select.  *)
(***************************************************************************)
Loop(s, p) ==
    \/ /\ s.actual < s.target
       /\ sizer' = [s EXCEPT !.pc = "select", !.stable = FALSE]
       /\ pool' = [p EXCEPT !.starting = @ + 1]
    \/ /\ s.actual > s.target
       /\ sizer' = [s EXCEPT !.pc = "offering", !.stable = FALSE]
       /\ pool' = p
    \/ /\ s.actual = s.target
       /\ sizer' = [s EXCEPT !.pc = IF s.actual = 0 THEN "gone" ELSE "select"]
       /\ pool' = p

(* scheduleJobParts takes the first part: the sizer starts.                *)
StartSizer ==
    /\ sizer.pc = "off" /\ closing = "no"
    /\ Loop([sizer EXCEPT !.target = InitialPool], pool)
    /\ UNCHANGED <<chunks, slowTune, closing, tunerVars>>

(* The first line of chunkProcessor meets the sizer's select.              *)
WorkerEnters ==
    /\ sizer.pc = "select" /\ pool.starting > 0
    /\ Loop([sizer EXCEPT !.actual = @ + 1],
            [pool EXCEPT !.starting = @ - 1, !.looping = @ + 1])
    /\ UNCHANGED <<chunks, slowTune, closing, tunerVars>>

\* Mutant: a worker that leaves is not counted off.
WorkerExitsUncounted ==
    /\ sizer.pc = "select" /\ pool.leaving > 0
    /\ Loop(sizer, [pool EXCEPT !.leaving = @ - 1])
    /\ UNCHANGED <<chunks, slowTune, closing, tunerVars>>

(* The deferred send of chunkProcessor meets the sizer's select.           *)
WorkerExits ==
    /\ sizer.pc = "select" /\ pool.leaving > 0
    /\ Loop([sizer EXCEPT !.actual = @ - 1], [pool EXCEPT !.leaving = @ - 1])
    /\ UNCHANGED <<chunks, slowTune, closing, tunerVars>>

(* The offered scale-back is taken by a worker between two chunks.         *)
TakeScaleback ==
    /\ sizer.pc = "offering" /\ pool.looping > 0
    /\ sizer' = [sizer EXCEPT !.pc = "select"]
    /\ pool' = [pool EXCEPT !.looping = @ - 1, !.leaving = @ + 1]
    /\ UNCHANGED <<chunks, slowTune, closing, tunerVars>>

StartChunk ==
    /\ pool.looping > 0 /\ chunks.queued > 0
    /\ pool' = [pool EXCEPT !.looping = @ - 1, !.busy = @ + 1]
    /\ chunks' = [chunks EXCEPT !.queued = @ - 1]
    /\ UNCHANGED <<sizer, slowTune, closing, tunerVars>>

\* Mutant: chunkProcessor handles one chunk only.
FinishChunkAndReturn ==
    /\ pool.busy > 0
    /\ pool' = [pool EXCEPT !.busy = @ - 1]
    /\ chunks' = [chunks EXCEPT !.done = @ + 1]
    /\ UNCHANGED <<sizer, slowTune, closing, tunerVars>>

FinishChunk ==
    /\ pool.busy > 0
    /\ pool' = [pool EXCEPT !.busy = @ - 1, !.looping = @ + 1]
    /\ chunks' = [chunks EXCEPT !.done = @ + 1]
    /\ UNCHANGED <<sizer, slowTune, closing, tunerVars>>

(* ScheduleChunk, by the transfers of a part that has been scheduled.      *)
ScheduleChunk ==
    /\ sizer.pc # "off" /\ chunks.ahead > 0
    /\ chunks' = [chunks EXCEPT !.ahead = @ - 1, !.queued = @ + 1]
    /\ UNCHANGED <<sizer, pool, slowTune, closing, tunerVars>>

(***************************************************************************)
(* RequestTuneSlowly never waits: it is heard only by a sizer that stands  *)
(* at its select and has not heard one before (slowTuneCh = nil).  Being   *)
(* heard is one more turn of the sizer's loop.                             *)
(***************************************************************************)
RequestTuneSlowly ==
    /\ slowTune.asked < MaxSlowTune
    /\ closing = "no"
    /\ LET heard == sizer.pc = "select" /\ sizer.listening
       IN  /\ slowTune' = [asked |-> slowTune.asked + 1, heard |-> slowTune.heard \/ heard]
           /\ IF heard THEN Loop([sizer EXCEPT !.listening = FALSE], pool)
              ELSE UNCHANGED <<sizer, pool>>
    /\ UNCHANGED <<chunks, closing, tunerVars>>

Calm == sizer.pc = "select" /\ pool.starting = 0 /\ pool.leaving = 0

(***************************************************************************)
(* The monitoring interval elapses.  Off target it only starts another     *)
(* turn; on target the first interval makes the pool stable and the next   *)
(* ones hand the tuner the speed measured.                                 *)
(***************************************************************************)
Tick ==
    /\ sizer.pc = "select"
    /\ Patience => Calm /\ closing # "signalled"
    /\ \/ /\ sizer.target # 0 /\ sizer.actual = sizer.target /\ sizer.stable
          /\ \E paidOff, highCpu, retried \in BOOLEAN : Observe(paidOff, highCpu, retried)
          /\ Loop([sizer EXCEPT !.target = Recommended'], pool)
       \/ /\ sizer.target # 0 /\ sizer.actual = sizer.target /\ ~sizer.stable
          /\ Loop([sizer EXCEPT !.stable = TRUE], pool)
          /\ UNCHANGED tunerVars
       \/ /\ ~(sizer.target # 0 /\ sizer.actual = sizer.target)
          /\ Loop(sizer, pool)
          /\ UNCHANGED tunerVars
    /\ UNCHANGED <<chunks, slowTune, closing>>

(***************************************************************************)
(* DeferredCleanupJobMgr, a minute after the job completed: its clean-up   *)
(* tells scheduleJobParts to close, and that tells the sizer (done).       *)
(***************************************************************************)
CleanUp ==
    /\ closing = "no" /\ chunks.ahead = 0 /\ chunks.queued = 0
    /\ sizer.pc # "off"
    /\ Patience => Calm
    /\ closing' = "scheduler"
    /\ UNCHANGED <<sizer, pool, chunks, slowTune, tunerVars>>

SchedulerCloses ==
    /\ closing = "scheduler"
    /\ Patience => Calm
    /\ closing' = "signalled"
    /\ UNCHANGED <<sizer, pool, chunks, slowTune, tunerVars>>

SizerDone ==
    /\ sizer.pc = "select" /\ closing = "signalled"
    /\ closing' = "done"
    /\ Loop([sizer EXCEPT !.target = 0], pool)
    /\ UNCHANGED <<chunks, slowTune, tunerVars>>

PipelineSubscribes ==
    Subscribe /\ UNCHANGED <<sizer, pool, chunks, slowTune, closing>>

PoolNext ==
    \/ StartSizer \/ WorkerEnters \/ WorkerExits \/ TakeScaleback
    \/ StartChunk \/ FinishChunk \/ ScheduleChunk
    \/ RequestTuneSlowly \/ Tick \/ CleanUp \/ SchedulerCloses \/ SizerDone
    \/ PipelineSubscribes

PoolSpec == PoolInit /\ [][PoolNext]_poolVars

(***************************************************************************)
(* Every goroutine that can move does, the transfers schedule what they    *)
(* have, the monitoring interval elapses.  Nothing obliges a job to        *)
(* complete and be cleaned up (so that it may be tuned for as long as it    *)
(* takes), a part to ask for slow tuning or a pipeline to subscribe.       *)
(***************************************************************************)
PoolFairness ==
    /\ WF_poolVars(StartSizer)
    /\ WF_poolVars(WorkerEnters)
    /\ WF_poolVars(WorkerExits)
    /\ WF_poolVars(TakeScaleback)
    /\ WF_poolVars(StartChunk)
    /\ WF_poolVars(FinishChunk)
    /\ WF_poolVars(ScheduleChunk)
    /\ WF_poolVars(Tick)
    /\ WF_poolVars(SchedulerCloses)
    /\ WF_poolVars(SizerDone)

PoolFairSpec == PoolSpec /\ PoolFairness

-----------------------------------------------------------------------------
PoolTypeOK ==
    /\ TunerTypeOK
    /\ sizer \in [pc : {"off", "select", "offering", "gone"}, target : Nat, actual : Nat,
                  stable : BOOLEAN, listening : BOOLEAN]
    /\ pool \in [starting : Nat, looping : Nat, busy : Nat, leaving : Nat]
    /\ chunks \in [ahead : Nat, queued : Nat, done : Nat]
    /\ slowTune \in [asked : Nat, heard : BOOLEAN]
    /\ closing \in {"no", "scheduler", "signalled", "done"}

(***************************************************************************)
(* CurrentMainPoolSize counts exactly the workers that have said they      *)
(* started and not yet that they left, whatever the select picks first; a  *)
(* sizer that is gone left nobody behind, not even a worker still waiting  *)
(* to say it started.  The pool never outgrows the configured maximum, but *)
(* for the one worker that a request to tune slowly can start too early    *)
(* (the sizer counts a worker only when it has entered, and that request   *)
(* makes it look again).  And who asked for a call when the throughput is  *)
(* stable is called only when the final value is the one recommended.      *)
(***************************************************************************)
PoolIsCounted ==
    /\ PoolTypeOK /\ RecommendedInRange /\ StableWhenCalled
    /\ sizer.actual = pool.looping + pool.busy + pool.leaving
    /\ sizer.pc = "gone" => Workers = 0
    /\ Workers <= MaxPool + (IF slowTune.heard THEN 1 ELSE 0)

(***************************************************************************)
(* The pool serves its job: all chunks of a job that is not cleaned up too *)
(* early are executed, the tuning ends while the job lives ("to make sure  *)
(* our algorithm terminates"), who asked for a call when stable gets it,   *)
(* and a job that is cleaned up leaves no sizer and no worker behind, for  *)
(* the process goes on to run other jobs.                                  *)
(***************************************************************************)
PoolServes ==
    /\ <>[](/\ chunks.done = MaxChunks
            /\ tuner.at \in {"finished", "disabled"} \/ closing # "no")
    /\ (subs.waiting > 0) ~> (subs.waiting = 0 \/ closing # "no")
    /\ (closing = "scheduler") ~> (sizer.pc = "gone" /\ Workers = 0)

=============================================================================
