----------------------------- MODULE CpuMonitor -----------------------------
(***************************************************************************)
(* common/cpuMonitor.go: one goroutine measures how late it wakes from a   *)
(* sleep, another keeps the recent samples in a channel and tells the      *)
(* tuner whether the CPU is contended.                                     *)
(***************************************************************************)
EXTENDS Integers, FiniteSets, Sequences

CONSTANTS WindowSize,   \* windowSize (15)
          WindowCap,    \* capacity of valuesInWindow (100)
          DurationsCap, \* capacity of durations (1000)
          MaxSamples    \* bound: the worker takes no more samples than this

ASSUME WindowAssumption ==
    /\ WindowSize \in Nat \ {0} /\ WindowCap \in Nat /\ WindowSize < WindowCap
    /\ DurationsCap \in Nat \ {0} /\ MaxSamples \in Nat

VARIABLES valuesInWindow, rollingCount, contention, durations,
          samples       \* history: all samples taken, is each slow?

cpuVars == <<valuesInWindow, rollingCount, contention, durations, samples>>

CpuInit ==
    /\ valuesInWindow = << >> /\ rollingCount = 0 /\ contention = FALSE /\ durations = 0
    /\ samples = << >>

(* monitoringWorker: one more measurement, if the channel has room.        *)
Probe ==
    /\ durations < DurationsCap
    /\ durations' = durations + 1
    /\ UNCHANGED <<valuesInWindow, rollingCount, contention, samples>>

\* Mutant: the window stays one short of its size.
IsFullEarly(window) == Len(window) >= WindowSize
IsOverfull(window) == Len(window) > WindowSize

(***************************************************************************)
(* One turn of computationWorker.  A slow sample is pushed and counted; a  *)
(* normal one is pushed and, beyond the window's size, pops the oldest.    *)
(* The push waits for room, which nobody else ever makes.                  *)
(***************************************************************************)
Compute(latestWasSlow) ==
    /\ durations > 0 /\ Len(valuesInWindow) < WindowCap /\ Len(samples) < MaxSamples
    /\ LET pushed == Append(valuesInWindow, latestWasSlow)
           pops == ~latestWasSlow /\ IsOverfull(pushed)
       IN  /\ valuesInWindow' = IF pops THEN Tail(pushed) ELSE pushed
           /\ rollingCount' = IF latestWasSlow THEN rollingCount + 1
                              ELSE IF pops /\ Head(pushed) THEN rollingCount - 1
                              ELSE rollingCount
    /\ durations' = durations - 1
    /\ contention' = (rollingCount' >= WindowSize \div 2)
    /\ samples' = Append(samples, latestWasSlow)

ComputeAny == \E slow \in BOOLEAN : Compute(slow)

CpuNext == Probe \/ ComputeAny

CpuSpec == CpuInit /\ [][CpuNext]_cpuVars

CpuTypeOK ==
    /\ valuesInWindow \in Seq(BOOLEAN) /\ Len(valuesInWindow) <= WindowCap
    /\ rollingCount \in Nat /\ contention \in BOOLEAN /\ durations \in 0..DurationsCap
    /\ samples \in Seq(BOOLEAN)

\* The slow ones among the last k samples.
SlowOfLast(k) == {i \in 1..Len(samples) : i > Len(samples) - k /\ samples[i]}

\* The slow ones that have come since the window was first full.
SlowSinceFull == {i \in 1..Len(samples) : i > WindowSize /\ samples[i]}

(***************************************************************************)
(* The comment over the window says "maintain count of slow ones in the    *)
(* last "windowSize" intervals"; but a slow sample pops none, so each one  *)
(* that comes when the window is full lengthens it for good, up to the     *)
(* capacity of the channel, where the worker waits for ever.  What is      *)
(* counted are the slow ones of that longer window; still contention is    *)
(* never missed: it is reported whenever half of the last WindowSize       *)
(* samples are slow.                                                       *)
(***************************************************************************)
SlowIsNotMissed ==
    /\ CpuTypeOK
    /\ Len(valuesInWindow) = (IF Len(samples) < WindowSize THEN Len(samples) ELSE WindowSize)
                                + Cardinality(SlowSinceFull)
    /\ rollingCount = Cardinality(SlowOfLast(Len(valuesInWindow)))
    /\ samples # << >> /\ Cardinality(SlowOfLast(WindowSize)) >= WindowSize \div 2 => contention

=============================================================================
