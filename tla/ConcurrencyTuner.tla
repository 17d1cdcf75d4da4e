-------------------------- MODULE ConcurrencyTuner --------------------------
(***************************************************************************)
(* ste/concurrencyTuner.go: the goroutine that looks for the number of     *)
(* connections beyond which more of them bring no more throughput.  Its    *)
(* caller (the pool sizer) hands it one observed speed at a time and gets  *)
(* one recommendation back; the two unbuffered channels make that pair one *)
(* rendezvous, so one observation is one step here.                        *)
(*                                                                         *)
(* The speeds themselves are left out: "the increase paid off" is the      *)
(* outcome of comparing two of them, and either outcome is possible.       *)
(* float32 is a number of ten-thousandths, rounded.                        *)
(***************************************************************************)
EXTENDS Integers

CONSTANTS InitialPool,    \* ConcurrencySettings.InitialMainPoolSize
          MaxPool,        \* ConcurrencySettings.MaxMainPoolSize
          Benchmarking,   \* retries seen while benchmarking forbid to back off
          CallbackCap,    \* the capacity of callbacksWhenStable (1000)
          MaxSubscribers  \* bound: callbacks ever registered

(* A pool that is tuned may grow to 3000 connections (getMainPoolSize);    *)
(* one that is not has a fixed size, which the user may choose.            *)
ASSUME PoolSizesAssumption ==
    /\ InitialPool \in Nat \ {0} /\ MaxPool \in Nat /\ InitialPool <= MaxPool
    /\ MaxPool > InitialPool => MaxPool <= 3000
    /\ Benchmarking \in BOOLEAN /\ CallbackCap \in Nat /\ MaxSubscribers \in Nat

VARIABLES tuner,   \* the locals of worker(), between two observations
          final,   \* finalReason and finalConcurrency, once stored
          subs     \* who asked to be called when the tuner is stable

tunerVars == <<tuner, final, subs>>

Unit == 10000
Times(x, y) == (x * y + Unit \div 2) \div Unit
Over(x, y) == (x * Unit + y \div 2) \div y
Truncated(x) == x \div Unit

StandardMultiplier == 2 * Unit
BoostedMultiplier == 2 * StandardMultiplier
TopOfBoostZone == 256 * Unit
MinMultiplier == 11900
SlowdownFactor == 5

AutoTune == MaxPool > InitialPool

TunerInit ==
    /\ tuner = [at |-> IF AutoTune THEN "baseline" ELSE "disabled",
                conc |-> InitialPool * Unit, mult |-> BoostedMultiplier,
                cuts |-> 0, atMax |-> FALSE, cpuSeen |-> FALSE, reason |-> "none"]
    /\ final = [reason |-> IF AutoTune THEN "none" ELSE "disabled",
                value |-> IF AutoTune THEN 0 ELSE InitialPool]
    /\ subs = [waiting |-> 0, called |-> 0, refused |-> 0]

(* The value the tuner last recommended; a NullConcurrencyTuner and the    *)
(* first call (currentMbps < 0) give the initial one.                      *)
Recommended == Truncated(tuner.conc)

(***************************************************************************)
(* The head of the loop: raise the concurrency, to the maximum if the next *)
(* step would go beyond it.                                                *)
(***************************************************************************)
Raised(t) ==
    LET wanted == IF t.conc >= TopOfBoostZone /\ t.mult > StandardMultiplier
                  THEN StandardMultiplier ELSE t.mult
        atMax == Times(t.conc, wanted) > MaxPool * Unit
        mult == IF atMax THEN Over(MaxPool * Unit, t.conc) ELSE wanted
    IN  [t EXCEPT !.at = "probing", !.mult = mult, !.atMax = atMax,
                  !.conc = Times(@, mult),
                  !.reason = IF atMax THEN "hit max" ELSE "seeking"]

(* The multiplier after a step that did not pay off: at most twice it is   *)
(* bumped up until it changes the number of connections.                   *)
Reduced(mult, conc, cuts) ==
    LET less == IF mult > StandardMultiplier THEN StandardMultiplier
                ELSE Unit + (mult - Unit) \div SlowdownFactor
        moves(k) == Truncated(Times(less + 500 * k, conc)) # Truncated(conc)
    IN  IF cuts <= 2
        THEN less + 500 * (CHOOSE k \in 0..20 : moves(k) /\ \A j \in 0..(k-1) : ~moves(j))
        ELSE less

BackedOff(t) ==
    LET conc == Over(t.conc, t.mult)
        cuts == t.cuts + 1
    IN  [t EXCEPT !.at = "backed off", !.conc = conc, !.cuts = cuts,
                  !.mult = Reduced(t.mult, conc, cuts)]

(* storeFinalState and signalStability: from here on the value is inactive. *)
Finish(t) ==
    /\ tuner' = [t EXCEPT !.at = "finished"]
    /\ final' = [reason |-> t.reason, value |-> Truncated(t.conc)]
    /\ subs' = [subs EXCEPT !.waiting = 0, !.called = @ + subs.waiting]

GoOn(t) == tuner' = t /\ UNCHANGED <<final, subs>>

(* After the loop: at the maximum there is nothing more to tell the caller, *)
(* otherwise the optimum is recommended once more, with its reason.        *)
Leave(t) ==
    IF t.atMax THEN Finish(t)
    ELSE GoOn([t EXCEPT !.at = "settled",
                        !.reason = IF t.cpuSeen THEN "high cpu" ELSE "at optimum"])

(***************************************************************************)
(* GetRecommendedConcurrency: one observed speed, which either paid off or *)
(* not, with or without contention for the CPU and retries.                *)
(***************************************************************************)
Observe(paidOff, highCpu, retried) ==
    LET t == [tuner EXCEPT !.cpuSeen = @ \/ (highCpu /\ tuner.at = "probing")]
        stayAnyway == Benchmarking /\ retried /\ t.conc <= TopOfBoostZone
    IN  \/ tuner.at \in {"baseline", "backed off"} /\ GoOn(Raised(t))
        \/ /\ tuner.at = "probing" /\ paidOff
           /\ IF t.atMax THEN Leave(t) ELSE GoOn(Raised(t))
        \/ /\ tuner.at = "probing" /\ ~paidOff /\ stayAnyway
           /\ Leave(t)
        \/ /\ tuner.at = "probing" /\ ~paidOff /\ ~stayAnyway
           /\ LET b == BackedOff(t)
              IN  IF b.mult < MinMultiplier THEN Leave(b)
                  ELSE GoOn([b EXCEPT !.reason = "backing off"])
        \/ tuner.at = "settled" /\ Finish(t)
        \/ /\ tuner.at = "finished" \* a newly subscribed callback is called
           /\ subs' = [subs EXCEPT !.waiting = 0, !.called = @ + subs.waiting]
           /\ UNCHANGED <<tuner, final>>
        \/ tuner.at = "disabled" /\ UNCHANGED tunerVars

(***************************************************************************)
(* RequestCallbackWhenStable, as newPipelineNetworkStats calls it: a       *)
(* refused subscriber takes the tuner to be inactive and starts by itself. *)
(***************************************************************************)
Subscribe ==
    /\ subs.waiting + subs.called + subs.refused < MaxSubscribers
    /\ subs' = IF tuner.at # "disabled" /\ subs.waiting < CallbackCap
               THEN [subs EXCEPT !.waiting = @ + 1]
               ELSE [subs EXCEPT !.refused = @ + 1]
    /\ UNCHANGED <<tuner, final>>

TunerTypeOK ==
    /\ tuner \in [at : {"baseline", "probing", "backed off", "settled", "finished", "disabled"},
                  conc : Nat, mult : Nat, cuts : Nat, atMax : BOOLEAN, cpuSeen : BOOLEAN,
                  reason : {"none", "seeking", "hit max", "backing off", "at optimum", "high cpu"}]
    /\ final \in [reason : {"none", "disabled", "hit max", "at optimum", "high cpu"}, value : Nat]
    /\ subs \in [waiting : Nat, called : Nat, refused : Nat]

(***************************************************************************)
(* However the rises and falls are mixed and rounded, no recommendation    *)
(* leaves the interval the settings allow (worker, "enforce a ceiling" and *)
(* the division that backs off).                                           *)
(***************************************************************************)
RecommendedInRange == Recommended \in InitialPool..MaxPool

(***************************************************************************)
(* The statistics start only when the throughput is one the job will keep: *)
(* nobody is called back before the final value is stored, and the stored  *)
(* value is the one recommended ever after.                                *)
(***************************************************************************)
StableWhenCalled ==
    subs.called > 0 => /\ tuner.at = "finished"
                       /\ final.value = Recommended

=============================================================================
