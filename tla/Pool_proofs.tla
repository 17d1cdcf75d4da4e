----------------------------- MODULE Pool_proofs -----------------------------
(***************************************************************************)
(* Proofs that the tuner recommends only what the settings allow, that the *)
(* pool sizer counts its workers and leaves none behind, and that the      *)
(* CPU monitor misses no contention.                                       *)
(***************************************************************************)
EXTENDS WorkerPool, CpuMonitor, WellFoundedInduction, FiniteSetTheorems, TLAPS

-----------------------------------------------------------------------------
(* The inductive invariant of the tuner: a step up is remembered exactly,  *)
(* in spite of the rounding, so that backing off undoes it.                *)

Least == InitialPool * Unit
Most == MaxPool * Unit

TunerStates ==
    [at : {"baseline", "probing", "backed off", "settled", "finished", "disabled"},
     conc : Nat, mult : Nat, cuts : Nat, atMax : BOOLEAN, cpuSeen : BOOLEAN,
     reason : {"none", "seeking", "hit max", "backing off", "at optimum", "high cpu"}]

(* What the loop may rely on wherever it goes on from.                     *)
Tuned(t) ==
    /\ t.mult >= Unit
    /\ t.conc >= Least /\ t.conc < Most + Unit
    /\ t.at = "probing" /\ t.atMax => t.reason = "hit max"

(* A probe remembers where it was raised from.                             *)
Raising(t) ==
    /\ \E c \in Least..Most : t.conc = Times(c, t.mult)
    /\ ~t.atMax => t.conc <= Most

TunerInv ==
    /\ TunerTypeOK
    /\ Tuned(tuner)
    /\ AutoTune \/ tuner.at = "disabled"
    /\ tuner.at \in {"baseline", "backed off"} => tuner.conc <= Most
    /\ tuner.at = "probing" => Raising(tuner)
    /\ tuner.at = "settled" => tuner.reason \in {"at optimum", "high cpu"}
    /\ tuner.at = "disabled" => subs.waiting = 0
    /\ tuner.at = "finished" => final.value = Recommended
    /\ subs.called > 0 => tuner.at = "finished"

(***************************************************************************)
(* The inductive invariant of the pool, when the timers are patient. A     *)
(* request to tune slowly, which is heard once, disturbs it by one worker. *)
(***************************************************************************)
Extra == IF slowTune.heard THEN 1 ELSE 0

Counted == sizer.actual = pool.looping + pool.busy + pool.leaving

(* Who is about to start or to leave is why the sizer waits at its select. *)
Waiting ==
    sizer.pc = "select" => /\ sizer.actual < sizer.target => pool.starting > 0
                           /\ sizer.actual > sizer.target => pool.leaving > 0
                           /\ sizer.actual = 0 => pool.starting > 0

Starting ==
    /\ pool.starting <= 1 + Extra
    /\ pool.starting > Extra => sizer.actual < sizer.target
    /\ pool.starting > 0 => sizer.actual <= sizer.target /\ pool.leaving = 0

Leaving ==
    /\ pool.leaving <= 1 + Extra
    /\ pool.leaving > 0 => pool.leaving <= sizer.actual - sizer.target + Extra
    /\ sizer.pc = "offering" => /\ sizer.actual > sizer.target
                                /\ pool.starting = 0 /\ pool.leaving <= Extra

Bounded ==
    /\ sizer.target <= MaxPool
    /\ Workers <= MaxPool + Extra

Phases ==
    /\ slowTune.heard = ~sizer.listening
    /\ sizer.pc = "off" => /\ closing = "no" /\ sizer.target = 0 /\ ~slowTune.heard
                           /\ pool = [starting |-> 0, looping |-> 0, busy |-> 0, leaving |-> 0]
    /\ sizer.target = 0 => sizer.pc = "off" \/ closing = "done"
    /\ closing = "signalled" => pool.starting = 0 /\ pool.leaving = 0 /\ sizer.pc = "select"
    /\ closing = "done" => sizer.target = 0
    /\ sizer.pc = "gone" => closing = "done" /\ Workers = 0

PoolInv ==
    PoolTypeOK /\ TunerInv /\ Counted /\ Waiting /\ Starting /\ Leaving /\ Bounded /\ Phases

-----------------------------------------------------------------------------
(* Rounded arithmetic.                                                     *)

LEMMA SumInNat ==
  ASSUME NEW x \in Nat, NEW y \in Nat
  PROVE  x + y \in Nat
  OBVIOUS

LEMMA DivBounds ==
  ASSUME NEW x \in Nat, NEW y \in Nat \ {0}
  PROVE  /\ x \div y \in Nat
         /\ (x \div y) * y <= x /\ x < (x \div y) * y + y
  BY SMTT(30)

Half == Unit \div 2
Ceiling == 3000

LEMMA TimesBounds ==
  ASSUME NEW c \in Nat, NEW m \in Nat
  PROVE  /\ Times(c, m) \in Nat
         /\ Times(c, m) * Unit <= c * m + Half
         /\ c * m + Half < Times(c, m) * Unit + Unit
<1>1. c * m \in Nat
  OBVIOUS
<1> DEFINE x == c * m + Half
<1>2. x \in Nat /\ Unit \in Nat \ {0} /\ Times(c, m) = x \div Unit
  BY <1>1 DEF Times, Unit, Half
<1> HIDE DEF x
<1>3. /\ x \div Unit \in Nat
      /\ (x \div Unit) * Unit <= x /\ x < (x \div Unit) * Unit + Unit
  BY <1>2, DivBounds
<1> QED BY <1>2, <1>3 DEF x

LEMMA OverBounds ==
  ASSUME NEW x \in Nat, NEW y \in Nat \ {0}
  PROVE  /\ Over(x, y) \in Nat
         /\ Over(x, y) * y <= x * Unit + y \div 2
         /\ x * Unit + y \div 2 < Over(x, y) * y + y
<1> DEFINE n == x * Unit + y \div 2
<1>1. n \in Nat /\ Over(x, y) = n \div y
  BY DEF Over, Unit
<1> HIDE DEF n
<1>2. n \div y \in Nat /\ (n \div y) * y <= n /\ n < (n \div y) * y + y
  BY <1>1, DivBounds
<1> QED BY <1>1, <1>2 DEF n

LEMMA TruncatedBounds ==
  ASSUME NEW x \in Nat
  PROVE  /\ Truncated(x) \in Nat
         /\ Truncated(x) * Unit <= x /\ x < Truncated(x) * Unit + Unit
  BY DEF Truncated, Unit

(* A step up that is divided out again leads back, whatever was rounded.   *)
LEMMA BackedOffExactly ==
  ASSUME NEW c \in Nat, NEW m \in Nat, m >= Unit
  PROVE  Over(Times(c, m), m) = c
<1> DEFINE t == Times(c, m)
           q == Over(t, m)
           h == m \div 2
<1>1. t \in Nat /\ t * Unit <= c * m + Half /\ c * m + Half < t * Unit + Unit
  BY TimesBounds, Zenon
<1>2. m \in Nat \ {0}
  BY DEF Unit
<1>3. q \in Nat /\ q * m <= t * Unit + h /\ t * Unit + h < q * m + m
  BY <1>1, <1>2, OverBounds
<1>4. h \in Nat /\ 2 * h <= m /\ m < 2 * h + 2 /\ h >= Half
  BY DEF Unit, Half
<1> HIDE DEF t, q, h
<1>5. ~(q < c)
  <2> SUFFICES ASSUME q < c PROVE FALSE
    OBVIOUS
  <2>1. (q + 1) * m <= c * m
    BY <1>3, <1>2
  <2>2. q * m + m = (q + 1) * m
    BY <1>3
  <2>3. c * m \in Nat /\ q * m \in Nat
    BY <1>3
  <2> QED BY <1>1, <1>3, <1>4, <2>1, <2>2, <2>3 DEF Unit, Half
<1>6. ~(q > c)
  <2> SUFFICES ASSUME q > c PROVE FALSE
    OBVIOUS
  <2>1. (c + 1) * m <= q * m /\ (c + 1) * m = c * m + m
    BY <1>3, <1>2
  <2>2. c * m \in Nat /\ q * m \in Nat
    BY <1>3
  <2>3. m = Unit
    BY <1>1, <1>3, <1>4, <2>1, <2>2 DEF Unit, Half
  <2>4. t = c
    BY <1>1, <2>3 DEF Unit, Half
  <2> QED BY <1>3, <1>4, <2>1, <2>3, <2>4 DEF Unit, Half
<1> QED BY <1>3, <1>5, <1>6 DEF q, t

LEMMA StepUp ==
  ASSUME NEW c \in Nat, NEW m \in Nat, m >= Unit
  PROVE  Times(c, m) >= c
<1>1. c * Unit <= c * m
  BY DEF Unit
<1>2. c * m \in Nat
  OBVIOUS
<1> DEFINE t == Times(c, m)
           p == c * m
<1>3. t \in Nat /\ p + Half < t * Unit + Unit
  BY TimesBounds, Zenon
<1>4. p \in Nat /\ c * Unit <= p
  BY <1>1, <1>2
<1> HIDE DEF t, p
<1>5. t >= c
  BY <1>3, <1>4 DEF Unit, Half
<1> QED BY <1>5 DEF t

(* The step to the maximum.                                                *)
LEMMA StepToMost ==
  ASSUME NEW M \in Nat, M <= Ceiling * Unit, NEW c \in Nat \ {0}, c <= M
  PROVE  Over(M, c) \in Nat /\ Over(M, c) >= Unit /\ Times(c, Over(M, c)) < M + Unit
<1> DEFINE m == Over(M, c)
           t == Times(c, m)
           h == c \div 2
<1>1. m \in Nat /\ m * c <= M * Unit + h /\ M * Unit + h < m * c + c
  BY OverBounds, Zenon
<1>2. c \in Nat
  OBVIOUS
<1>3. t * Unit <= c * m + Half /\ t \in Nat
  BY <1>1, <1>2, TimesBounds, Zenon
<1>h. h \in Nat /\ 2 * h <= c
  BY <1>2
<1> HIDE DEF m, t, h
<1>4. m >= Unit
  <2> SUFFICES ASSUME m < Unit PROVE FALSE
    BY <1>1 DEF Unit, Half, Ceiling
  <2>1. (m + 1) * c <= Unit * c
    BY <1>1 DEF Unit, Half, Ceiling
  <2>2. m * c + c = (m + 1) * c /\ m * c \in Nat
    BY <1>1
  <2> QED BY <1>1, <1>h, <2>1, <2>2 DEF Unit, Half, Ceiling
<1>5. t < M + Unit
  <2>1. c * m = m * c /\ m * c \in Nat
    BY <1>1
  <2> QED BY <1>1, <1>3, <1>h, <2>1 DEF Unit, Half, Ceiling
<1> QED BY <1>1, <1>4, <1>5 DEF m, t

-----------------------------------------------------------------------------
(* The steps of the tuner.                                                 *)

(* Every non-empty set of natural numbers has a least element.             *)
LEMMA LeastOf ==
  ASSUME NEW T \in SUBSET Nat, T # {}
  PROVE  \E x \in T : \A y \in T : x <= y
<1> DEFINE R == OpToRel(<, Nat)
<1>1. IsWellFoundedOn(R, Nat)
  BY NatLessThanWellFounded
<1>2. ASSUME NEW x \in Nat, NEW y \in Nat, y < x PROVE <<y, x>> \in R
  BY <1>2 DEF OpToRel
<1> HIDE DEF R
<1>3. PICK x \in T : \A y \in T : ~ (<<y, x>> \in R)
  BY <1>1, WFMin
<1>4. ASSUME NEW y \in T PROVE ~(y < x)
  BY <1>2, <1>3
<1>5. x \in Nat /\ \A y \in T : y \in Nat
  OBVIOUS
<1>6. ASSUME NEW y \in T PROVE x <= y
  BY <1>4, <1>5, SMT
<1> QED BY <1>6

(* Twenty bumps double the concurrency, so one of them moves it: the       *)
(* multiplier that is chosen exists.                                       *)
LEMMA ReducedBounds ==
  ASSUME NEW mult \in Nat, mult >= Unit, NEW conc \in Nat, conc >= Unit, NEW cuts \in Nat
  PROVE  Reduced(mult, conc, cuts) \in Nat /\ Reduced(mult, conc, cuts) >= Unit
<1> DEFINE less == IF mult > StandardMultiplier THEN StandardMultiplier
                   ELSE Unit + (mult - Unit) \div SlowdownFactor
           moves(k) == Truncated(Times(less + 500 * k, conc)) # Truncated(conc)
           good(k) == moves(k) /\ \A j \in 0..(k-1) : ~moves(j)
<1>1. less \in Nat /\ less >= Unit
  BY DEF StandardMultiplier, Unit, SlowdownFactor
<1> HIDE DEF less
<1>2. moves(20)
  <2> DEFINE m == less + 500 * 20
             t == Times(m, conc)
  <2>1. m \in Nat /\ m >= 2 * Unit
    BY <1>1 DEF Unit
  <2>2. m * conc \in Nat /\ (2 * Unit) * conc <= m * conc
    BY <2>1 DEF Unit
  <2> HIDE DEF m
  <2>3. t \in Nat /\ m * conc + Half < t * Unit + Unit
    BY <2>1, TimesBounds, Zenon
  <2> HIDE DEF t
  <2>4. t >= conc + Unit
    BY <2>2, <2>3 DEF Unit, Half
  <2>5. Truncated(t) # Truncated(conc)
    BY <2>3, <2>4 DEF Truncated, Unit
  <2> QED BY <2>5 DEF t, m
<1> HIDE DEF moves
<1>3. \E k \in 0..20 : good(k)
  <2> DEFINE T == {k \in 0..20 : moves(k)}
  <2>1. T \in SUBSET Nat /\ T # {}
    BY <1>2
  <2>2. PICK x \in T : \A y \in T : x <= y
    BY <2>1, LeastOf
  <2>3. ASSUME NEW j \in 0..(x - 1) PROVE ~moves(j)
    <3>1. x \in 0..20
      BY <2>1
    <3> QED BY <3>1, <2>2
  <2> QED BY <2>3
<1> DEFINE k == CHOOSE k \in 0..20 : good(k)
<1>4. k \in 0..20
  <2> HIDE DEF good
  <2> QED BY <1>3
<1>5. Reduced(mult, conc, cuts) = IF cuts <= 2 THEN less + 500 * k ELSE less
  BY DEF Reduced, less, moves
<1> HIDE DEF k
<1> QED BY <1>1, <1>4, <1>5 DEF Unit

LEMMA Sizes ==
  /\ Least \in Nat /\ Most \in Nat /\ Unit <= Least /\ Least <= Most
  /\ AutoTune => Most <= Ceiling * Unit
  BY PoolSizesAssumption DEF Least, Most, Unit, Ceiling, AutoTune

LEMMA RaisedIsTuned ==
  ASSUME AutoTune, NEW t \in TunerStates, Tuned(t), t.conc <= Most
  PROVE  LET r == Raised(t) IN
         /\ r \in TunerStates /\ Tuned(r) /\ r.at = "probing"
         /\ Raising(r)
<1> DEFINE wanted == IF t.conc >= TopOfBoostZone /\ t.mult > StandardMultiplier
                     THEN StandardMultiplier ELSE t.mult
           atMax == Times(t.conc, wanted) > Most
           mult == IF atMax THEN Over(Most, t.conc) ELSE wanted
           r == Raised(t)
<1>0. t.conc >= Least /\ t.mult >= Unit
  BY DEF Tuned
<1>t. t.conc \in Nat /\ t.mult \in Nat
  BY DEF TunerStates
<1>1. t.conc \in Nat /\ t.mult \in Nat /\ t.conc \in Least..Most
  BY <1>0, <1>t, Sizes
<1>2. wanted \in Nat /\ wanted >= Unit
  BY <1>0, <1>1 DEF StandardMultiplier, Unit
<1>3. r = [t EXCEPT !.at = "probing", !.mult = mult, !.atMax = atMax,
                    !.conc = Times(@, mult),
                    !.reason = IF atMax THEN "hit max" ELSE "seeking"]
  BY DEF Raised, Most
<1> HIDE DEF wanted, r
<1>4. Times(t.conc, wanted) \in Nat /\ Times(t.conc, wanted) >= t.conc
  BY <1>1, <1>2, TimesBounds, StepUp, Zenon
<1>5. t.conc \in Nat \ {0} /\ t.conc <= Most /\ Most \in Nat /\ Most <= Ceiling * Unit
  BY <1>1, Sizes DEF Unit
<1>6. /\ Over(Most, t.conc) \in Nat /\ Over(Most, t.conc) >= Unit
      /\ Times(t.conc, Over(Most, t.conc)) < Most + Unit
  BY <1>5, StepToMost, Zenon
<1>7. /\ mult \in Nat /\ mult >= Unit /\ atMax \in BOOLEAN
      /\ Times(t.conc, mult) < Most + Unit
      /\ ~atMax => Times(t.conc, mult) <= Most
  BY <1>2, <1>4, <1>5, <1>6 DEF Unit
<1> HIDE DEF atMax, mult
<1>8. Times(t.conc, mult) \in Nat /\ Times(t.conc, mult) >= t.conc
  BY <1>1, <1>7, TimesBounds, StepUp, Zenon
<1>9. /\ r \in TunerStates
      /\ r.at = "probing" /\ r.mult = mult /\ r.conc = Times(t.conc, mult) /\ r.atMax = atMax
      /\ r.reason = IF atMax THEN "hit max" ELSE "seeking"
  BY <1>0, <1>1, <1>3, <1>7, <1>8 DEF TunerStates
<1>10. \E c \in Least..Most : r.conc = Times(c, r.mult)
  BY <1>1, <1>9
<1>11. Tuned(r)
  <2>1. r.mult >= Unit /\ r.conc >= Least /\ r.conc < Most + Unit
    <3>1. t.conc >= Least /\ Least \in Nat
      BY <1>0, Sizes
    <3>2. Times(t.conc, mult) >= Least
      BY <3>1, <1>5, <1>8
    <3> QED BY <3>2, <1>7, <1>9, Zenon
  <2>2. r.atMax => r.reason = "hit max"
    BY <1>9, Zenon
  <2> QED BY <2>1, <2>2, Zenon DEF Tuned
<1>12. Raising(r)
  BY <1>7, <1>9, <1>10, Zenon DEF Raising
<1> QED BY <1>9, <1>11, <1>12 DEF r

LEMMA BackedOffIsTuned ==
  ASSUME NEW t \in TunerStates, Tuned(t), NEW c \in Least..Most, t.conc = Times(c, t.mult)
  PROVE  LET b == BackedOff(t) IN
         /\ b \in TunerStates /\ Tuned(b) /\ b.at = "backed off" /\ b.conc <= Most
         /\ b.atMax = t.atMax /\ b.reason = t.reason
<1> DEFINE b == BackedOff(t)
           cuts == t.cuts + 1
           less == Reduced(t.mult, c, cuts)
<1>0. t.mult >= Unit
  BY DEF Tuned
<1>t. t.mult \in Nat /\ t.cuts \in Nat
  BY DEF TunerStates
<1>1. t.mult \in Nat /\ t.mult >= Unit /\ cuts \in Nat
  BY <1>0, <1>t
<1>2. c \in Nat /\ c >= Unit /\ c >= Least /\ c <= Most /\ Most \in Nat
  BY Sizes DEF Unit
<1>3. Over(t.conc, t.mult) = c
  BY <1>1, <1>2, BackedOffExactly
<1>4. less \in Nat /\ less >= Unit
  BY <1>1, <1>2, ReducedBounds, Zenon
<1>5. b = [t EXCEPT !.at = "backed off", !.conc = c, !.cuts = cuts, !.mult = less]
  BY <1>3 DEF BackedOff
<1> HIDE DEF b, less, cuts
<1>6. /\ b \in TunerStates /\ b.conc = c /\ b.mult = less /\ b.at = "backed off"
      /\ b.atMax = t.atMax /\ b.reason = t.reason
  BY <1>1, <1>2, <1>4, <1>5 DEF TunerStates
<1>7. c < Most + Unit
  BY <1>2 DEF Unit
<1>8. Tuned(b)
  BY <1>2, <1>4, <1>6, <1>7 DEF Tuned
<1> QED BY <1>2, <1>6, <1>8 DEF b

(* The tuner goes on with t, or stops with it.                             *)
LEMMA GoOnKeeps ==
  ASSUME TunerInv, AutoTune, NEW t \in TunerStates, Tuned(t), GoOn(t),
         tuner.at # "finished", t.at \in {"probing", "backed off", "settled"},
         t.at = "probing" => Raising(t),
         t.at = "backed off" => t.conc <= Most,
         t.at = "settled" => t.reason \in {"at optimum", "high cpu"}
  PROVE  TunerInv'
<1>1. tuner' = t /\ final' = final /\ subs' = subs
  BY DEF GoOn
<1>2. TunerTypeOK'
  BY <1>1 DEF TunerInv, TunerTypeOK, TunerStates
<1>3. Tuned(tuner)' /\ (tuner.at = "probing" => Raising(tuner))'
  BY <1>1 DEF Tuned, Raising, Least, Most
<1>4. ~(subs'.called > 0)
  BY <1>1 DEF TunerInv
<1>5. /\ AutoTune' 
      /\ (tuner.at \in {"baseline", "backed off"} => tuner.conc <= Most)'
      /\ (tuner.at = "settled" => tuner.reason \in {"at optimum", "high cpu"})'
  BY <1>1 DEF AutoTune, Most
<1> QED BY <1>1, <1>2, <1>3, <1>4, <1>5 DEF TunerInv

LEMMA FinishKeeps ==
  ASSUME TunerInv, AutoTune, NEW t \in TunerStates, Tuned(t), Finish(t),
         t.reason \in {"hit max", "at optimum", "high cpu"}
  PROVE  TunerInv'
<1>1. /\ tuner' = [t EXCEPT !.at = "finished"]
      /\ final' = [reason |-> t.reason, value |-> Truncated(t.conc)]
      /\ subs' = [subs EXCEPT !.waiting = 0, !.called = @ + subs.waiting]
  BY DEF Finish
<1>2. t.conc \in Nat
  BY DEF TunerStates
<1>3. Truncated(t.conc) \in Nat
  BY <1>2, TruncatedBounds
<1>4. subs \in [waiting : Nat, called : Nat, refused : Nat]
  BY DEF TunerInv, TunerTypeOK
<1> DEFINE n == subs.called + subs.waiting
<1>n. n \in Nat
  <2>1. subs.called \in Nat /\ subs.waiting \in Nat
    BY <1>4
  <2> QED BY <2>1, SumInNat, Zenon
<1>s. subs' = [subs EXCEPT !.waiting = 0, !.called = n]
  BY <1>1
<1> HIDE DEF n
<1>5. subs' \in [waiting : Nat, called : Nat, refused : Nat]
  BY <1>n, <1>s, <1>4
<1>6. /\ tuner' \in TunerStates /\ tuner'.at = "finished"
      /\ tuner'.conc = t.conc /\ tuner'.mult = t.mult
  BY <1>1 DEF TunerStates
<1>7. final' \in [reason : {"none", "disabled", "hit max", "at optimum", "high cpu"}, value : Nat]
      /\ final'.value = Truncated(t.conc)
  BY <1>1, <1>3
<1>8. TunerTypeOK'
  BY <1>5, <1>6, <1>7 DEF TunerTypeOK, TunerStates
<1>9. Tuned(tuner)'
  BY <1>6, Zenon DEF Tuned, Least, Most
<1>10. final'.value = Recommended'
  BY <1>6, <1>7 DEF Recommended
<1> QED BY <1>6, <1>8, <1>9, <1>10 DEF TunerInv, AutoTune

LEMMA LeaveKeeps ==
  ASSUME TunerInv, AutoTune, NEW t \in TunerStates, Tuned(t), Leave(t),
         tuner.at # "finished", t.atMax => t.reason = "hit max"
  PROVE  TunerInv'
<1>1. CASE t.atMax
  BY <1>1, FinishKeeps DEF Leave
<1>2. CASE ~t.atMax
  <2> DEFINE s == [t EXCEPT !.at = "settled",
                            !.reason = IF t.cpuSeen THEN "high cpu" ELSE "at optimum"]
  <2>1. /\ s \in TunerStates /\ s.at = "settled" /\ s.conc = t.conc /\ s.mult = t.mult
        /\ s.reason \in {"at optimum", "high cpu"}
    BY DEF TunerStates
  <2>2. GoOn(s)
    BY <1>2 DEF Leave
  <2> HIDE DEF s
  <2>3. Tuned(s)
    BY <2>1, Zenon DEF Tuned
  <2> QED BY <2>1, <2>2, <2>3, GoOnKeeps, Zenon
<1> QED BY <1>1, <1>2

(* One observed speed.                                                     *)
LEMMA ObserveKeeps ==
  ASSUME TunerInv, NEW paidOff \in BOOLEAN, NEW highCpu \in BOOLEAN, NEW retried \in BOOLEAN,
         Observe(paidOff, highCpu, retried)
  PROVE  TunerInv'
<1> DEFINE t == [tuner EXCEPT !.cpuSeen = @ \/ (highCpu /\ tuner.at = "probing")]
           stayAnyway == Benchmarking /\ retried /\ t.conc <= TopOfBoostZone
<1>1. tuner \in TunerStates /\ Tuned(tuner)
  BY DEF TunerInv, TunerTypeOK, TunerStates
<1>2. /\ t \in TunerStates /\ t.at = tuner.at /\ t.conc = tuner.conc /\ t.mult = tuner.mult
      /\ t.atMax = tuner.atMax /\ t.reason = tuner.reason
  BY <1>1 DEF TunerStates
<1>3. ASSUME tuner.at # "disabled" PROVE AutoTune
  BY <1>3 DEF TunerInv
<1> DEFINE b == BackedOff(t)
<1>4. \/ tuner.at \in {"baseline", "backed off"} /\ GoOn(Raised(t))
      \/ tuner.at = "probing" /\ paidOff /\ ~t.atMax /\ GoOn(Raised(t))
      \/ tuner.at = "probing" /\ Leave(t)
      \/ tuner.at = "probing" /\ b.mult < MinMultiplier /\ Leave(b)
      \/ tuner.at = "probing" /\ GoOn([b EXCEPT !.reason = "backing off"])
      \/ tuner.at = "settled" /\ Finish(t)
      \/ /\ tuner.at = "finished"
         /\ subs' = [subs EXCEPT !.waiting = 0, !.called = @ + subs.waiting]
         /\ UNCHANGED <<tuner, final>>
      \/ tuner.at = "disabled" /\ UNCHANGED tunerVars
  BY DEF Observe
<1> HIDE DEF t, b
<1>5. Tuned(t)
  BY <1>1, <1>2, Zenon DEF Tuned
<1>6. tuner.at = "probing" => Raising(t) /\ (t.atMax => t.reason = "hit max")
  BY <1>2, <1>5, Zenon DEF TunerInv, Raising, Tuned
<1>7. ASSUME AutoTune, t.conc <= Most, tuner.at # "finished", GoOn(Raised(t)) PROVE TunerInv'
  <2> DEFINE r == Raised(t)
  <2>1. r \in TunerStates /\ Tuned(r) /\ r.at = "probing" /\ Raising(r)
    BY <1>2, <1>5, <1>7, RaisedIsTuned, Zenon
  <2> HIDE DEF r
  <2>2. r.at \in {"probing", "backed off", "settled"} /\ r.at # "backed off" /\ r.at # "settled"
    BY <2>1
  <2>3. GoOn(r)
    BY <1>7 DEF r
  <2> QED BY <2>1, <2>2, <2>3, <1>7, GoOnKeeps, Zenon
<1>8. CASE tuner.at \in {"baseline", "backed off"} /\ GoOn(Raised(t))
  BY <1>2, <1>3, <1>7, <1>8 DEF TunerInv
<1>9. CASE tuner.at = "probing" /\ paidOff /\ ~t.atMax /\ GoOn(Raised(t))
  BY <1>2, <1>3, <1>6, <1>7, <1>9 DEF Raising
<1>10. CASE tuner.at = "probing" /\ Leave(t)
  BY <1>2, <1>3, <1>5, <1>6, <1>10, LeaveKeeps
<1>11. ASSUME tuner.at = "probing"
       PROVE  /\ b \in TunerStates /\ Tuned(b) /\ b.at = "backed off" /\ b.conc <= Most
              /\ b.atMax => b.reason = "hit max"
  <2>1. PICK c \in Least..Most : t.conc = Times(c, t.mult)
    BY <1>6, <1>11 DEF Raising
  <2>2. /\ b \in TunerStates /\ Tuned(b) /\ b.at = "backed off" /\ b.conc <= Most
        /\ b.atMax = t.atMax /\ b.reason = t.reason
    BY <1>2, <1>5, <2>1, BackedOffIsTuned, Zenon DEF b
  <2> QED BY <1>6, <1>11, <2>2
<1>12. CASE tuner.at = "probing" /\ b.mult < MinMultiplier /\ Leave(b)
  <2>1. AutoTune /\ tuner.at # "finished"
    BY <1>3, <1>12
  <2> QED BY <1>11, <1>12, <2>1, LeaveKeeps, Zenon
<1>13. CASE tuner.at = "probing" /\ GoOn([b EXCEPT !.reason = "backing off"])
  <2> DEFINE s == [b EXCEPT !.reason = "backing off"]
  <2>1. AutoTune /\ tuner.at # "finished"
    BY <1>3, <1>13
  <2>2. b \in TunerStates /\ Tuned(b) /\ b.at = "backed off" /\ b.conc <= Most
    BY <1>11, <1>13
  <2>3. s \in TunerStates /\ s.at = "backed off" /\ s.conc = b.conc /\ s.mult = b.mult
    BY <2>2 DEF TunerStates
  <2>4. GoOn(s)
    BY <1>13
  <2> HIDE DEF s
  <2>5. Tuned(s) /\ s.conc <= Most
    <3>1. s.at # "probing"
      BY <2>3
    <3> QED BY <2>2, <2>3, <3>1, Zenon DEF Tuned
  <2>6. s.at \in {"probing", "backed off", "settled"} /\ s.at # "probing" /\ s.at # "settled"
    BY <2>3
  <2> QED BY <2>1, <2>3, <2>4, <2>5, <2>6, GoOnKeeps, Zenon
<1>14. CASE tuner.at = "settled" /\ Finish(t)
  <2>1. AutoTune /\ t.reason \in {"hit max", "at optimum", "high cpu"}
    BY <1>2, <1>3, <1>14 DEF TunerInv
  <2> QED BY <1>2, <1>5, <1>14, <2>1, FinishKeeps, Zenon
<1>15. CASE /\ tuner.at = "finished"
            /\ subs' = [subs EXCEPT !.waiting = 0, !.called = @ + subs.waiting]
            /\ UNCHANGED <<tuner, final>>
  <2> DEFINE n == subs.called + subs.waiting
  <2>1. subs \in [waiting : Nat, called : Nat, refused : Nat]
    BY DEF TunerInv, TunerTypeOK
  <2>2. subs.called \in Nat /\ subs.waiting \in Nat
    BY <2>1
  <2>3. n \in Nat /\ subs' = [subs EXCEPT !.waiting = 0, !.called = n]
    BY <1>15, <2>2
  <2> HIDE DEF n
  <2>4. subs' \in [waiting : Nat, called : Nat, refused : Nat]
    BY <2>1, <2>3
  <2>5. TunerTypeOK'
    BY <1>15, <2>4 DEF TunerInv, TunerTypeOK
  <2> QED BY <1>15, <2>5 DEF TunerInv, Tuned, Raising, Recommended, Least, Most, AutoTune
<1>16. CASE tuner.at = "disabled" /\ UNCHANGED tunerVars
  BY <1>16 DEF TunerInv, TunerTypeOK, Tuned, Raising, Recommended, Least, Most, AutoTune, tunerVars
<1> QED BY <1>4, <1>8, <1>9, <1>10, <1>12, <1>13, <1>14, <1>15, <1>16

LEMMA SubscribeKeeps ==
  ASSUME TunerInv, Subscribe
  PROVE  TunerInv'
<1>1. subs \in [waiting : Nat, called : Nat, refused : Nat]
  BY DEF TunerInv, TunerTypeOK
<1>2. subs.waiting \in Nat /\ subs.refused \in Nat
  BY <1>1
<1> DEFINE w == subs.waiting + 1
           r == subs.refused + 1
<1>3. w \in Nat /\ r \in Nat
  BY <1>2
<1>4. /\ subs' = IF tuner.at # "disabled" /\ subs.waiting < CallbackCap
                 THEN [subs EXCEPT !.waiting = w] ELSE [subs EXCEPT !.refused = r]
      /\ UNCHANGED <<tuner, final>>
  BY DEF Subscribe
<1> HIDE DEF w, r
<1>5. /\ subs' \in [waiting : Nat, called : Nat, refused : Nat]
      /\ subs'.called = subs.called
      /\ tuner.at = "disabled" => subs'.waiting = subs.waiting
  BY <1>1, <1>3, <1>4
<1>6. TunerTypeOK'
  BY <1>4, <1>5 DEF TunerInv, TunerTypeOK
<1> QED BY <1>4, <1>5, <1>6 DEF TunerInv, Tuned, Raising, Recommended, Least, Most, AutoTune

LEMMA TunerStarts ==
  ASSUME TunerInit
  PROVE  TunerInv
<1>1. InitialPool * Unit \in Nat /\ BoostedMultiplier \in Nat /\ BoostedMultiplier >= Unit
  BY PoolSizesAssumption DEF BoostedMultiplier, StandardMultiplier, Unit
<1>2. TunerTypeOK
  BY <1>1, PoolSizesAssumption DEF TunerInit, TunerTypeOK
<1>3. tuner.conc = Least /\ tuner.mult = BoostedMultiplier /\ tuner.at \in {"baseline", "disabled"}
      /\ (AutoTune \/ tuner.at = "disabled") /\ subs.called = 0 /\ subs.waiting = 0
  BY DEF TunerInit, Least
<1>4. Least < Most + Unit /\ Least >= Least /\ Least <= Most
  BY Sizes DEF Unit
<1>5. Tuned(tuner)
  BY <1>1, <1>3, <1>4 DEF Tuned
<1>6. ~(subs.called > 0) /\ tuner.conc <= Most
  BY <1>3, <1>4
<1> QED BY <1>2, <1>3, <1>5, <1>6, Zenon DEF TunerInv

LEMMA TunerInvHolds ==
  ASSUME TunerInv
  PROVE  RecommendedInRange /\ StableWhenCalled
<1>1. tuner.conc \in Nat
  BY DEF TunerInv, TunerTypeOK
<1>2. tuner.conc >= InitialPool * Unit /\ tuner.conc < MaxPool * Unit + Unit
  BY DEF TunerInv, Tuned, Least, Most
<1>3. Recommended \in Nat /\ Recommended * Unit <= tuner.conc /\ tuner.conc < Recommended * Unit + Unit
  BY <1>1, TruncatedBounds DEF Recommended
<1>4. RecommendedInRange
  BY <1>1, <1>2, <1>3, PoolSizesAssumption DEF RecommendedInRange, Unit
<1>5. StableWhenCalled
  BY DEF TunerInv, StableWhenCalled
<1> QED BY <1>4, <1>5

-----------------------------------------------------------------------------
(* The steps of the pool.                                                  *)

SizerStates == [pc : {"off", "select", "offering", "gone"}, target : Nat, actual : Nat,
                stable : BOOLEAN, listening : BOOLEAN]
PoolStates == [starting : Nat, looping : Nat, busy : Nat, leaving : Nat]

RestTypeOK ==
    /\ chunks \in [ahead : Nat, queued : Nat, done : Nat]
    /\ slowTune \in [asked : Nat, heard : BOOLEAN]
    /\ closing \in {"no", "scheduler", "signalled", "done"}

LEMMA Fields ==
  ASSUME PoolTypeOK
  PROVE  /\ sizer \in SizerStates /\ pool \in PoolStates /\ RestTypeOK
         /\ sizer.pc \in {"off", "select", "offering", "gone"}
         /\ sizer.target \in Nat /\ sizer.actual \in Nat
         /\ pool.starting \in Nat /\ pool.looping \in Nat
         /\ pool.busy \in Nat /\ pool.leaving \in Nat
         /\ sizer.listening \in BOOLEAN /\ slowTune.heard \in BOOLEAN /\ Extra \in {0, 1}
         /\ closing \in {"no", "scheduler", "signalled", "done"}
<1>1. slowTune.heard \in BOOLEAN /\ sizer \in SizerStates /\ pool \in PoolStates
  BY DEF PoolTypeOK, SizerStates, PoolStates
<1>2. Extra \in {0, 1}
  BY <1>1 DEF Extra
<1> QED BY <1>1, <1>2 DEF PoolTypeOK, RestTypeOK, SizerStates, PoolStates

(* One turn of the sizer's loop.                                           *)
LEMMA LoopFields ==
  ASSUME NEW s \in SizerStates, NEW p \in PoolStates, Loop(s, p)
  PROVE  /\ sizer' \in SizerStates /\ pool' \in PoolStates
         /\ sizer'.target = s.target /\ sizer'.actual = s.actual
         /\ sizer'.listening = s.listening
         /\ pool'.looping = p.looping /\ pool'.busy = p.busy /\ pool'.leaving = p.leaving
         /\ \/ s.actual < s.target /\ sizer'.pc = "select" /\ pool'.starting = p.starting + 1
            \/ s.actual > s.target /\ sizer'.pc = "offering" /\ pool'.starting = p.starting
            \/ /\ s.actual = s.target /\ pool'.starting = p.starting
               /\ sizer'.pc = IF s.actual = 0 THEN "gone" ELSE "select"
<1>1. p.starting \in Nat
  BY DEF PoolStates
<1> DEFINE n == p.starting + 1
<1>2. n \in Nat
  BY <1>1
<1>3. CASE /\ s.actual < s.target
           /\ sizer' = [s EXCEPT !.pc = "select", !.stable = FALSE]
           /\ pool' = [p EXCEPT !.starting = n]
  <2> HIDE DEF n
  <2>1. /\ sizer' \in SizerStates /\ sizer'.target = s.target /\ sizer'.actual = s.actual
        /\ sizer'.listening = s.listening /\ sizer'.pc = "select"
    BY <1>3 DEF SizerStates
  <2>2. /\ pool' \in PoolStates /\ pool'.looping = p.looping /\ pool'.busy = p.busy
        /\ pool'.leaving = p.leaving /\ pool'.starting = n
    BY <1>2, <1>3 DEF PoolStates
  <2> QED BY <1>3, <2>1, <2>2 DEF n
<1>4. CASE /\ s.actual > s.target
           /\ sizer' = [s EXCEPT !.pc = "offering", !.stable = FALSE]
           /\ pool' = p
  BY <1>4 DEF SizerStates
<1>5. CASE /\ s.actual = s.target
           /\ sizer' = [s EXCEPT !.pc = IF s.actual = 0 THEN "gone" ELSE "select"]
           /\ pool' = p
  BY <1>5 DEF SizerStates
<1> QED BY <1>3, <1>4, <1>5 DEF Loop

(***************************************************************************)
(* What holds of the locals s and the pool p wherever poolSizer enters its *)
(* loop, with e workers more than planned (a request to tune slowly was    *)
(* heard) and the clean-up at stage.                                       *)
(***************************************************************************)
Entered(s, p, e, stage) ==
    /\ s.actual = p.looping + p.busy + p.leaving
    /\ s.target <= MaxPool /\ s.actual <= MaxPool + e
    /\ p.starting <= e /\ p.leaving <= e
    /\ p.starting > 0 => s.actual <= s.target /\ p.leaving = 0
    /\ s.actual < s.target => p.leaving = 0
    /\ s.target = 0 /\ s.actual = 0 => p.starting = 0
    /\ s.target = 0 <=> stage = "done"
    /\ stage # "signalled"

LEMMA LoopKeeps ==
  ASSUME NEW s \in SizerStates, NEW p \in PoolStates, Loop(s, p),
         Entered(s, p, Extra', closing'), slowTune'.heard = ~s.listening,
         TunerInv', RestTypeOK'
  PROVE  PoolInv'
<1>0. slowTune'.heard \in BOOLEAN
  BY DEF RestTypeOK
<1>1. /\ s.actual \in Nat /\ s.target \in Nat
      /\ p.starting \in Nat /\ p.looping \in Nat /\ p.busy \in Nat /\ p.leaving \in Nat
  BY DEF SizerStates, PoolStates
<1>2. Extra' \in {0, 1}
  BY <1>0 DEF Extra
<1>3. Counted'
  BY <1>1, LoopFields DEF Counted, Entered
<1>4. Waiting'
  BY <1>1, LoopFields DEF Waiting, Entered
<1>5. Starting'
  BY <1>1, <1>2, LoopFields DEF Starting, Entered
<1>6. Leaving'
  BY <1>1, <1>2, LoopFields DEF Leaving, Entered
<1>7. Bounded'
  BY <1>1, <1>2, LoopFields, PoolSizesAssumption DEF Bounded, Entered, Workers
<1>8. Phases'
  <2>1. (slowTune.heard = ~sizer.listening)'
    BY LoopFields
  <2>2. sizer'.pc # "off" /\ closing' # "signalled"
    BY LoopFields DEF Entered
  <2>3. sizer'.target = s.target /\ (sizer'.target = 0 <=> closing' = "done")
    BY LoopFields DEF Entered
  <2>4. sizer'.pc = "gone" => closing' = "done" /\ Workers' = 0
    BY <1>1, LoopFields DEF Entered, Workers
  <2> QED BY <2>1, <2>2, <2>3, <2>4 DEF Phases
<1>9. PoolTypeOK'
  BY LoopFields DEF TunerInv, RestTypeOK, PoolTypeOK, SizerStates, PoolStates
<1> QED BY <1>3, <1>4, <1>5, <1>6, <1>7, <1>8, <1>9 DEF PoolInv

(* The scalars of a state of the invariant, for the arithmetic.            *)
LEMMA Scalars ==
  ASSUME PoolInv
  PROVE  /\ sizer.actual = pool.looping + pool.busy + pool.leaving
         /\ sizer.target <= MaxPool
         /\ Workers = pool.starting + sizer.actual /\ Workers <= MaxPool + Extra
         /\ pool.starting <= 1 + Extra
         /\ pool.starting > Extra => sizer.actual < sizer.target
         /\ pool.starting > 0 => sizer.actual <= sizer.target /\ pool.leaving = 0
         /\ pool.leaving <= 1 + Extra
         /\ pool.leaving > 0 => pool.leaving <= sizer.actual - sizer.target + Extra
  BY Fields DEF PoolInv, Counted, Starting, Leaving, Bounded, Workers

LEMMA Unchanged ==
  ASSUME PoolInv, UNCHANGED tunerVars
  PROVE  TunerInv'
  BY DEF PoolInv, TunerInv, TunerTypeOK, Tuned, Raising, Recommended, Least, Most, AutoTune, tunerVars

LEMMA WorkerEntersKeeps ==
  ASSUME PoolInv, WorkerEnters
  PROVE  PoolInv'
<1> DEFINE a == sizer.actual + 1
           st == pool.starting - 1
           lo == pool.looping + 1
           s == [sizer EXCEPT !.actual = a]
           p == [pool EXCEPT !.starting = st, !.looping = lo]
<1>0. PoolTypeOK
  BY DEF PoolInv
<1>1. a \in Nat /\ st \in Nat /\ lo \in Nat
  BY <1>0, Fields DEF WorkerEnters
<1>2. Loop(s, p) /\ UNCHANGED <<chunks, slowTune, closing, tunerVars>> /\ sizer.pc = "select"
  BY DEF WorkerEnters
<1> HIDE DEF a, st, lo
<1>3. /\ s \in SizerStates /\ s.actual = a /\ s.target = sizer.target
      /\ s.listening = sizer.listening
  BY <1>0, <1>1, Fields DEF SizerStates
<1>4. /\ p \in PoolStates /\ p.starting = st /\ p.looping = lo
      /\ p.busy = pool.busy /\ p.leaving = pool.leaving
  BY <1>0, <1>1, Fields DEF PoolStates
<1> HIDE DEF s, p
<1>5. Extra' = Extra /\ closing' = closing /\ RestTypeOK' /\ TunerInv'
  BY <1>0, <1>2, Fields, Unchanged DEF RestTypeOK, Extra
<1>6. Entered(s, p, Extra, closing)
  <2>1. s.actual = p.looping + p.busy + p.leaving
    BY <1>0, <1>3, <1>4, Fields, Scalars DEF a, lo
  <2>2. /\ s.target <= MaxPool /\ s.actual <= MaxPool + Extra
        /\ p.starting <= Extra /\ p.leaving <= Extra
        /\ p.starting > 0 => s.actual <= s.target /\ p.leaving = 0
        /\ s.actual < s.target => p.leaving = 0
        /\ s.target = 0 /\ s.actual = 0 => p.starting = 0
    BY <1>0, <1>3, <1>4, Fields, Scalars, PoolSizesAssumption DEF a, st, WorkerEnters
  <2>3. (s.target = 0 <=> closing = "done") /\ closing # "signalled"
    BY <1>2, <1>3, Fields, <1>0 DEF PoolInv, Phases, WorkerEnters
  <2> QED BY <2>1, <2>2, <2>3 DEF Entered
<1>7. slowTune'.heard = ~s.listening
  BY <1>2, <1>3 DEF PoolInv, Phases
<1> QED BY <1>2, <1>3, <1>4, <1>5, <1>6, <1>7, LoopKeeps, Zenon

LEMMA WorkerExitsKeeps ==
  ASSUME PoolInv, WorkerExits
  PROVE  PoolInv'
<1> DEFINE a == sizer.actual - 1
           le == pool.leaving - 1
           s == [sizer EXCEPT !.actual = a]
           p == [pool EXCEPT !.leaving = le]
<1>0. PoolTypeOK
  BY DEF PoolInv
<1>1. a \in Nat /\ le \in Nat
  BY <1>0, Fields, Scalars DEF WorkerExits
<1>2. Loop(s, p) /\ UNCHANGED <<chunks, slowTune, closing, tunerVars>> /\ sizer.pc = "select"
  BY DEF WorkerExits
<1> HIDE DEF a, le
<1>3. /\ s \in SizerStates /\ s.actual = a /\ s.target = sizer.target
      /\ s.listening = sizer.listening
  BY <1>0, <1>1, Fields DEF SizerStates
<1>4. /\ p \in PoolStates /\ p.starting = pool.starting /\ p.looping = pool.looping
      /\ p.busy = pool.busy /\ p.leaving = le
  BY <1>0, <1>1, Fields DEF PoolStates
<1> HIDE DEF s, p
<1>5. Extra' = Extra /\ closing' = closing /\ RestTypeOK' /\ TunerInv'
  BY <1>0, <1>2, Fields, Unchanged DEF RestTypeOK, Extra
<1>6. Entered(s, p, Extra, closing)
  <2>1. s.actual = p.looping + p.busy + p.leaving
    BY <1>0, <1>3, <1>4, Fields, Scalars DEF a, le
  <2>2. /\ s.target <= MaxPool /\ s.actual <= MaxPool + Extra
        /\ p.starting <= Extra /\ p.leaving <= Extra
        /\ p.starting > 0 => s.actual <= s.target /\ p.leaving = 0
        /\ s.actual < s.target => p.leaving = 0
        /\ s.target = 0 /\ s.actual = 0 => p.starting = 0
    BY <1>0, <1>3, <1>4, Fields, Scalars, PoolSizesAssumption DEF a, le, WorkerExits
  <2>3. (s.target = 0 <=> closing = "done") /\ closing # "signalled"
    BY <1>2, <1>3, Fields, <1>0 DEF PoolInv, Phases, WorkerExits
  <2> QED BY <2>1, <2>2, <2>3 DEF Entered
<1>7. slowTune'.heard = ~s.listening
  BY <1>2, <1>3 DEF PoolInv, Phases
<1> QED BY <1>2, <1>3, <1>4, <1>5, <1>6, <1>7, LoopKeeps, Zenon

LEMMA StartSizerKeeps ==
  ASSUME PoolInv, StartSizer
  PROVE  PoolInv'
<1> DEFINE s == [sizer EXCEPT !.target = InitialPool]
<1>0. PoolTypeOK
  BY DEF PoolInv
<1>2. Loop(s, pool) /\ UNCHANGED <<chunks, slowTune, closing, tunerVars>> /\ sizer.pc = "off"
  BY DEF StartSizer
<1>3. /\ s \in SizerStates /\ s.actual = sizer.actual /\ s.target = InitialPool
      /\ s.listening = sizer.listening
  BY <1>0, Fields, PoolSizesAssumption DEF SizerStates
<1> HIDE DEF s
<1>4. /\ pool \in PoolStates /\ pool.starting = 0 /\ pool.looping = 0 /\ pool.busy = 0
      /\ pool.leaving = 0 /\ Extra = 0 /\ closing = "no"
  BY <1>0, <1>2, Fields DEF PoolInv, Phases, Extra
<1>5. Extra' = Extra /\ closing' = closing /\ RestTypeOK' /\ TunerInv'
  BY <1>0, <1>2, Fields, Unchanged DEF RestTypeOK, Extra
<1>6. Entered(s, pool, Extra, closing)
  <2>1. s.actual = 0
    BY <1>3, <1>4, Scalars
  <2> QED BY <1>3, <1>4, <2>1, PoolSizesAssumption DEF Entered
<1>7. slowTune'.heard = ~s.listening
  BY <1>2, <1>3 DEF PoolInv, Phases
<1> QED BY <1>2, <1>3, <1>4, <1>5, <1>6, <1>7, LoopKeeps, Zenon

(* The sizer is told to close, and every worker is to leave.               *)
LEMMA SizerDoneKeeps ==
  ASSUME PoolInv, SizerDone
  PROVE  PoolInv'
<1> DEFINE s == [sizer EXCEPT !.target = 0]
<1>0. PoolTypeOK
  BY DEF PoolInv
<1>2. /\ Loop(s, pool) /\ UNCHANGED <<chunks, slowTune, tunerVars>> /\ closing' = "done"
      /\ closing = "signalled"
  BY DEF SizerDone
<1>3. /\ s \in SizerStates /\ s.actual = sizer.actual /\ s.target = 0
      /\ s.listening = sizer.listening
  BY <1>0, Fields DEF SizerStates
<1> HIDE DEF s
<1>4. /\ pool \in PoolStates /\ pool.starting = 0 /\ pool.leaving = 0
  BY <1>0, <1>2, Fields DEF PoolInv, Phases
<1>5. Extra' = Extra /\ RestTypeOK' /\ TunerInv'
  BY <1>0, <1>2, Fields, Unchanged DEF RestTypeOK, Extra
<1>6. Entered(s, pool, Extra, "done")
  BY <1>0, <1>3, <1>4, Fields, Scalars, PoolSizesAssumption DEF Entered
<1>7. slowTune'.heard = ~s.listening
  BY <1>2, <1>3 DEF PoolInv, Phases
<1> QED BY <1>2, <1>3, <1>4, <1>5, <1>6, <1>7, LoopKeeps, Zenon

(* A request to tune slowly that is heard is one turn more of the loop.    *)
LEMMA RequestTuneSlowlyKeeps ==
  ASSUME PoolInv, RequestTuneSlowly
  PROVE  PoolInv'
<1> DEFINE heard == sizer.pc = "select" /\ sizer.listening
           n == slowTune.asked + 1
           s == [sizer EXCEPT !.listening = FALSE]
<1>0. PoolTypeOK
  BY DEF PoolInv
<1>1. n \in Nat
  <2>1. slowTune.asked \in Nat
    BY <1>0 DEF PoolTypeOK
  <2> QED BY <2>1
<1>2. /\ closing = "no"
      /\ slowTune' = [asked |-> n, heard |-> slowTune.heard \/ heard]
      /\ UNCHANGED <<chunks, closing, tunerVars>>
      /\ heard => Loop(s, pool)
      /\ ~heard => UNCHANGED <<sizer, pool>>
  BY DEF RequestTuneSlowly
<1>3. RestTypeOK' /\ TunerInv' /\ closing' = "no" /\ slowTune'.heard = (slowTune.heard \/ heard)
  BY <1>0, <1>1, <1>2, Fields, Unchanged DEF RestTypeOK
<1> HIDE DEF n
<1>4. CASE heard
  <2>1. Extra' = 1 /\ Extra = 0
    BY <1>0, <1>3, <1>4, Fields DEF Extra, PoolInv, Phases
  <2>2. /\ s \in SizerStates /\ s.actual = sizer.actual /\ s.target = sizer.target
        /\ s.listening = FALSE
    BY <1>0, Fields DEF SizerStates
  <2> HIDE DEF s
  <2>3. sizer.target # 0
    BY <1>2, <1>4 DEF PoolInv, Phases
  <2>4. Entered(s, pool, 1, "no")
    BY <1>0, <2>1, <2>2, <2>3, Fields, Scalars, PoolSizesAssumption DEF Entered
  <2> QED BY <1>0, <1>2, <1>3, <1>4, <2>1, <2>2, <2>4, LoopKeeps, Fields, Zenon
<1>5. CASE ~heard
  <2>1. sizer' = sizer /\ pool' = pool /\ closing' = closing /\ slowTune'.heard = slowTune.heard
    BY <1>2, <1>3, <1>5, <1>0, Fields
  <2>2. PoolTypeOK'
    BY <1>0, <1>3, <2>1 DEF RestTypeOK, PoolTypeOK, TunerInv
  <2> QED BY <1>3, <2>1, <2>2
          DEF PoolInv, Counted, Waiting, Starting, Leaving, Bounded, Phases, Workers, Extra
<1> QED BY <1>4, <1>5

LEMMA RecommendedNext ==
  TunerInv' => Recommended' \in InitialPool..MaxPool
<1>1. TunerInv => RecommendedInRange
  BY TunerInvHolds
<1>2. (TunerInv => RecommendedInRange)'
  BY <1>1, PTL
<1> QED BY <1>2 DEF RecommendedInRange

LEMMA TickKeeps ==
  ASSUME Patience, PoolInv, Tick
  PROVE  PoolInv'
<1>0. PoolTypeOK
  BY DEF PoolInv
<1>1. /\ sizer.pc = "select" /\ pool.starting = 0 /\ pool.leaving = 0 /\ closing # "signalled"
      /\ UNCHANGED <<chunks, slowTune, closing>>
  BY DEF Tick, Calm
<1>2. Extra' = Extra /\ closing' = closing /\ RestTypeOK' /\ slowTune'.heard = ~sizer.listening
  BY <1>0, <1>1, Fields DEF RestTypeOK, Extra, PoolInv, Phases
<1>3. /\ sizer.target = 0 <=> closing = "done"
      /\ sizer.actual = 0 => sizer.target # 0 \/ sizer.actual = sizer.target
      /\ sizer.target <= MaxPool
  BY <1>0, <1>1, Fields, Scalars DEF PoolInv, Phases
<1>4. CASE /\ sizer.target # 0 /\ sizer.actual = sizer.target
           /\ \E paidOff, highCpu, retried \in BOOLEAN : Observe(paidOff, highCpu, retried)
           /\ Loop([sizer EXCEPT !.target = Recommended'], pool)
  <2> DEFINE s == [sizer EXCEPT !.target = Recommended']
  <2>1. TunerInv'
    BY <1>4, ObserveKeeps DEF PoolInv
  <2>2. Recommended' \in InitialPool..MaxPool
    BY <2>1, RecommendedNext
  <2>3. Recommended' \in Nat /\ Recommended' # 0 /\ Recommended' <= MaxPool
    BY <2>2, PoolSizesAssumption
  <2>4. /\ s \in SizerStates /\ s.actual = sizer.actual /\ s.target = Recommended'
        /\ s.listening = sizer.listening
    BY <1>0, <2>3, Fields DEF SizerStates
  <2>5. Loop(s, pool)
    BY <1>4
  <2> HIDE DEF s
  <2>6. Entered(s, pool, Extra, closing)
    BY <1>0, <1>1, <1>3, <1>4, <2>3, <2>4, Fields, Scalars, PoolSizesAssumption DEF Entered
  <2>7. slowTune'.heard = ~s.listening
    BY <1>2, <2>4
  <2> QED BY <1>0, <1>2, <2>1, <2>4, <2>5, <2>6, <2>7, LoopKeeps, Fields, Zenon
<1>5. ASSUME NEW s \in SizerStates, UNCHANGED tunerVars, Loop(s, pool),
             s.actual = sizer.actual, s.target = sizer.target, s.listening = sizer.listening
      PROVE  PoolInv'
  <2>1. TunerInv'
    BY <1>5, Unchanged
  <2>2. Entered(s, pool, Extra, closing)
    BY <1>0, <1>1, <1>3, <1>5, Fields, Scalars, PoolSizesAssumption DEF Entered
  <2>3. slowTune'.heard = ~s.listening
    BY <1>2, <1>5
  <2> QED BY <1>0, <1>2, <1>5, <2>1, <2>2, <2>3, LoopKeeps, Fields, Zenon
<1>6. CASE Loop([sizer EXCEPT !.stable = TRUE], pool) /\ UNCHANGED tunerVars
  <2> DEFINE s == [sizer EXCEPT !.stable = TRUE]
  <2>1. /\ s \in SizerStates /\ s.actual = sizer.actual /\ s.target = sizer.target
        /\ s.listening = sizer.listening
    BY <1>0, Fields DEF SizerStates
  <2> HIDE DEF s
  <2> QED BY <1>5, <1>6, <2>1 DEF s
<1>7. CASE Loop(sizer, pool) /\ UNCHANGED tunerVars
  BY <1>0, <1>5, <1>7, Fields
<1> QED BY <1>4, <1>6, <1>7 DEF Tick

(***************************************************************************)
(* The steps that leave the sizer at its select: nobody starts, nobody is  *)
(* counted on or off.                                                      *)
(***************************************************************************)
LEMMA TakeScalebackKeeps ==
  ASSUME PoolInv, TakeScaleback
  PROVE  PoolInv'
<1> DEFINE lo == pool.looping - 1
           le == pool.leaving + 1
<1>0. PoolTypeOK
  BY DEF PoolInv
<1>1. lo \in Nat /\ le \in Nat
  BY <1>0, Fields DEF TakeScaleback
<1>2. /\ sizer.pc = "offering"
      /\ sizer' = [sizer EXCEPT !.pc = "select"]
      /\ pool' = [pool EXCEPT !.looping = lo, !.leaving = le]
      /\ UNCHANGED <<chunks, slowTune, closing, tunerVars>>
  BY DEF TakeScaleback
<1>3. /\ sizer.actual > sizer.target /\ pool.starting = 0 /\ pool.leaving <= Extra
      /\ closing # "signalled"
  BY <1>2 DEF PoolInv, Leaving, Phases
<1> HIDE DEF lo, le
<1>4. /\ sizer' \in SizerStates /\ sizer'.actual = sizer.actual /\ sizer'.target = sizer.target
      /\ sizer'.listening = sizer.listening /\ sizer'.pc = "select"
  BY <1>0, <1>2, Fields DEF SizerStates
<1>5. /\ pool' \in PoolStates /\ pool'.starting = pool.starting /\ pool'.looping = lo
      /\ pool'.busy = pool.busy /\ pool'.leaving = le
  BY <1>0, <1>1, <1>2, Fields DEF PoolStates
<1>6. Extra' = Extra /\ closing' = closing /\ RestTypeOK' /\ TunerInv'
  BY <1>0, <1>2, Fields, Unchanged DEF RestTypeOK, Extra
<1>7. PoolTypeOK'
  BY <1>4, <1>5, <1>6 DEF TunerInv, RestTypeOK, PoolTypeOK, SizerStates, PoolStates
<1>8. Counted'
  BY <1>0, <1>4, <1>5, Fields, Scalars DEF Counted, lo, le
<1>9. Waiting'
  BY <1>0, <1>3, <1>4, <1>5, Fields, Scalars DEF Waiting, le
<1>10. Starting' /\ Leaving'
  BY <1>0, <1>3, <1>4, <1>5, <1>6, Fields, Scalars DEF Starting, Leaving, le
<1>11. Bounded'
  BY <1>0, <1>3, <1>4, <1>5, <1>6, Fields, Scalars DEF Bounded, Workers, lo, le
<1>12. Phases'
  BY <1>0, <1>2, <1>3, <1>4, <1>6, Fields DEF PoolInv, Phases
<1> QED BY <1>6, <1>7, <1>8, <1>9, <1>10, <1>11, <1>12 DEF PoolInv

(* A worker turns to a chunk, or back to its loop.                         *)
LEMMA ChunkKeeps ==
  ASSUME PoolInv, NEW lo \in Nat, NEW bu \in Nat, lo + bu = pool.looping + pool.busy,
         pool' = [pool EXCEPT !.looping = lo, !.busy = bu],
         pool.looping + pool.busy > 0,
         UNCHANGED <<sizer, slowTune, closing, tunerVars>>, RestTypeOK'
  PROVE  PoolInv'
<1>0. PoolTypeOK
  BY DEF PoolInv
<1>1. /\ pool' \in PoolStates /\ pool'.starting = pool.starting /\ pool'.looping = lo
      /\ pool'.busy = bu /\ pool'.leaving = pool.leaving
  BY <1>0, Fields DEF PoolStates
<1>2. Extra' = Extra /\ closing' = closing /\ sizer' = sizer /\ TunerInv'
  BY Unchanged DEF Extra
<1>3. PoolTypeOK'
  BY <1>0, <1>1, <1>2, Fields DEF TunerInv, RestTypeOK, PoolTypeOK, SizerStates, PoolStates
<1>4. Counted' /\ Waiting' /\ Starting' /\ Leaving'
  BY <1>0, <1>1, <1>2, Fields, Scalars DEF PoolInv, Counted, Waiting, Starting, Leaving
<1>5. Workers' = Workers
  BY <1>0, <1>1, Fields DEF Workers
<1>6. Bounded'
  BY <1>2, <1>5 DEF PoolInv, Bounded
<1>7. Phases'
  <2>1. sizer.pc # "off" /\ sizer.pc # "gone"
    <3>1. Workers > 0
      BY <1>0, Fields DEF Workers
    <3>2. sizer.pc # "gone"
      BY <3>1 DEF PoolInv, Phases
    <3>3. sizer.pc # "off"
      BY <1>0, Fields DEF PoolInv, Phases
    <3> QED BY <3>2, <3>3
  <2> QED BY <1>1, <1>2, <2>1 DEF PoolInv, Phases
<1> QED BY <1>2, <1>3, <1>4, <1>6, <1>7 DEF PoolInv

LEMMA StartChunkKeeps ==
  ASSUME PoolInv, StartChunk
  PROVE  PoolInv'
<1> DEFINE lo == pool.looping - 1
           bu == pool.busy + 1
           q == chunks.queued - 1
<1>0. PoolTypeOK
  BY DEF PoolInv
<1>1. lo \in Nat /\ bu \in Nat /\ lo + bu = pool.looping + pool.busy /\ pool.looping + pool.busy > 0
  BY <1>0, Fields DEF StartChunk
<1>2. q \in Nat
  <2>1. chunks.queued \in Nat
    BY <1>0 DEF PoolTypeOK
  <2> QED BY <2>1 DEF StartChunk
<1>3. /\ pool' = [pool EXCEPT !.looping = lo, !.busy = bu]
      /\ chunks' = [chunks EXCEPT !.queued = q]
      /\ UNCHANGED <<sizer, slowTune, closing, tunerVars>>
  BY <1>0, Fields DEF StartChunk
<1> HIDE DEF lo, bu, q
<1>4. RestTypeOK'
  BY <1>0, <1>2, <1>3, Fields DEF RestTypeOK
<1> QED BY <1>1, <1>3, <1>4, ChunkKeeps, Zenon

LEMMA FinishChunkKeeps ==
  ASSUME PoolInv, FinishChunk
  PROVE  PoolInv'
<1> DEFINE lo == pool.looping + 1
           bu == pool.busy - 1
           d == chunks.done + 1
<1>0. PoolTypeOK
  BY DEF PoolInv
<1>1. lo \in Nat /\ bu \in Nat /\ lo + bu = pool.looping + pool.busy /\ pool.looping + pool.busy > 0
  BY <1>0, Fields DEF FinishChunk
<1>2. d \in Nat
  <2>1. chunks.done \in Nat
    BY <1>0 DEF PoolTypeOK
  <2> QED BY <2>1
<1>3. /\ pool' = [pool EXCEPT !.busy = bu, !.looping = lo]
      /\ chunks' = [chunks EXCEPT !.done = d]
      /\ UNCHANGED <<sizer, slowTune, closing, tunerVars>>
  BY DEF FinishChunk
<1> HIDE DEF lo, bu, d
<1>4. RestTypeOK'
  BY <1>0, <1>2, <1>3, Fields DEF RestTypeOK
<1>5. pool' = [pool EXCEPT !.looping = lo, !.busy = bu]
  BY <1>0, <1>3, Fields DEF PoolStates
<1> QED BY <1>1, <1>3, <1>4, <1>5, ChunkKeeps, Zenon

(* The steps outside the sizer and its workers.                            *)
LEMMA OthersKeep ==
  ASSUME PoolInv, UNCHANGED <<sizer, pool>>, slowTune' = slowTune, TunerInv', RestTypeOK',
         Phases'
  PROVE  PoolInv'
<1>1. PoolTypeOK'
  BY DEF PoolInv, TunerInv, RestTypeOK, PoolTypeOK
<1> QED BY <1>1 DEF PoolInv, Counted, Waiting, Starting, Leaving, Bounded, Workers, Extra

LEMMA ScheduleChunkKeeps ==
  ASSUME PoolInv, ScheduleChunk
  PROVE  PoolInv'
<1> DEFINE a == chunks.ahead - 1
           q == chunks.queued + 1
<1>0. PoolTypeOK
  BY DEF PoolInv
<1>1. a \in Nat /\ q \in Nat
  <2>1. chunks.ahead \in Nat /\ chunks.queued \in Nat
    BY <1>0 DEF PoolTypeOK
  <2> QED BY <2>1 DEF ScheduleChunk
<1>2. chunks' = [chunks EXCEPT !.ahead = a, !.queued = q]
      /\ UNCHANGED <<sizer, pool, slowTune, closing, tunerVars>>
  BY DEF ScheduleChunk
<1> HIDE DEF a, q
<1>3. RestTypeOK'
  BY <1>0, <1>1, <1>2, Fields DEF RestTypeOK
<1>4. TunerInv' /\ Phases'
  BY <1>2, Unchanged DEF PoolInv, Phases, Workers
<1> QED BY <1>2, <1>3, <1>4, OthersKeep

LEMMA ClosingKeeps ==
  ASSUME Patience, PoolInv, CleanUp \/ SchedulerCloses
  PROVE  PoolInv'
<1>0. PoolTypeOK
  BY DEF PoolInv
<1>1. /\ Calm /\ UNCHANGED <<sizer, pool, chunks, slowTune, tunerVars>>
      /\ \/ closing = "no" /\ closing' = "scheduler"
         \/ closing = "scheduler" /\ closing' = "signalled"
  BY DEF CleanUp, SchedulerCloses
<1>2. RestTypeOK'
  BY <1>0, <1>1, Fields DEF RestTypeOK
<1>3. TunerInv' /\ Phases'
  BY <1>1, Unchanged DEF PoolInv, Phases, Calm, Workers
<1> QED BY <1>1, <1>2, <1>3, OthersKeep

LEMMA PipelineSubscribesKeeps ==
  ASSUME PoolInv, PipelineSubscribes
  PROVE  PoolInv'
<1>0. PoolTypeOK
  BY DEF PoolInv
<1>1. Subscribe /\ UNCHANGED <<sizer, pool, chunks, slowTune, closing>>
  BY DEF PipelineSubscribes
<1>2. RestTypeOK'
  BY <1>0, <1>1, Fields DEF RestTypeOK
<1>3. TunerInv' /\ Phases'
  BY <1>1, SubscribeKeeps DEF PoolInv, Phases, Workers
<1> QED BY <1>1, <1>2, <1>3, OthersKeep

-----------------------------------------------------------------------------
LEMMA PoolStarts ==
  ASSUME PoolInit
  PROVE  PoolInv
<1>1. TunerInv
  BY TunerStarts DEF PoolInit
<1>2. /\ sizer = [pc |-> "off", target |-> 0, actual |-> 0, stable |-> FALSE, listening |-> TRUE]
      /\ pool = [starting |-> 0, looping |-> 0, busy |-> 0, leaving |-> 0]
      /\ chunks = [ahead |-> MaxChunks, queued |-> 0, done |-> 0]
      /\ slowTune = [asked |-> 0, heard |-> FALSE] /\ closing = "no"
  BY DEF PoolInit
<1>3. PoolTypeOK
  BY <1>1, <1>2, PoolBoundsAssumption DEF TunerInv, PoolTypeOK
<1>4. /\ sizer.pc = "off" /\ sizer.target = 0 /\ sizer.actual = 0 /\ sizer.listening = TRUE
      /\ pool.starting = 0 /\ pool.looping = 0 /\ pool.busy = 0 /\ pool.leaving = 0
      /\ slowTune.heard = FALSE /\ Extra = 0
  BY <1>2 DEF Extra
<1>5. Counted /\ Waiting /\ Starting /\ Leaving
  BY <1>4 DEF Counted, Waiting, Starting, Leaving
<1>6. Bounded
  BY <1>4, PoolSizesAssumption DEF Bounded, Workers
<1>7. Phases
  BY <1>2, <1>4 DEF Phases
<1> QED BY <1>1, <1>3, <1>5, <1>6, <1>7 DEF PoolInv

LEMMA PoolStutters ==
  ASSUME PoolInv, UNCHANGED poolVars
  PROVE  PoolInv'
<1>1. UNCHANGED <<sizer, pool, chunks, slowTune, closing, tunerVars>>
  BY DEF poolVars
<1>2. TunerInv' /\ RestTypeOK' /\ Phases'
  BY <1>1, Unchanged, Fields DEF PoolInv, RestTypeOK, Phases, Workers
<1> QED BY <1>1, <1>2, OthersKeep

LEMMA PoolInvHolds ==
  ASSUME PoolInv
  PROVE  PoolIsCounted
<1>1. PoolTypeOK /\ RecommendedInRange /\ StableWhenCalled
  BY TunerInvHolds DEF PoolInv
<1> QED BY <1>1 DEF PoolInv, Counted, Bounded, Phases, Extra, PoolIsCounted

(***************************************************************************)
(* What poolSizer promises of its workers, for every size of the pool and  *)
(* every number of chunks: the count it publishes is the number of workers *)
(* there are, it never outgrows the maximum (but for the one worker of a   *)
(* request to tune slowly), it is gone only when they are, the tuner never *)
(* recommends what the settings forbid, and only a final value is called   *)
(* stable.  The timers are patient: a worker needs less than four seconds  *)
(* to say that it started or left (without that the bound fails).          *)
(***************************************************************************)
THEOREM PoolCounted ==
  ASSUME Patience
  PROVE  PoolSpec => []PoolIsCounted
<1>1. PoolInit => PoolInv
  BY PoolStarts
<1>2. PoolInv /\ [PoolNext]_poolVars => PoolInv'
  BY StartSizerKeeps, WorkerEntersKeeps, WorkerExitsKeeps, TakeScalebackKeeps,
     StartChunkKeeps, FinishChunkKeeps, ScheduleChunkKeeps, RequestTuneSlowlyKeeps,
     TickKeeps, ClosingKeeps, SizerDoneKeeps, PipelineSubscribesKeeps, PoolStutters
     DEF PoolNext
<1>3. PoolInv => PoolIsCounted
  BY PoolInvHolds
<1> QED BY <1>1, <1>2, <1>3, PTL DEF PoolSpec

-----------------------------------------------------------------------------
(* What the monitor's window holds are the last samples, in order.         *)
Holds(w, h) == \A i \in 1..Len(w) : w[i] = h[Len(h) - Len(w) + i]

SlowBeyond(h) == {i \in 1..Len(h) : i > WindowSize /\ h[i]}
SlowTail(h, k) == {i \in 1..Len(h) : i > Len(h) - k /\ h[i]}
Base(h) == IF Len(h) < WindowSize THEN Len(h) ELSE WindowSize

CpuInv ==
    /\ SlowIsNotMissed
    /\ Holds(valuesInWindow, samples)
    /\ Len(valuesInWindow) <= Len(samples)

LEMMA SlowFinite ==
  ASSUME NEW h \in Seq(BOOLEAN), NEW k \in Nat
  PROVE  /\ IsFiniteSet(SlowBeyond(h)) /\ Cardinality(SlowBeyond(h)) \in Nat
         /\ IsFiniteSet(SlowTail(h, k)) /\ Cardinality(SlowTail(h, k)) \in Nat
<1>1. IsFiniteSet(1..Len(h))
  BY FS_Interval
<1>2. SlowBeyond(h) \subseteq 1..Len(h) /\ SlowTail(h, k) \subseteq 1..Len(h)
  BY DEF SlowBeyond, SlowTail
<1>3. IsFiniteSet(SlowBeyond(h)) /\ IsFiniteSet(SlowTail(h, k))
  BY <1>1, <1>2, FS_Subset
<1> QED BY <1>3, FS_CardinalityType

(* One more sample.                                                        *)
LEMMA SampleAppended ==
  ASSUME NEW h \in Seq(BOOLEAN), NEW slow \in BOOLEAN
  PROVE  /\ Append(h, slow) \in Seq(BOOLEAN) /\ Len(Append(h, slow)) = Len(h) + 1
         /\ Append(h, slow)[Len(h) + 1] = slow
         /\ \A i \in 1..Len(h) : Append(h, slow)[i] = h[i]
  OBVIOUS

LEMMA BeyondAppended ==
  ASSUME NEW h \in Seq(BOOLEAN), NEW slow \in BOOLEAN
  PROVE  Cardinality(SlowBeyond(Append(h, slow)))
           = Cardinality(SlowBeyond(h)) + (IF slow /\ Len(h) >= WindowSize THEN 1 ELSE 0)
<1> DEFINE n == Len(h) + 1
           g == Append(h, slow)
<1>0. n \in Nat /\ Len(h) \in Nat /\ WindowSize \in Nat
  BY WindowAssumption
<1>1. Len(g) = n /\ g[n] = slow /\ \A i \in 1..Len(h) : g[i] = h[i]
  BY SampleAppended
<1>2. n \notin SlowBeyond(h)
  BY DEF SlowBeyond
<1> HIDE DEF g
<1>3. SlowBeyond(g) = IF slow /\ Len(h) >= WindowSize THEN SlowBeyond(h) \cup {n} ELSE SlowBeyond(h)
  BY <1>0, <1>1 DEF SlowBeyond
<1>4. IsFiniteSet(SlowBeyond(h)) /\ Cardinality(SlowBeyond(h)) \in Nat
  BY SlowFinite
<1>5. Cardinality(SlowBeyond(h) \cup {n}) = Cardinality(SlowBeyond(h)) + 1
  BY <1>2, <1>4, FS_AddElement
<1>6. Cardinality(SlowBeyond(g)) = Cardinality(SlowBeyond(h)) + (IF slow /\ Len(h) >= WindowSize THEN 1 ELSE 0)
  BY <1>3, <1>4, <1>5
<1> QED BY <1>6 DEF g

(* ... which lengthens the window, or ...                                  *)
LEMMA TailLengthened ==
  ASSUME NEW h \in Seq(BOOLEAN), NEW slow \in BOOLEAN, NEW k \in Nat
  PROVE  Cardinality(SlowTail(Append(h, slow), k + 1))
           = Cardinality(SlowTail(h, k)) + (IF slow THEN 1 ELSE 0)
<1> DEFINE n == Len(h) + 1
           g == Append(h, slow)
<1>0. n \in Nat /\ Len(h) \in Nat
  OBVIOUS
<1>1. Len(g) = n /\ g[n] = slow /\ \A i \in 1..Len(h) : g[i] = h[i]
  BY SampleAppended
<1>2. n \notin SlowTail(h, k)
  BY DEF SlowTail
<1> HIDE DEF g
<1>3. SlowTail(g, k + 1) = IF slow THEN SlowTail(h, k) \cup {n} ELSE SlowTail(h, k)
  BY <1>0, <1>1 DEF SlowTail
<1>4. IsFiniteSet(SlowTail(h, k)) /\ Cardinality(SlowTail(h, k)) \in Nat
  BY SlowFinite
<1>5. Cardinality(SlowTail(h, k) \cup {n}) = Cardinality(SlowTail(h, k)) + 1
  BY <1>2, <1>4, FS_AddElement
<1>6. Cardinality(SlowTail(g, k + 1)) = Cardinality(SlowTail(h, k)) + (IF slow THEN 1 ELSE 0)
  BY <1>3, <1>4, <1>5
<1> QED BY <1>6 DEF g

(* ... moves it along, past the sample it began with.                      *)
LEMMA TailMoved ==
  ASSUME NEW h \in Seq(BOOLEAN), NEW k \in Nat, k > 0, k <= Len(h)
  PROVE  Cardinality(SlowTail(h, k))
           = Cardinality(SlowTail(Append(h, FALSE), k)) + (IF h[Len(h) - k + 1] THEN 1 ELSE 0)
<1> DEFINE n == Len(h) + 1
           g == Append(h, FALSE)
           f == Len(h) - k + 1
<1>0. n \in Nat /\ Len(h) \in Nat /\ f \in 1..Len(h)
  OBVIOUS
<1>1. g \in Seq(BOOLEAN) /\ Len(g) = n /\ g[n] = FALSE /\ \A i \in 1..Len(h) : g[i] = h[i]
  BY SampleAppended
<1> HIDE DEF g
<1>2. f \notin SlowTail(g, k)
  BY <1>0, <1>1 DEF SlowTail
<1>3. SlowTail(h, k) = IF h[f] THEN SlowTail(g, k) \cup {f} ELSE SlowTail(g, k)
  BY <1>0, <1>1 DEF SlowTail
<1>4. IsFiniteSet(SlowTail(g, k)) /\ Cardinality(SlowTail(g, k)) \in Nat
  BY <1>1, SlowFinite
<1>5. Cardinality(SlowTail(g, k) \cup {f}) = Cardinality(SlowTail(g, k)) + 1
  BY <1>2, <1>4, FS_AddElement
<1>6. Cardinality(SlowTail(h, k)) = Cardinality(SlowTail(g, k)) + (IF h[f] THEN 1 ELSE 0)
  BY <1>3, <1>4, <1>5
<1> QED BY <1>6 DEF g, f

(* The slow ones of the last samples are among those of a longer window.   *)
LEMMA TailWithin ==
  ASSUME NEW h \in Seq(BOOLEAN), NEW k \in Nat, NEW j \in Nat, k <= j \/ Len(h) <= j
  PROVE  Cardinality(SlowTail(h, k)) <= Cardinality(SlowTail(h, j))
<1>1. SlowTail(h, k) \subseteq SlowTail(h, j)
  BY DEF SlowTail
<1> QED BY <1>1, SlowFinite, FS_Subset

LEMMA TailOfOne ==
  ASSUME NEW v \in Seq(BOOLEAN), Len(v) > 0
  PROVE  /\ Tail(v) \in Seq(BOOLEAN) /\ Len(Tail(v)) = Len(v) - 1 /\ Head(v) = v[1]
         /\ \A i \in 1..(Len(v) - 1) : Tail(v)[i] = v[i + 1]
  OBVIOUS

(* The window and the history belong together: between them the count.     *)
Fits(w, h, c) ==
    /\ w \in Seq(BOOLEAN) /\ h \in Seq(BOOLEAN)
    /\ Len(w) = Base(h) + Cardinality(SlowBeyond(h))
    /\ c = Cardinality(SlowTail(h, Len(w)))
    /\ Holds(w, h) /\ Len(w) <= Len(h)

(* A sample that pops none.                                                *)
LEMMA PushFits ==
  ASSUME NEW w, NEW h, NEW c, NEW slow \in BOOLEAN, Fits(w, h, c),
         slow \/ Len(w) < WindowSize
  PROVE  Fits(Append(w, slow), Append(h, slow), c + (IF slow THEN 1 ELSE 0))
<1> DEFINE x == Append(w, slow)
           g == Append(h, slow)
<1>1. /\ w \in Seq(BOOLEAN) /\ h \in Seq(BOOLEAN)
      /\ Len(w) = Base(h) + Cardinality(SlowBeyond(h))
      /\ c = Cardinality(SlowTail(h, Len(w)))
      /\ Holds(w, h) /\ Len(w) <= Len(h)
  BY DEF Fits
<1>2. WindowSize \in Nat /\ Len(w) \in Nat /\ Len(h) \in Nat
  BY <1>1, WindowAssumption
<1>3. /\ x \in Seq(BOOLEAN) /\ Len(x) = Len(w) + 1 /\ x[Len(w) + 1] = slow
      /\ \A i \in 1..Len(w) : x[i] = w[i]
  BY <1>1, SampleAppended
<1>4. /\ g \in Seq(BOOLEAN) /\ Len(g) = Len(h) + 1 /\ g[Len(h) + 1] = slow
      /\ \A i \in 1..Len(h) : g[i] = h[i]
  BY <1>1, SampleAppended
<1>5. Cardinality(SlowBeyond(g)) = Cardinality(SlowBeyond(h)) + (IF slow /\ Len(h) >= WindowSize THEN 1 ELSE 0)
  BY <1>1, BeyondAppended
<1>6. Cardinality(SlowBeyond(h)) \in Nat
  BY <1>1, SlowFinite
<1>7. Cardinality(SlowTail(g, Len(w) + 1)) = Cardinality(SlowTail(h, Len(w))) + (IF slow THEN 1 ELSE 0)
  BY <1>1, <1>2, TailLengthened
<1> HIDE DEF x, g
<1>8. Len(x) = Base(g) + Cardinality(SlowBeyond(g))
  <2>1. CASE Len(h) < WindowSize
    <3>1. Base(g) = Base(h) + 1 /\ Base(h) = Len(h)
      BY <1>2, <1>4, <2>1 DEF Base
    <3>2. Cardinality(SlowBeyond(g)) = Cardinality(SlowBeyond(h))
      BY <1>2, <1>5, <1>6, <2>1
    <3> QED BY <1>1, <1>2, <1>3, <1>6, <3>1, <3>2
  <2>2. CASE Len(h) >= WindowSize
    <3>1. Base(g) = WindowSize /\ Base(h) = WindowSize
      BY <1>2, <1>4, <2>2 DEF Base
    <3>2. slow
      BY <1>1, <1>2, <1>6, <3>1
    <3>3. Cardinality(SlowBeyond(g)) = Cardinality(SlowBeyond(h)) + 1
      BY <1>5, <2>2, <3>2
    <3> QED BY <1>1, <1>2, <1>3, <1>6, <3>1, <3>3
  <2> QED BY <1>2, <2>1, <2>2
<1>9. Holds(x, g)
  <2> SUFFICES ASSUME NEW i \in 1..(Len(w) + 1) PROVE x[i] = g[Len(h) + 1 - (Len(w) + 1) + i]
    BY <1>3, <1>4 DEF Holds
  <2>1. CASE i = Len(w) + 1
    <3>1. Len(h) + 1 - (Len(w) + 1) + i = Len(h) + 1
      BY <1>2, <2>1
    <3> QED BY <1>3, <1>4, <2>1, <3>1
  <2>2. CASE i # Len(w) + 1
    <3>1. i \in 1..Len(w)
      BY <1>2, <2>2
    <3>2. x[i] = h[Len(h) - Len(w) + i]
      BY <1>1, <1>3, <3>1 DEF Holds
    <3>3. Len(h) - Len(w) + i \in 1..Len(h) /\ Len(h) - Len(w) + i = Len(h) + 1 - (Len(w) + 1) + i
      BY <1>1, <1>2, <3>1
    <3> QED BY <1>4, <3>2, <3>3
  <2> QED BY <2>1, <2>2
<1>10. c + (IF slow THEN 1 ELSE 0) = Cardinality(SlowTail(g, Len(x)))
  BY <1>1, <1>3, <1>7
<1>11. Len(x) <= Len(g)
  BY <1>1, <1>2, <1>3, <1>4
<1>12. Fits(x, g, c + (IF slow THEN 1 ELSE 0))
  BY <1>3, <1>4, <1>8, <1>9, <1>10, <1>11 DEF Fits
<1> QED BY <1>12 DEF x, g

LEMMA NextPlace ==
  ASSUME NEW n \in Nat, NEW m \in Nat, m <= n, NEW i \in 1..m, i # m
  PROVE  n - m + (i + 1) \in 1..n /\ n - m + (i + 1) = n + 1 - m + i
  OBVIOUS

LEMMA TailOfPushed ==
  ASSUME NEW u \in Seq(BOOLEAN)
  PROVE  Len(Tail(Append(u, FALSE))) = Len(u)
<1> DEFINE v == Append(u, FALSE)
<1>1. v \in Seq(BOOLEAN) /\ Len(v) = Len(u) + 1 /\ Len(u) \in Nat
  BY SampleAppended
<1> HIDE DEF v
<1>2. Len(v) > 0 /\ Len(v) - 1 = Len(u)
  BY <1>1
<1>3. Len(Tail(v)) = Len(u)
  BY <1>1, <1>2, TailOfOne
<1> QED BY <1>3, Zenon DEF v

(* A normal sample when the window is full: the oldest is popped.          *)
LEMMA PopFits ==
  ASSUME NEW w, NEW h, NEW c, Fits(w, h, c), Len(w) >= WindowSize
  PROVE  Fits(Tail(Append(w, FALSE)), Append(h, FALSE),
              IF Head(Append(w, FALSE)) THEN c - 1 ELSE c)
<1> DEFINE v == Append(w, FALSE)
           x == Tail(v)
           g == Append(h, FALSE)
           f == Len(h) - Len(w) + 1
<1>1. /\ w \in Seq(BOOLEAN) /\ h \in Seq(BOOLEAN)
      /\ Len(w) = Base(h) + Cardinality(SlowBeyond(h))
      /\ c = Cardinality(SlowTail(h, Len(w)))
      /\ Holds(w, h) /\ Len(w) <= Len(h)
  BY DEF Fits
<1>2. WindowSize \in Nat /\ WindowSize # 0 /\ Len(w) \in Nat /\ Len(h) \in Nat
  BY <1>1, WindowAssumption
<1>3. /\ v \in Seq(BOOLEAN) /\ Len(v) = Len(w) + 1 /\ v[Len(w) + 1] = FALSE
      /\ \A i \in 1..Len(w) : v[i] = w[i]
  BY <1>1, SampleAppended
<1>4. /\ g \in Seq(BOOLEAN) /\ Len(g) = Len(h) + 1 /\ g[Len(h) + 1] = FALSE
      /\ \A i \in 1..Len(h) : g[i] = h[i]
  BY <1>1, SampleAppended
<1>5. Cardinality(SlowBeyond(g)) = Cardinality(SlowBeyond(h))
  <2>1. Cardinality(SlowBeyond(h)) \in Nat
    BY <1>1, SlowFinite
  <2>2. Cardinality(SlowBeyond(g)) = Cardinality(SlowBeyond(h)) + 0
    BY <1>1, BeyondAppended, Zenon
  <2>3. Cardinality(SlowBeyond(h)) + 0 = Cardinality(SlowBeyond(h))
    BY <1>2, <2>1
  <2> QED BY <2>2, <2>3, Zenon
<1>6. Cardinality(SlowTail(h, Len(w))) = Cardinality(SlowTail(g, Len(w))) + (IF h[f] THEN 1 ELSE 0)
  <2>1. Len(w) > 0
    BY <1>2
  <2> QED BY <1>1, <1>2, <2>1, TailMoved
<1>7. Cardinality(SlowTail(g, Len(w))) \in Nat
  BY <1>2, <1>4, SlowFinite
<1> HIDE DEF v
<1>8. /\ x \in Seq(BOOLEAN) /\ Len(x) = Len(w) /\ Head(v) = v[1]
      /\ \A i \in 1..Len(w) : x[i] = v[i + 1]
  <2>1. Len(v) > 0 /\ Len(v) - 1 = Len(w)
    BY <1>2, <1>3
  <2> QED BY <1>3, <2>1, TailOfOne
<1> HIDE DEF x, g, f
<1>9. Len(x) = Base(g) + Cardinality(SlowBeyond(g))
  <2>1. Base(g) = Base(h)
    BY <1>1, <1>2, <1>4 DEF Base
  <2> QED BY <1>1, <1>5, <1>8, <2>1
<1>10. Holds(x, g)
  <2> SUFFICES ASSUME NEW i \in 1..Len(w) PROVE x[i] = g[Len(h) + 1 - Len(w) + i]
    BY <1>4, <1>8 DEF Holds
  <2>1. x[i] = v[i + 1]
    BY <1>8
  <2>2. CASE i = Len(w)
    <3>1. Len(h) + 1 - Len(w) + i = Len(h) + 1 /\ i + 1 = Len(w) + 1
      BY <1>2, <2>2
    <3> QED BY <1>3, <1>4, <2>1, <3>1
  <2>3. CASE i # Len(w)
    <3>1. i + 1 \in 1..Len(w)
      BY <1>2, <2>3
    <3>2. v[i + 1] = h[Len(h) - Len(w) + (i + 1)]
      BY <1>1, <1>3, <3>1 DEF Holds
    <3>3. Len(h) - Len(w) + (i + 1) \in 1..Len(h) /\ Len(h) - Len(w) + (i + 1) = Len(h) + 1 - Len(w) + i
      BY <1>1, <1>2, <2>3, NextPlace, Zenon
    <3>4. g[Len(h) - Len(w) + (i + 1)] = h[Len(h) - Len(w) + (i + 1)]
      BY <1>4, <3>3, Zenon
    <3>5. g[Len(h) - Len(w) + (i + 1)] = g[Len(h) + 1 - Len(w) + i]
      BY <3>3, Zenon
    <3> QED BY <2>1, <3>2, <3>4, <3>5, Zenon
  <2> QED BY <2>2, <2>3
<1>11. Head(v) = h[f] /\ h[f] \in BOOLEAN
  <2>1. 1 \in 1..Len(w) /\ f \in 1..Len(h)
    BY <1>1, <1>2 DEF f
  <2>2. v[1] = w[1] /\ w[1] = h[Len(h) - Len(w) + 1]
    BY <1>1, <1>3, <2>1 DEF Holds
  <2>3. h[f] \in BOOLEAN
    BY <1>1, <2>1
  <2> QED BY <1>8, <2>2, <2>3 DEF f
<1>12. (IF Head(v) THEN c - 1 ELSE c) = Cardinality(SlowTail(g, Len(x)))
  <2>1. c = Cardinality(SlowTail(g, Len(x))) + (IF Head(v) THEN 1 ELSE 0)
    BY <1>1, <1>6, <1>8, <1>11, Zenon
  <2>2. Cardinality(SlowTail(g, Len(x))) \in Nat
    BY <1>7, <1>8, Zenon
  <2>3. CASE Head(v)
    <3>1. c = Cardinality(SlowTail(g, Len(x))) + 1
      BY <2>1, <2>3, Zenon
    <3>2. c - 1 = Cardinality(SlowTail(g, Len(x)))
      BY <1>2, <2>2, <3>1
    <3> QED BY <2>3, <3>2, Zenon
  <2>4. CASE ~Head(v)
    <3>1. c = Cardinality(SlowTail(g, Len(x))) + 0
      BY <2>1, <2>4, Zenon
    <3>2. c = Cardinality(SlowTail(g, Len(x)))
      BY <1>2, <2>2, <3>1
    <3> QED BY <2>4, <3>2, Zenon
  <2> QED BY <2>3, <2>4, Zenon
<1>13. Len(x) <= Len(g)
  BY <1>1, <1>2, <1>4, <1>8
<1>14. Fits(x, g, IF Head(v) THEN c - 1 ELSE c)
  BY <1>4, <1>8, <1>9, <1>10, <1>12, <1>13, Zenon DEF Fits
<1> QED BY <1>14, Zenon DEF x, g, v

(* Half of the last WindowSize are slow: then so are as many of the window. *)
LEMMA CountCovers ==
  ASSUME NEW w, NEW h, NEW c, Fits(w, h, c)
  PROVE  /\ c \in Nat /\ Len(w) \in Nat /\ Cardinality(SlowTail(h, WindowSize)) \in Nat
         /\ Cardinality(SlowTail(h, WindowSize)) <= c
<1>1. /\ w \in Seq(BOOLEAN) /\ h \in Seq(BOOLEAN)
      /\ Len(w) = Base(h) + Cardinality(SlowBeyond(h))
      /\ c = Cardinality(SlowTail(h, Len(w)))
  BY DEF Fits
<1>2. WindowSize \in Nat /\ Len(w) \in Nat /\ Len(h) \in Nat
  BY <1>1, WindowAssumption
<1>3. Cardinality(SlowBeyond(h)) \in Nat
  BY <1>1, SlowFinite
<1>4. WindowSize <= Len(w) \/ Len(h) <= Len(w)
  BY <1>1, <1>2, <1>3 DEF Base
<1>5. Cardinality(SlowTail(h, WindowSize)) <= Cardinality(SlowTail(h, Len(w)))
  BY <1>1, <1>2, <1>4, TailWithin
<1> QED BY <1>1, <1>2, <1>5, SlowFinite

LEMMA CpuInvIsFits ==
  /\ CpuInv <=> /\ Fits(valuesInWindow, samples, rollingCount) /\ CpuTypeOK
                /\ (samples # << >> /\ Cardinality(SlowTail(samples, WindowSize)) >= WindowSize \div 2
                      => contention)
  /\ CpuInv' <=> /\ Fits(valuesInWindow', samples', rollingCount') /\ CpuTypeOK'
                 /\ (samples' # << >> /\ Cardinality(SlowTail(samples', WindowSize)) >= WindowSize \div 2
                       => contention')
  BY Zenon DEF CpuInv, Fits, SlowIsNotMissed, CpuTypeOK, Base, SlowBeyond, SlowSinceFull, SlowTail, SlowOfLast

LEMMA ComputeKeeps ==
  ASSUME CpuInv, NEW slow \in BOOLEAN, Compute(slow)
  PROVE  CpuInv'
<1>1. Fits(valuesInWindow, samples, rollingCount) /\ CpuTypeOK
  BY CpuInvIsFits
<1>2. /\ durations > 0 /\ durations' = durations - 1 /\ Len(valuesInWindow) < WindowCap
      /\ contention' = (rollingCount' >= WindowSize \div 2)
      /\ samples' = Append(samples, slow)
  BY Zenon DEF Compute
<1>3. /\ WindowSize \in Nat /\ WindowSize # 0 /\ WindowCap \in Nat /\ DurationsCap \in Nat
  BY WindowAssumption
<1>4. /\ valuesInWindow \in Seq(BOOLEAN) /\ Len(valuesInWindow) \in Nat /\ rollingCount \in Nat
      /\ durations \in 0..DurationsCap
  BY <1>1 DEF CpuTypeOK
<1>5. Len(Append(valuesInWindow, slow)) = Len(valuesInWindow) + 1
  BY <1>4, SampleAppended
<1>6. Fits(valuesInWindow', samples', rollingCount') /\ Len(valuesInWindow') <= WindowCap
  <2>1. CASE slow \/ Len(valuesInWindow) < WindowSize
    <3>1. ~(~slow /\ IsOverfull(Append(valuesInWindow, slow)))
      BY <1>3, <1>4, <1>5, <2>1 DEF IsOverfull
    <3>2. /\ valuesInWindow' = Append(valuesInWindow, slow)
          /\ rollingCount' = rollingCount + (IF slow THEN 1 ELSE 0)
      <4>1. /\ valuesInWindow' = Append(valuesInWindow, slow)
            /\ rollingCount' = IF slow THEN rollingCount + 1 ELSE rollingCount
        BY <3>1, Zenon DEF Compute
      <4> QED BY <1>4, <4>1
    <3>3. Fits(valuesInWindow', samples', rollingCount')
      BY <1>1, <1>2, <2>1, <3>2, PushFits
    <3> QED BY <1>2, <1>3, <1>4, <1>5, <3>2, <3>3
  <2>2. CASE ~slow /\ Len(valuesInWindow) >= WindowSize
    <3>1. ~slow /\ IsOverfull(Append(valuesInWindow, slow)) /\ slow = FALSE
      BY <1>3, <1>4, <1>5, <2>2 DEF IsOverfull
    <3>2. /\ valuesInWindow' = Tail(Append(valuesInWindow, FALSE))
          /\ rollingCount' = IF Head(Append(valuesInWindow, FALSE)) THEN rollingCount - 1 ELSE rollingCount
          /\ samples' = Append(samples, FALSE)
      BY <1>2, <3>1, Zenon DEF Compute
    <3>3. Fits(valuesInWindow', samples', rollingCount')
      BY <1>1, <2>2, <3>2, PopFits, Zenon
    <3>4. Len(Tail(Append(valuesInWindow, FALSE))) = Len(valuesInWindow)
      BY <1>4, TailOfPushed, Zenon
    <3>5. Len(valuesInWindow') = Len(valuesInWindow)
      BY <3>2, <3>4, Zenon
    <3>6. Len(valuesInWindow') <= WindowCap
      BY <1>2, <1>3, <1>4, <3>5
    <3> QED BY <3>3, <3>6
  <2> QED BY <1>3, <1>4, <2>1, <2>2
<1>7. /\ rollingCount' \in Nat /\ Cardinality(SlowTail(samples', WindowSize)) \in Nat
      /\ Cardinality(SlowTail(samples', WindowSize)) <= rollingCount'
  BY <1>6, CountCovers
<1>8. WindowSize \div 2 \in Int
  BY <1>3
<1>9. Cardinality(SlowTail(samples', WindowSize)) >= WindowSize \div 2 => contention'
  <2> SUFFICES ASSUME Cardinality(SlowTail(samples', WindowSize)) >= WindowSize \div 2
               PROVE  rollingCount' >= WindowSize \div 2
    BY <1>2
  <2> QED BY <1>7, <1>8
<1>10. contention' \in BOOLEAN
  BY <1>2
<1>11. durations' \in 0..DurationsCap
  BY <1>2, <1>3, <1>4
<1>12. valuesInWindow' \in Seq(BOOLEAN) /\ samples' \in Seq(BOOLEAN)
  BY <1>6 DEF Fits
<1>13. CpuTypeOK'
  BY <1>6, <1>7, <1>10, <1>11, <1>12 DEF CpuTypeOK
<1> QED BY <1>6, <1>9, <1>13, CpuInvIsFits

(***************************************************************************)
(* The monitor never misses contention: its count is that of a window      *)
(* that is at least as long as it should be, by exactly the slow samples   *)
(* that have come since it was full, for every size of window and channel. *)
(***************************************************************************)
THEOREM SlowNotMissed == CpuSpec => []SlowIsNotMissed
<1>1. CpuInit => CpuInv
  <2> SUFFICES ASSUME CpuInit PROVE CpuInv
    OBVIOUS
  <2>1. /\ valuesInWindow = << >> /\ rollingCount = 0 /\ contention = FALSE /\ durations = 0
        /\ samples = << >>
    BY DEF CpuInit
  <2>2. << >> \in Seq(BOOLEAN) /\ Len(<< >>) = 0 /\ 1..0 = {}
    OBVIOUS
  <2>3. SlowSinceFull = {} /\ SlowOfLast(0) = {}
    BY <2>1, <2>2 DEF SlowSinceFull, SlowOfLast
  <2>4. Cardinality({}) = 0
    BY FS_EmptySet
  <2>5. valuesInWindow \in Seq(BOOLEAN) /\ samples \in Seq(BOOLEAN) /\ Len(valuesInWindow) = 0
    BY <2>1, <2>2
  <2>6. /\ 0 < WindowSize /\ 0 <= WindowCap /\ 0 \in 0..DurationsCap
    BY WindowAssumption
  <2>7. CpuTypeOK
    BY <2>1, <2>5, <2>6 DEF CpuTypeOK
  <2>8. Holds(valuesInWindow, samples)
    BY <2>1, <2>2 DEF Holds
  <2>9. Len(valuesInWindow) = (IF Len(samples) < WindowSize THEN Len(samples) ELSE WindowSize)
                                + Cardinality(SlowSinceFull)
    BY <2>1, <2>2, <2>3, <2>4, <2>6
  <2>10. rollingCount = Cardinality(SlowOfLast(Len(valuesInWindow)))
    BY <2>1, <2>2, <2>3, <2>4
  <2>11. Len(valuesInWindow) <= Len(samples)
    BY <2>1, <2>2
  <2> QED BY <2>1, <2>7, <2>8, <2>9, <2>10, <2>11, Zenon DEF CpuInv, SlowIsNotMissed
<1>2. CpuInv /\ [CpuNext]_cpuVars => CpuInv'
  <2> SUFFICES ASSUME CpuInv, [CpuNext]_cpuVars PROVE CpuInv'
    OBVIOUS
  <2>1. CASE Probe
    <3>1. durations' \in 0..DurationsCap
      BY <2>1, WindowAssumption DEF Probe, CpuInv, SlowIsNotMissed, CpuTypeOK
    <3> QED BY <2>1, <3>1, Zenon DEF Probe, CpuInv, Holds, SlowIsNotMissed, CpuTypeOK,
                                     SlowSinceFull, SlowOfLast
  <2>2. CASE ComputeAny
    BY <2>2, ComputeKeeps DEF ComputeAny
  <2>3. CASE UNCHANGED cpuVars
    BY <2>3, Zenon DEF cpuVars, CpuInv, Holds, SlowIsNotMissed, CpuTypeOK, SlowSinceFull, SlowOfLast
  <2> QED BY <2>1, <2>2, <2>3 DEF CpuNext
<1>3. CpuInv => SlowIsNotMissed
  BY DEF CpuInv
<1> QED BY <1>1, <1>2, <1>3, PTL DEF CpuSpec

=============================================================================
