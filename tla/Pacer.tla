------------------------------- MODULE Pacer -------------------------------
(***************************************************************************)
(* The token bucket that caps the transfer rate                            *)
(* (ste/pacer-tokenBucketPacer.go), its users - the bodies of requests and *)
(* responses (ste/pacedReadSeeker.go), which ask for a buffer at a time    *)
(* and return what they did not need, and the copies between services,     *)
(* which ask for a whole chunk (ste/sender-*FromURL.go) - and the user who *)
(* changes the rate of the running program (jobsAdmin/JobsAdmin.go).       *)
(***************************************************************************)
EXTENDS Integers, Sequences, FiniteSetsExt

CONSTANTS Askers,     \* goroutines with one request each
          Bytes,      \* Bytes[a]: what it asks for
          Buffered,   \* those that return the unused part
          Cap,        \* the target bytes per second of the command line; 0: not paced
          NewCaps,    \* the targets the user may set, one after the other
          Expected    \* expectedBytesPerRequest, 0 for the pacer of all jobs

ASSUME PacerAssumption ==
    /\ Bytes \in [Askers -> Nat \ {0}] /\ Buffered \subseteq Askers
    /\ Cap \in Nat /\ Expected \in Nat /\ NewCaps \in Seq(Nat)

VARIABLES bucket,     \* atomicTokenBucket
          target,     \* atomicTargetBytesPerSecond
          filler,     \* pacerBody: pc, its newTarget
          updates,    \* how many of NewCaps were offered and taken
          asker,      \* where each request stands
          stopping    \* the requests whose context is done

pacerVars == <<bucket, target, filler, updates, asker, stopping>>

PacerInit ==
    /\ bucket = Cap \div 4 /\ target = Cap
    /\ filler = [pc |-> "select", newTarget |-> Cap]
    /\ updates = [offered |-> 0, taken |-> 0]
    /\ asker = [a \in Askers |-> "asks"]
    /\ stopping = {}

AskerGoes(a, pc) == asker' = [asker EXCEPT ![a] = pc]

(* Without a target there is no pacing.                                    *)
Ask(a) ==
    /\ asker[a] = "asks"
    /\ AskerGoes(a, IF target = 0 THEN "allowed" ELSE "takes")
    /\ UNCHANGED <<bucket, target, filler, updates, stopping>>

(* Taking more than there is leaves the bucket below zero ...              *)
Take(a) ==
    /\ asker[a] = "takes"
    /\ bucket' = bucket - Bytes[a]
    /\ AskerGoes(a, IF bucket < Bytes[a] THEN "puts back" ELSE "allowed")
    /\ UNCHANGED <<target, filler, updates, stopping>>

(* ... until it is put back, and the request sleeps.                       *)
PutBack(a) ==
    /\ asker[a] = "puts back"
    /\ bucket' = bucket + Bytes[a]
    /\ AskerGoes(a, "sleeps")
    /\ UNCHANGED <<target, filler, updates, stopping>>

(* A sleep (a sixth of a second at least) outlasts what others do between  *)
(* two atomic additions: nobody wakes while another has yet to put back.   *)
\* Mutant: a request that waits does not see that pacing was switched off.
WakeStillPaced(a) ==
    /\ asker[a] = "sleeps" /\ \A b \in Askers : asker[b] # "puts back"
    /\ AskerGoes(a, "takes")
    /\ UNCHANGED <<bucket, target, filler, updates, stopping>>

Wake(a) ==
    /\ asker[a] = "sleeps" /\ \A b \in Askers : asker[b] # "puts back"
    /\ AskerGoes(a, IF target = 0 THEN "allowed" ELSE "takes")
    /\ UNCHANGED <<bucket, target, filler, updates, stopping>>

GiveUp(a) ==
    /\ asker[a] = "sleeps" /\ a \in stopping
    /\ AskerGoes(a, "gone")
    /\ UNCHANGED <<bucket, target, filler, updates, stopping>>

CancelRequest(a) ==
    /\ a \notin stopping
    /\ stopping' = stopping \cup {a}
    /\ UNCHANGED <<bucket, target, filler, updates, asker>>

(* The reader's UndoRequest, also of what an unpaced request never took.   *)
Proceed(a) ==
    /\ asker[a] = "allowed"
    /\ \E unused \in IF a \in Buffered THEN 0..Bytes[a] ELSE {0} : bucket' = bucket + unused
    /\ AskerGoes(a, "gone")
    /\ UNCHANGED <<target, filler, updates, stopping>>

(* UpdateTargetBytesPerSecond blocks until the filler takes the value.     *)
OfferCap ==
    /\ updates.offered = updates.taken /\ updates.offered < Len(NewCaps)
    /\ updates' = [updates EXCEPT !.offered = @ + 1]
    /\ UNCHANGED <<bucket, target, filler, asker, stopping>>

(* One round of pacerBody: a new target if there is one, which is set once *)
(* the last change is 20 seconds ago.                                      *)
SelectTarget ==
    LET new == IF updates.taken < updates.offered THEN NewCaps[updates.offered]
               ELSE filler.newTarget
    IN  /\ filler.pc = "select"
        /\ updates' = [updates EXCEPT !.taken = updates.offered]
        /\ target' \in {target, new}
        /\ filler' = [pc |-> "release", newTarget |-> new]
        /\ UNCHANGED <<bucket, asker, stopping>>

(* Tokens for the time slept, up to a second's worth.                      *)
Refill ==
    /\ filler.pc = "release"
    /\ \E tokens \in IF target = 0 THEN {0} ELSE 1..target : bucket' = bucket + tokens
    /\ filler' = [filler EXCEPT !.pc = "trim"]
    /\ UNCHANGED <<target, updates, asker, stopping>>

(* maxAllowedUnsentBytes: two and a half seconds' worth, or one request.   *)
MaxUnsent == LET burst == (target * 5) \div 2 IN IF burst < Expected THEN Expected ELSE burst

Trim ==
    /\ filler.pc = "trim"
    /\ bucket' = IF bucket > MaxUnsent THEN MaxUnsent ELSE bucket
    /\ filler' = [filler EXCEPT !.pc = "select"]
    /\ UNCHANGED <<target, updates, asker, stopping>>

AskerStep(a) == Ask(a) \/ Take(a) \/ PutBack(a) \/ Wake(a) \/ GiveUp(a) \/ Proceed(a)
FillerStep == SelectTarget \/ Refill \/ Trim

PacerNext == FillerStep \/ OfferCap \/ \E a \in Askers : AskerStep(a) \/ CancelRequest(a)

(* The filler and the requests run.  The waits are of varied lengths (a    *)
(* sixth to a half of a second), so that a request the bucket has room for *)
(* does not for ever ask in the instants in which others have taken what   *)
(* they are about to put back.                                             *)
Enough(a) == Bytes[a] <= bucket /\ Bytes[a] <= MaxUnsent

PacerFairness ==
    /\ WF_pacerVars(FillerStep)
    /\ \A a \in Askers : /\ WF_pacerVars(AskerStep(a))
                         /\ SF_pacerVars(Wake(a) /\ Enough(a))
                         /\ SF_pacerVars(Take(a) /\ Enough(a))

PacerSpec == PacerInit /\ [][PacerNext]_pacerVars /\ PacerFairness

-----------------------------------------------------------------------------
(***************************************************************************)
(* Every request is allowed to proceed in the end ("blocks until the       *)
(* caller is allowed to process byteCount bytes"), also when requests keep *)
(* taking and putting back beside it, when the user changes the rate or    *)
(* switches pacing off and when the bucket is trimmed: all but a request   *)
(* for more than the bucket may ever hold at the rate that stays, which    *)
(* may ask again and again for ever.                                       *)
(***************************************************************************)
TooLarge(a) == target # 0 /\ Bytes[a] > MaxUnsent

PacedRequestsEnd == <>[](\A a \in Askers : asker[a] = "gone" \/ TooLarge(a))

=============================================================================
