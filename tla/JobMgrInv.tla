----------------------------- MODULE JobMgrInv ------------------------------
(* Why JobMgr completes a job once and not too early: the inductive        *)
(* invariant behind CompletionCoversJob, SendFailsOnlyWhenCancelled and    *)
(* CompletesAtMostOnce. JobMgr_proofs proves it, MCCore checks it.         *)
EXTENDS JobMgr

CountedPcs == {"counted", "countedLast", "last", "reporting", "done"}

\* The transfer that was counted last and still has to report its part.
LastPcs == {"countedLast", "last", "reporting"}

Counted(p) == {t \in TransfersOf(p) : tpc[t] \in CountedPcs}

\* Parts whose report the handler has received.
Handled == {p \in Parts :
              /\ TransfersOf(p) # {}
              /\ \A t \in TransfersOf(p) : tpc[t] \in CountedPcs \ LastPcs}

\* Parts the front end has not put in the parts channel yet.
Unqueued == {p \in Parts :
               p > fePart \/ (p = fePart /\ fePc \in {"set", "final", "queue"})}

\* Parts are added in order, and the final one is flagged after it is added.
FrontEndInv ==
    /\ jobPartMgrs = {p \in Parts : p < fePart \/ (p = fePart /\ fePc # "set")}
    /\ fePc = "done" => fePart = LastPart
    /\ finalPartOrdered => fePart = LastPart /\ fePc \in {"queue", "send", "done"}

\* A part is scheduled once, after it was queued.
ScheduleInv ==
    /\ partsCh \intersect Unqueued = {}
    /\ \A t \in Transfers : PartOf[t] \in Unqueued \union partsCh =>
          tpc[t] = "new" /\ t \notin toSchedule
    /\ \A t \in toSchedule : tpc[t] = "new"

\* One transfer of a part finds itself the last, when all have been counted.
CountInv ==
    /\ \A p \in Parts : transfersDone[p] = Cardinality(Counted(p))
    /\ \A t \in Transfers : tpc[t] \in LastPcs =>
          Counted(PartOf[t]) = TransfersOf(PartOf[t])
    /\ \A t, u \in Transfers :
          tpc[t] \in LastPcs /\ tpc[u] \in LastPcs /\ PartOf[t] = PartOf[u] => t = u

\* partsDone lags behind the handled parts for ever once the job completed.
HandlerInv ==
    /\ ~xferDoneClosed => partsDone = Cardinality(Handled)
    /\ partsDone <= Cardinality(Handled)
    /\ hPc # "recv" => partsDone > 0
    /\ xferDoneClosed /\ hPc \in {"recv", "loadFinal", "count"} =>
          partsDone < Cardinality(Handled)
    /\ hPc = "close" => ~xferDoneClosed
    /\ hPc \in {"drain", "read", "store"} => xferDoneClosed
    /\ hPc = "count" /\ hHaveFinal => finalPartOrdered

CancelInv ==
    /\ cPc # "idle" => cancels > 0
    /\ NeverCancelled => jobStatus # "Cancelling" /\ hStatus # "Cancelling"

WholeJobReported ==
    /\ jobPartMgrs = Parts
    /\ \A t \in Transfers : tpc[t] \in Reported

CloseInv ==
    /\ (hPc = "close" \/ xferDoneClosed) /\ NeverCancelled => WholeJobReported
    /\ SendFailsOnlyWhenCancelled
    /\ CompletesAtMostOnce

\* The conjunction is inductive.
IndInv == /\ TypeOK
          /\ FrontEndInv
          /\ ScheduleInv
          /\ CountInv
          /\ HandlerInv
          /\ CancelInv
          /\ CloseInv

\* The final status waits for the status manager to have drained xferDone.
DrainInv ==
    /\ xferDoneDrained => xferDoneClosed /\ xferDone = {}
    /\ hPc \in {"read", "store"} => xferDoneDrained
    /\ DrainedWhenDone

\* An outcome is written once, and no count outruns the outcomes.
Some(o) == \E t \in Transfers : outcome[t] = o

OutcomeInv == \A t \in Transfers : tpc[t] \in {"new", "queued", "running"} => outcome[t] = "none"

CountsAreReal ==
    /\ \A p \in Parts : /\ progress[p].failed > 0 => Some("Failed")
                        /\ progress[p].skipped > 0 => Some("Skipped")
    /\ \A p \in Parts : /\ report[p].failed > 0 => Some("Failed")
                        /\ report[p].skipped > 0 => Some("Skipped")
    /\ jobProgress.failed > 0 => Some("Failed")
    /\ jobProgress.skipped > 0 => Some("Skipped")

BackedInv == OutcomeInv /\ CountsAreReal /\ StatusIsBacked

-----------------------------------------------------------------------------
\* The job is complete from the handler's decision on, before it closes
\* xferDone: parts added in between are not waited for.
Job == INSTANCE JobCompletion WITH
           known    <- jobPartMgrs,
           reported <- {t \in Transfers : tpc[t] \in Reported},
           stopping <- ~NeverCancelled,
           complete <- xferDoneClosed \/ hPc = "close"

\* The goroutines, channels and counters of the job manager together keep the
\* promise of JobCompletion.
ImplementsJobCompletion == Job!Spec

=============================================================================
