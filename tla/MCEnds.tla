------------------------------- MODULE MCEnds -------------------------------
(***************************************************************************)
(* What must come to an end in the engine's core, three parts checked side *)
(* by side: in each behaviour one of them runs, and the others stay where  *)
(* they begin.                                                             *)
(*   job        two parts, transfer a in part 0, b in part 1; it may be    *)
(*              paused or cancelled, twice                                 *)
(*   summary    the same job, which nobody cancels, whose transfers are    *)
(*              all skipped, with who is told of it                        *)
(*   transfers  a file of two chunks and an empty one, whose one chunk is  *)
(*              empty too, each to a blob of its own                       *)
(***************************************************************************)
EXTENDS JobSummary, TransferChunks

CONSTANTS a, b, x1, x2, blob1, blob2

VARIABLE component

endsVars == <<component, allVars, xferVars>>

MCTransfers == {a, b}
MCPartOf == [t \in MCTransfers |-> IF t = a THEN 0 ELSE 1]

MCXfers == {x1, x2}
MCTwoAndOne == [t \in MCXfers |-> IF t = x1 THEN 2 ELSE 1]
MCOwnDest == [t \in MCXfers |-> IF t = x1 THEN blob1 ELSE blob2]

\* The job of the summary.
Told == INSTANCE JobSummary WITH MaxCancels <- 0, Outcomes <- {"Skipped"}

EndsInit ==
    /\ component \in {"job", "summary", "transfers"}
    /\ SummaryInit
    /\ TransferInit
    /\ content = [d \in Dests |-> NoBlob]
    /\ component # "transfers" => isLocal = TRUE

EndsNext ==
    /\ UNCHANGED component
    /\ \/ component = "job" /\ Next /\ UNCHANGED <<summaryVars, xferVars>>
       \/ component = "summary" /\ Told!SummaryNext /\ UNCHANGED xferVars
       \/ component = "transfers" /\ TransferNext /\ UNCHANGED allVars

EndsSpec == EndsInit /\ [][EndsNext]_endsVars

-----------------------------------------------------------------------------
(* The properties of the parts, each under the fairness of its own part.   *)

\* JobEnds of JobMgr.
JobDoesEnd == component = "job" /\ Fairness => JobEnds

\* CancelWindsDown of JobMgr.
CancelDoesWindDown == component = "job" /\ Fairness => CancelWindsDown

\* LastSummaryIsComplete of JobSummary.
LastSummaryCovers == component = "summary" => Told!LastSummaryIsComplete

\* ProgressEnds of JobSummary.
ProgressDoesEnd == component = "summary" /\ Told!SummaryFairness => Told!ProgressEnds

\* TransfersEnd of TransferChunks.
TransfersReachTheirEnd == component = "transfers" /\ TransferFairness => TransfersEnd

=============================================================================
