---------------------------- MODULE JobCompletion ----------------------------
(***************************************************************************)
(* What the job manager promises, with no goroutine, channel or counter in *)
(* it: parts become known, their transfers report, and the job is declared *)
(* complete at most once. A job nobody stops is complete when all of it is *)
(* known and has reported, and nothing happens to it any more; a job that  *)
(* is being stopped may be declared complete as soon as what is known of   *)
(* it has reported.                                                        *)
(***************************************************************************)
CONSTANTS Parts, Transfers, PartOf

VARIABLES known,     \* the parts of the job that were ordered
          reported,  \* the transfers whose end was reported
          stopping,  \* a request to stop the job was taken
          complete

vars == <<known, reported, stopping, complete>>

Init == known = {} /\ reported = {} /\ stopping = FALSE /\ complete = FALSE

OrderPart(p) ==
    /\ p \notin known
    /\ complete => stopping
    /\ known' = known \union {p}
    /\ UNCHANGED <<reported, stopping, complete>>

Report(t) ==
    /\ PartOf[t] \in known
    /\ t \notin reported
    /\ complete => stopping
    /\ reported' = reported \union {t}
    /\ UNCHANGED <<known, stopping, complete>>

Stop ==
    /\ stopping' = TRUE
    /\ UNCHANGED <<known, reported, complete>>

Complete ==
    /\ ~complete
    /\ known = Parts \/ stopping
    /\ \A t \in Transfers : PartOf[t] \in known => t \in reported
    /\ complete' = TRUE
    /\ UNCHANGED <<known, reported, stopping>>

Next == \/ \E p \in Parts : OrderPart(p)
        \/ \E t \in Transfers : Report(t)
        \/ Stop
        \/ Complete

Spec == Init /\ [][Next]_vars

=============================================================================
