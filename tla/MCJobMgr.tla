------------------------------ MODULE MCJobMgr ------------------------------
(* JobMgr on a job of two parts: transfer a in part 0, b and c in part 1.  *)
EXTENDS JobMgrInv

CONSTANTS a, b, c

MCTransfers == {a, b, c}
MCPartOf == [t \in MCTransfers |-> IF t = a THEN 0 ELSE 1]

=============================================================================
