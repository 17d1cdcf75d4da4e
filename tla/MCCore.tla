------------------------------- MODULE MCCore -------------------------------
(***************************************************************************)
(* The engine's core, its two parts checked side by side: in each          *)
(* behaviour one of them runs and the other stays where it begins.         *)
(*   job        two parts, transfer a in part 0, b and c in part 1         *)
(*   transfers  two transfers, of two chunks and of one, to one blob that  *)
(*              is there, put whole or, for uploads, in blocks             *)
(***************************************************************************)
EXTENDS JobMgrInv, TransferInv, TLC

CONSTANTS a, b, c, x1, x2, blob1

VARIABLE component

coreVars == <<component, vars, xferVars>>

MCTransfers == {a, b, c}
MCPartOf == [t \in MCTransfers |-> IF t = a THEN 0 ELSE 1]

MCXfers == {x1, x2}
MCTwoAndOne == [t \in MCXfers |-> IF t = x1 THEN 2 ELSE 1]
MCSameDest == [t \in MCXfers |-> blob1]

\* b and c are transfers of one part, told apart by nothing; the run checks
\* no liveness.
SameInPart == Permutations({b, c})

CoreInit ==
    /\ component \in {"job", "transfers"}
    /\ Init
    /\ TransferInit
    /\ content[blob1] # NoBlob
    /\ component # "transfers" => isLocal = TRUE
    /\ component # "transfers" \/ ~isLocal => content[blob1] = OldPut

CoreNext ==
    /\ UNCHANGED component
    /\ \/ component = "job" /\ Next /\ UNCHANGED xferVars
       \/ component = "transfers" /\ TransferNext /\ UNCHANGED vars

CoreSpec == CoreInit /\ [][CoreNext]_coreVars

=============================================================================
