------------------------- MODULE MCTransferChunks --------------------------
(* Two transfers of two chunks and one, each to a blob of its own.           *)
EXTENDS TransferInv

CONSTANTS a, b, blob1, blob2

MCTransfers == {a, b}
MCTwoAndOne == [t \in MCTransfers |-> IF t = a THEN 2 ELSE 1]
MCOwnDest == [t \in MCTransfers |-> IF t = a THEN blob1 ELSE blob2]

\* Neither blob is there yet.
FairFreshSpec == FairTransferSpec /\ content = [d \in Dests |-> NoBlob]

=============================================================================
