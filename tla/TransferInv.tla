---------------------------- MODULE TransferInv -----------------------------
(* Why a transfer is reported once, at its end, and why nobody else touches *)
(* its destination before: the inductive invariant behind                  *)
(* ReportedOnceAtTheEnd and BlocksUndisturbed; and why its outcome is true *)
(* and its destination only ever replaced by a whole file: the one behind  *)
(* OutcomesAreTrue and BlockListsSurvive.                                  *)
EXTENDS TransferChunks

XferCounted(t) == {i \in Chunks(t) : cpc[<<t, i>>] \in {"epilogue", "done"}}

\* The initiating goroutine has returned, or will, without scheduling a chunk.
ReturnsEarly(t) == \/ xpc[t] \in {"start", "checks", "lock", "report"}
                   \/ xpc[t] = "end" /\ next[t] = 1

\* Before the epilogue and in it, up to the release of the destination.
BeforeUnlock == {"none", "start", "source", "sender", "commit", "length",
                 "cleanup", "unlock"}

TransferShapes ==
    /\ xpc \in [Xfers -> {"start", "checks", "lock", "prefetch", "prologue",
                              "schedule", "hash", "report", "end"}]
    /\ next \in [Xfers -> Nat \ {0}]
    /\ DOMAIN cpc = AllChunks
    /\ chunksDone \in [Xfers -> Nat]
    /\ epc \in [Xfers -> BeforeUnlock \union {"finish", "report", "subtract", "done"}]
    /\ reports \in [Xfers -> Nat]

\* Chunks are scheduled in order, none by a goroutine that returns early.
ScheduledInOrder ==
    \A t \in Xfers :
        /\ xpc[t] \in {"start", "checks", "lock", "report"} => next[t] = 1
        /\ xpc[t] \in {"prefetch", "prologue", "schedule"} => next[t] <= NumChunks[t]
        /\ xpc[t] = "hash" => next[t] > 1
        /\ \A i \in Chunks(t) : i >= next[t] => cpc[<<t, i>>] = "none"

\* The epilogue starts when the last chunk is counted.
EpilogueAfterChunks ==
    \A t \in Xfers :
        /\ chunksDone[t] = Cardinality(XferCounted(t))
        /\ epc[t] = "none" <=> XferCounted(t) # Chunks(t)

\* A transfer holds its destination, alone, until its epilogue gives it back.
HeldAlone ==
    /\ \A t \in holds : DestOf[t] \in inUse
    /\ \A t, u \in holds : DestOf[t] = DestOf[u] => t = u
    /\ \A t \in Xfers : t \in holds <=> ~ReturnsEarly(t) /\ epc[t] \in BeforeUnlock

ReportedByOne ==
    \A t \in Xfers :
        reports[t] = IF \/ epc[t] \in {"subtract", "done"}
                        \/ xpc[t] = "end" /\ next[t] = 1
                     THEN 1 ELSE 0

\* A file that is put whole leaves no blocks.
BlocksOfLists == \A c \in uncommitted : c \in AllChunks /\ ByList(TransferOf(c))

TransferIndInv ==
    /\ TransferShapes
    /\ ScheduledInOrder
    /\ EpilogueAfterChunks
    /\ HeldAlone
    /\ ReportedByOne
    /\ BlocksOfLists

-----------------------------------------------------------------------------
(* Why an outcome is true: what is known of a transfer on its way there,   *)
(* and above all of one that nobody has cancelled.                         *)

AfterFinish == {"report", "subtract", "done"}
SomeChunk(t, pcs) == \E i \in Chunks(t) : cpc[<<t, i>>] \in pcs

\* A chunk func that has cancelled its transfer goes on to store the failure,
\* and is waited for: a transfer that ends cancelled has its failure recorded.
FailureInv(t) ==
    /\ xpc[t] \in {"start", "checks", "lock"} => status[t] = "Started"
    /\ xpc[t] = "report" \/ (xpc[t] = "end" /\ next[t] = 1) => status[t] \in FailedStatuses
    /\ status[t] \in FailedStatuses => cancelled[t] \/ xpc[t] = "report"
    /\ SomeChunk(t, {"setFailed"}) => cancelled[t]
    /\ ~jobCancelled /\ cancelled[t] =>
          status[t] \in FailedStatuses \/ SomeChunk(t, {"setFailed"}) \/ reports[t] > 0
    /\ ~jobCancelled => status[t] # "Cancelled"
    /\ ~jobCancelled /\ epc[t] \in AfterFinish => status[t] \in {"Success", "Failed", "Skipped"}
    /\ status[t] = "Success" => epc[t] \in AfterFinish

\* While reading goes well the chunks up to the one at hand are hashed; an error
\* cancels the transfer, by the func of the chunk it is about.
HashInv(t) ==
    /\ xpc[t] = "hash" \/ (xpc[t] = "end" /\ next[t] # 1) => next[t] = NumChunks[t] + 1
    /\ xpc[t] # "end" => md5[t] = "open"
    /\ isLocal /\ ~prefetchErr[t] =>
          /\ hashed[t] = (IF xpc[t] \in {"prologue", "schedule"} THEN next[t] ELSE next[t] - 1)
          /\ reader[t] <= hashed[t]
          /\ md5[t] \in {"open", "whole"}
    /\ prefetchErr[t] => \/ cancelled[t] \/ xpc[t] \in {"prologue", "schedule"}
                         \/ SomeChunk(t, {"badQueued", "fail"})

\* The chunks of a transfer that goes well are at the service, as blocks until
\* they are committed.
PutChunks(t) == {i \in Chunks(t) : cpc[<<t, i>>] \in {"addBytes", "count", "epilogue", "done"}}
Committed(t) == landed[t] = Chunks(t) /\ (NeedsHash(t) => md5[t] # "open")

LandedInv(t) ==
    /\ ~cancelled[t] =>
          /\ ~ByList(t) /\ PutChunks(t) # {} => Committed(t)
          /\ ByList(t) /\ epc[t] \in {"none", "start", "source", "sender", "commit"} =>
                \A i \in PutChunks(t) : <<t, i>> \in uncommitted
          /\ epc[t] = "commit" /\ NeedsHash(t) => md5[t] # "open"
          /\ epc[t] \in {"length", "cleanup", "unlock", "finish"} => Committed(t)
    /\ status[t] = "Success" => landed[t] = Chunks(t) /\ (NeedsHash(t) => md5[t] = "whole")

\* The bytes in active files are those of a set of chunks: what a transfer
\* subtracts at its end is what its chunks have added.
BytesOf(S) ==
    /\ IsFiniteSet(S) /\ activeBytes = Cardinality(S)
    /\ \A c \in S : cpc[c] \in {"count", "epilogue", "done"} /\ epc[TransferOf(c)] # "done"
    /\ \A t \in Xfers : epc[t] # "done" =>
          successBytes[t] = Cardinality({c \in S : TransferOf(c) = t})

OutcomesInv ==
    /\ TransferIndInv /\ TransferTypeOK
    /\ \A t \in Xfers : FailureInv(t) /\ HashInv(t) /\ LandedInv(t)
    /\ \E S \in SUBSET AllChunks : BytesOf(S)

=============================================================================
