--------------------------- MODULE Transfer_proofs ---------------------------
(* Proofs that a transfer is reported once, at its end, that no other      *)
(* transfer removes its blocks while it holds its destination, that its    *)
(* outcome is true, and that a list of blocks outlives all but a whole file. *)
EXTENDS TransferInv, FiniteSetTheorems, TLAPS

indVars == <<xpc, next, cpc, chunksDone, epc, locks, uncommitted, reports, isLocal>>

USE DEF job

(***************************************************************************)
(* Chunks.                                                                 *)
(***************************************************************************)
LEMMA ChunksFinite ==
  ASSUME NEW t \in Xfers
  PROVE  /\ NumChunks[t] \in Nat \ {0}
         /\ IsFiniteSet(Chunks(t)) /\ Cardinality(Chunks(t)) = NumChunks[t]
         /\ 1 \in Chunks(t)
<1>1. NumChunks[t] \in Nat \ {0}
  BY TransfersShape
<1>2. /\ IsFiniteSet(1..NumChunks[t])
      /\ Cardinality(1..NumChunks[t]) = IF 1 > NumChunks[t] THEN 0 ELSE NumChunks[t] - 1 + 1
  BY <1>1, FS_Interval
<1> QED BY <1>1, <1>2 DEF Chunks

LEMMA AllChunksPairs ==
  /\ \A t \in Xfers : \A i \in Chunks(t) : <<t, i>> \in AllChunks
  /\ \A c \in AllChunks : /\ TransferOf(c) \in Xfers /\ c[2] \in Chunks(TransferOf(c))
                          /\ c = <<TransferOf(c), c[2]>>
  BY DEF AllChunks, TransferOf

\* In a set of chunk numbers only the full one has as many as there are chunks.
LEMMA CountedSubset ==
  ASSUME NEW t \in Xfers
  PROVE  /\ XferCounted(t) \subseteq Chunks(t)
         /\ IsFiniteSet(XferCounted(t)) /\ Cardinality(XferCounted(t)) \in Nat
         /\ Cardinality(XferCounted(t)) = NumChunks[t] => XferCounted(t) = Chunks(t)
<1>1. XferCounted(t) \subseteq Chunks(t)
  BY DEF XferCounted
<1> QED BY <1>1, ChunksFinite, FS_Subset, FS_CardinalityType

(***************************************************************************)
(* What the invariant says of one transfer.                                *)
(***************************************************************************)

\* A chunk that is somewhere has been scheduled, by a goroutine that got past
\* its early returns.
LEMMA ScheduledChunk ==
  ASSUME TransferIndInv, NEW c \in AllChunks, cpc[c] # "none"
  PROVE  /\ next[TransferOf(c)] > 1
         /\ ~ReturnsEarly(TransferOf(c))
<1> DEFINE t == TransferOf(c)
<1>1. t \in Xfers /\ c[2] \in Chunks(t) /\ c = <<t, c[2]>>
  BY AllChunksPairs
<1>2. c[2] < next[t]
  BY <1>1 DEF TransferIndInv, ScheduledInOrder, TransferShapes, Chunks
<1>3. next[t] > 1
  BY <1>1, <1>2, ChunksFinite DEF Chunks, TransferIndInv, TransferShapes
<1> QED BY <1>1, <1>3 DEF ReturnsEarly, TransferIndInv, ScheduledInOrder

\* Nor has the epilogue of its transfer started, if it is not counted.
LEMMA UncountedChunk ==
  ASSUME TransferIndInv, NEW c \in AllChunks, cpc[c] \notin {"epilogue", "done"}
  PROVE  epc[TransferOf(c)] = "none"
  BY AllChunksPairs DEF TransferIndInv, EpilogueAfterChunks, XferCounted

LEMMA InEpilogue ==
  ASSUME TransferIndInv, NEW t \in Xfers, epc[t] # "none"
  PROVE  next[t] > 1 /\ ~ReturnsEarly(t)
<1>1. 1 \in XferCounted(t)
  BY ChunksFinite DEF TransferIndInv, EpilogueAfterChunks
<1>2. <<t, 1>> \in AllChunks /\ cpc[<<t, 1>>] # "none" /\ TransferOf(<<t, 1>>) = t
  BY <1>1, ChunksFinite, AllChunksPairs DEF XferCounted, TransferOf
<1> QED BY <1>2, ScheduledChunk

LEMMA NothingScheduled ==
  ASSUME TransferIndInv, NEW t \in Xfers, ReturnsEarly(t)
  PROVE  epc[t] = "none" /\ next[t] = 1
<1>1. epc[t] = "none"
  BY InEpilogue
<1> QED BY <1>1 DEF ReturnsEarly, TransferIndInv, ScheduledInOrder

(***************************************************************************)
(* Steps that keep the invariant for one reason.                           *)
(***************************************************************************)
LEMMA UnchangedInd == TransferIndInv /\ UNCHANGED indVars => TransferIndInv'
  BY DEF TransferIndInv, indVars, locks, TransferShapes, ScheduledInOrder,
         EpilogueAfterChunks, HeldAlone, ReportedByOne, BlocksOfLists, ByList, XferCounted,
         ReturnsEarly

LEMMA MoveChunk ==
  ASSUME TransferIndInv, NEW c \in AllChunks, NEW pc,
         cpc[c] \notin {"none", "epilogue", "done"},
         pc \notin {"none", "epilogue", "done"},
         cpc' = [cpc EXCEPT ![c] = pc],
         \A b \in uncommitted' \ uncommitted : b = c /\ ByList(TransferOf(c)),
         UNCHANGED <<xpc, next, chunksDone, epc, locks, reports, isLocal>>
  PROVE  TransferIndInv'
<1>1. DOMAIN cpc' = AllChunks
  BY DEF TransferIndInv, TransferShapes
<1>2. \A b \in AllChunks :
         /\ cpc'[b] = "none" <=> cpc[b] = "none"
         /\ cpc'[b] \in {"epilogue", "done"} <=> cpc[b] \in {"epilogue", "done"}
  BY DEF TransferIndInv, TransferShapes
<1>3. \A t \in Xfers : XferCounted(t)' = XferCounted(t)
  BY <1>2, AllChunksPairs DEF XferCounted
<1>4. TransferShapes'
  BY <1>1 DEF TransferIndInv, TransferShapes
<1>5. ScheduledInOrder'
  BY <1>2, AllChunksPairs DEF TransferIndInv, ScheduledInOrder
<1>6. EpilogueAfterChunks'
  BY <1>3 DEF TransferIndInv, EpilogueAfterChunks
<1>7. HeldAlone' /\ ReportedByOne'
  BY DEF TransferIndInv, HeldAlone, ReportedByOne, ReturnsEarly, locks
<1>8. BlocksOfLists'
  BY DEF TransferIndInv, BlocksOfLists, ByList
<1> QED BY <1>4, <1>5, <1>6, <1>7, <1>8 DEF TransferIndInv

\* The initiating goroutine goes on, on the same side of its early returns.
LEMMA MoveInitiator ==
  ASSUME TransferIndInv, NEW t \in Xfers, NEW pc,
         xpc' = [xpc EXCEPT ![t] = pc],
         \/ /\ xpc[t] \in {"start", "checks", "lock", "report"}
            /\ pc \in {"start", "checks", "lock", "report"}
         \/ /\ xpc[t] \in {"prefetch", "prologue", "schedule"}
            /\ pc \in {"prefetch", "prologue", "schedule"}
         \/ xpc[t] = "hash" /\ pc = "end",
         UNCHANGED <<next, cpc, chunksDone, epc, locks, uncommitted, reports, isLocal>>
  PROVE  TransferIndInv'
<1>1. TransferShapes'
  BY DEF TransferIndInv, TransferShapes
<1>2. ScheduledInOrder'
  BY DEF TransferIndInv, TransferShapes, ScheduledInOrder
<1>3. EpilogueAfterChunks' /\ BlocksOfLists'
  BY DEF TransferIndInv, EpilogueAfterChunks, BlocksOfLists, ByList, XferCounted
<1>4. \A u \in Xfers : ReturnsEarly(u)' <=> ReturnsEarly(u)
  <2> SUFFICES ASSUME NEW u \in Xfers PROVE ReturnsEarly(u)' <=> ReturnsEarly(u)
    OBVIOUS
  <2>1. CASE u = t
    BY <2>1 DEF TransferIndInv, TransferShapes, ScheduledInOrder, ReturnsEarly
  <2>2. CASE u # t
    BY <2>2 DEF TransferIndInv, TransferShapes, ReturnsEarly
  <2> QED BY <2>1, <2>2
<1>5. HeldAlone'
  BY <1>4 DEF TransferIndInv, HeldAlone, locks
<1>6. ReportedByOne'
  <2> SUFFICES ASSUME NEW u \in Xfers
               PROVE  xpc'[u] = "end" /\ next[u] = 1 <=> xpc[u] = "end" /\ next[u] = 1
    BY DEF TransferIndInv, ReportedByOne
  <2> QED BY DEF TransferIndInv, TransferShapes, ScheduledInOrder
<1> QED BY <1>1, <1>2, <1>3, <1>5, <1>6 DEF TransferIndInv

\* The epilogue goes on, without releasing the destination or reporting.
LEMMA MoveEpilogue ==
  ASSUME TransferIndInv, NEW t \in Xfers, NEW from, NEW to,
         epc[t] = from, epc' = [epc EXCEPT ![t] = to],
         \/ from \in BeforeUnlock \ {"none"} /\ to \in BeforeUnlock \ {"none"}
         \/ from = "finish" /\ to = "report",
         uncommitted' \subseteq uncommitted,
         UNCHANGED <<xpc, next, cpc, chunksDone, locks, reports, isLocal>>
  PROVE  TransferIndInv'
<1>1. TransferShapes'
  BY DEF TransferIndInv, TransferShapes, BeforeUnlock
<1>2. ScheduledInOrder'
  BY DEF TransferIndInv, ScheduledInOrder
<1>3. EpilogueAfterChunks'
  BY DEF TransferIndInv, TransferShapes, EpilogueAfterChunks, XferCounted, BeforeUnlock
<1>4. \A u \in Xfers : /\ epc'[u] \in BeforeUnlock <=> epc[u] \in BeforeUnlock
                       /\ epc'[u] \in {"subtract", "done"} <=> epc[u] \in {"subtract", "done"}
  BY DEF TransferIndInv, TransferShapes, BeforeUnlock
<1>5. HeldAlone'
  BY <1>4 DEF TransferIndInv, HeldAlone, ReturnsEarly, locks
<1>6. ReportedByOne'
  BY <1>4 DEF TransferIndInv, ReportedByOne
<1>7. BlocksOfLists'
  BY DEF TransferIndInv, BlocksOfLists, ByList
<1> QED BY <1>1, <1>2, <1>3, <1>5, <1>6, <1>7 DEF TransferIndInv

(***************************************************************************)
(* The initiating goroutine.                                               *)
(***************************************************************************)
LEMMA LockKeepsInd ==
  ASSUME TransferIndInv, NEW t \in Xfers, WaitUntilLockDestination(t)
  PROVE  TransferIndInv'
<1>1. CASE DestOf[t] \in inUse
  BY <1>1, MoveInitiator
     DEF WaitUntilLockDestination, GoOn, counters, locks, service
<1>2. CASE DestOf[t] \notin inUse
  <2>1. /\ xpc[t] = "lock" /\ xpc' = [xpc EXCEPT ![t] = "prefetch"]
        /\ inUse' = inUse \union {DestOf[t]} /\ holds' = holds \union {t}
        /\ UNCHANGED <<next, cpc, chunksDone, epc, uncommitted, reports, isLocal>>
    BY <1>2 DEF WaitUntilLockDestination, GoOn, counters, service
  <2>2. epc[t] = "none" /\ next[t] = 1 /\ t \notin holds
    BY <2>1, NothingScheduled DEF ReturnsEarly, TransferIndInv, HeldAlone
  <2>3. TransferShapes'
    BY <2>1 DEF TransferIndInv, TransferShapes
  <2>4. ScheduledInOrder'
    BY <2>1, <2>2, ChunksFinite DEF TransferIndInv, TransferShapes, ScheduledInOrder
  <2>5. EpilogueAfterChunks' /\ BlocksOfLists'
    BY <2>1 DEF TransferIndInv, EpilogueAfterChunks, BlocksOfLists, ByList, XferCounted
  <2>6. HeldAlone'
    <3>1. \A u \in holds' : DestOf[u] \in inUse'
      BY <2>1 DEF TransferIndInv, HeldAlone
    <3>2. \A u, v \in holds' : DestOf[u] = DestOf[v] => u = v
      BY <2>1, <1>2 DEF TransferIndInv, HeldAlone
    <3>3. \A u \in Xfers : u \in holds' <=> ~ReturnsEarly(u)' /\ epc'[u] \in BeforeUnlock
      <4> SUFFICES ASSUME NEW u \in Xfers
                   PROVE  u \in holds' <=> ~ReturnsEarly(u)' /\ epc'[u] \in BeforeUnlock
        OBVIOUS
      <4>1. CASE u = t
        BY <4>1, <2>1, <2>2 DEF TransferIndInv, TransferShapes, ReturnsEarly, BeforeUnlock
      <4>2. CASE u # t
        BY <4>2, <2>1 DEF TransferIndInv, TransferShapes, HeldAlone, ReturnsEarly
      <4> QED BY <4>1, <4>2
    <3> QED BY <3>1, <3>2, <3>3 DEF HeldAlone
  <2>7. ReportedByOne'
    BY <2>1 DEF TransferIndInv, TransferShapes, ReportedByOne
  <2> QED BY <2>3, <2>4, <2>5, <2>6, <2>7 DEF TransferIndInv
<1> QED BY <1>1, <1>2

LEMMA ReportEarlyKeepsInd ==
  ASSUME TransferIndInv, NEW t \in Xfers, ReportEarly(t)
  PROVE  TransferIndInv'
<1>1. /\ xpc[t] = "report" /\ xpc' = [xpc EXCEPT ![t] = "end"]
      /\ reports' = [reports EXCEPT ![t] = @ + 1]
      /\ UNCHANGED <<next, cpc, chunksDone, epc, inUse, holds, uncommitted, isLocal>>
  BY DEF ReportEarly, ReportTransferDone, GoOn, counters, locks, service
<1>2. epc[t] = "none" /\ next[t] = 1
  BY <1>1, NothingScheduled DEF ReturnsEarly
<1>3. TransferShapes'
  BY <1>1 DEF TransferIndInv, TransferShapes
<1>4. ScheduledInOrder'
  BY <1>1 DEF TransferIndInv, TransferShapes, ScheduledInOrder
<1>5. EpilogueAfterChunks' /\ BlocksOfLists'
  BY <1>1 DEF TransferIndInv, EpilogueAfterChunks, BlocksOfLists, ByList, XferCounted
<1>6. \A u \in Xfers : ReturnsEarly(u)' <=> ReturnsEarly(u)
  BY <1>1, <1>2 DEF TransferIndInv, TransferShapes, ReturnsEarly
<1>7. HeldAlone'
  BY <1>1, <1>6 DEF TransferIndInv, HeldAlone
<1>8. ReportedByOne'
  <2> SUFFICES ASSUME NEW u \in Xfers
               PROVE  reports'[u] = IF \/ epc[u] \in {"subtract", "done"}
                                       \/ xpc'[u] = "end" /\ next[u] = 1
                                    THEN 1 ELSE 0
    BY <1>1 DEF ReportedByOne
  <2>1. CASE u = t
    <3>1. reports[t] = 0
      BY <1>1, <1>2 DEF TransferIndInv, ReportedByOne
    <3> QED BY <2>1, <3>1, <1>1, <1>2 DEF TransferIndInv, TransferShapes
  <2>2. CASE u # t
    BY <2>2, <1>1 DEF TransferIndInv, TransferShapes, ReportedByOne
  <2> QED BY <2>1, <2>2
<1> QED BY <1>3, <1>4, <1>5, <1>7, <1>8 DEF TransferIndInv

LEMMA ScheduleChunkKeepsInd ==
  ASSUME TransferIndInv, NEW t \in Xfers, ScheduleChunk(t)
  PROVE  TransferIndInv'
<1> DEFINE n == next[t]
<1>1. PICK queued \in {"queued", "badQueued"}, pc \in {"hash", "prefetch"} :
         /\ xpc[t] = "schedule" /\ xpc' = [xpc EXCEPT ![t] = pc]
         /\ pc = IF n = NumChunks[t] THEN "hash" ELSE "prefetch"
         /\ cpc' = [cpc EXCEPT ![<<t, n>>] = queued]
         /\ next' = [next EXCEPT ![t] = n + 1]
         /\ UNCHANGED <<chunksDone, epc, inUse, holds, uncommitted, reports, isLocal>>
  BY DEF ScheduleChunk, GoOn, counters, locks, service
<1>2. n \in Chunks(t) /\ <<t, n>> \in AllChunks /\ cpc[<<t, n>>] = "none"
  BY <1>1, ChunksFinite, AllChunksPairs
     DEF TransferIndInv, TransferShapes, ScheduledInOrder, Chunks
<1>3. epc[t] = "none"
  <2>1. TransferOf(<<t, n>>) = t
    BY DEF TransferOf
  <2> QED BY <1>2, <2>1, UncountedChunk
<1>4. TransferShapes'
  BY <1>1, <1>2 DEF TransferIndInv, TransferShapes
<1>5. ScheduledInOrder'
  <2> SUFFICES ASSUME NEW u \in Xfers
               PROVE  /\ xpc'[u] \in {"start", "checks", "lock", "report"} => next'[u] = 1
                      /\ xpc'[u] \in {"prefetch", "prologue", "schedule"}
                            => next'[u] <= NumChunks[u]
                      /\ xpc'[u] = "hash" => next'[u] > 1
                      /\ \A i \in Chunks(u) : i >= next'[u] => cpc'[<<u, i>>] = "none"
    BY DEF ScheduledInOrder
  <2>1. CASE u = t
    <3>1. n \in Nat /\ n >= 1 /\ n <= NumChunks[t] /\ next'[t] = n + 1 /\ xpc'[t] = pc
      BY <1>1, <1>2, ChunksFinite DEF TransferIndInv, TransferShapes, Chunks
    <3>2. xpc'[t] = "prefetch" => n + 1 <= NumChunks[t]
      BY <3>1, <1>1, ChunksFinite
    <3>3. \A i \in Chunks(t) : i >= n + 1 => cpc'[<<t, i>>] = "none"
      <4> SUFFICES ASSUME NEW i \in Chunks(t), i >= n + 1 PROVE cpc'[<<t, i>>] = "none"
        OBVIOUS
      <4>1. i # n /\ i >= n
        BY <3>1, ChunksFinite DEF Chunks
      <4>2. cpc[<<t, i>>] = "none"
        BY <4>1 DEF TransferIndInv, ScheduledInOrder
      <4> QED BY <4>1, <4>2, <1>1, AllChunksPairs DEF TransferIndInv, TransferShapes
    <3> QED BY <2>1, <3>1, <3>2, <3>3, <1>1
  <2>2. CASE u # t
    <3>1. xpc'[u] = xpc[u] /\ next'[u] = next[u]
      BY <2>2, <1>1 DEF TransferIndInv, TransferShapes
    <3>2. \A i \in Chunks(u) : cpc'[<<u, i>>] = cpc[<<u, i>>]
      BY <2>2, <1>1, AllChunksPairs DEF TransferIndInv, TransferShapes
    <3> QED BY <3>1, <3>2 DEF TransferIndInv, ScheduledInOrder
  <2> QED BY <2>1, <2>2
<1>6. \A u \in Xfers : XferCounted(u)' = XferCounted(u)
  <2> SUFFICES ASSUME NEW u \in Xfers, NEW i \in Chunks(u)
               PROVE  cpc'[<<u, i>>] \in {"epilogue", "done"}
                         <=> cpc[<<u, i>>] \in {"epilogue", "done"}
    BY DEF XferCounted
  <2> QED BY <1>1, <1>2, AllChunksPairs DEF TransferIndInv, TransferShapes
<1>7. EpilogueAfterChunks' /\ BlocksOfLists'
  BY <1>1, <1>6 DEF TransferIndInv, EpilogueAfterChunks, BlocksOfLists, ByList
<1>8. \A u \in Xfers : ReturnsEarly(u)' <=> ReturnsEarly(u)
  BY <1>1 DEF TransferIndInv, TransferShapes, ReturnsEarly
<1>9. HeldAlone'
  BY <1>1, <1>8 DEF TransferIndInv, HeldAlone
<1>10. ReportedByOne'
  <2> SUFFICES ASSUME NEW u \in Xfers
               PROVE  xpc'[u] = "end" /\ next'[u] = 1 <=> xpc[u] = "end" /\ next[u] = 1
    BY <1>1 DEF TransferIndInv, ReportedByOne
  <2> QED BY <1>1 DEF TransferIndInv, TransferShapes
<1> QED BY <1>4, <1>5, <1>7, <1>9, <1>10 DEF TransferIndInv

LEMMA InitiateKeepsInd ==
  ASSUME TransferIndInv, NEW t \in Xfers, Initiate(t)
  PROVE  TransferIndInv'
<1>1. CASE StartXfer(t)
  BY <1>1, MoveInitiator DEF StartXfer, GoOn, counters, service
<1>2. CASE InitialChecks(t)
  BY <1>2, MoveInitiator DEF InitialChecks, GoOn, counters, service
<1>3. CASE Prefetch(t)
  BY <1>3, MoveInitiator DEF Prefetch, AfterPrefetch, PrefetchUnchanged, GoOn, counters, service
<1>4. CASE PrefetchCancelled(t)
  BY <1>4, MoveInitiator
     DEF PrefetchCancelled, AfterPrefetch, PrefetchUnchanged, GoOn, counters, service
<1>5. CASE NoPrefetch(t)
  BY <1>5, MoveInitiator
     DEF NoPrefetch, AfterPrefetch, PrefetchUnchanged, GoOn, counters, service
<1>6. CASE Prologue(t)
  BY <1>6, MoveInitiator DEF Prologue, GoOn, counters, service
<1>7. CASE SendHash(t)
  BY <1>7, MoveInitiator DEF SendHash, GoOn, counters, service
<1> QED BY <1>1, <1>2, <1>3, <1>4, <1>5, <1>6, <1>7, LockKeepsInd, ReportEarlyKeepsInd,
           ScheduleChunkKeepsInd DEF Initiate

(***************************************************************************)
(* The chunk funcs.                                                        *)
(***************************************************************************)
LEMMA CommitTakesBlocks ==
  ASSUME NEW t \in Xfers, NEW chunks, Commit(t, chunks)
  PROVE  uncommitted' \subseteq uncommitted
  BY DEF Commit

LEMMA StartChunkKeepsInd ==
  ASSUME TransferIndInv, NEW c \in AllChunks, StartChunk(c)
  PROVE  TransferIndInv'
<1>1. PICK pc \in {"addBytes", "body", "fail"} : cpc' = [cpc EXCEPT ![c] = pc]
  BY DEF StartChunk, Step
<1>2. /\ cpc[c] \in {"queued", "badQueued"}
      /\ UNCHANGED <<xpc, next, chunksDone, epc, locks, uncommitted, reports, isLocal>>
  BY DEF StartChunk, ChunkUnchanged, initiator, service
<1> QED BY <1>1, <1>2, MoveChunk

LEMMA PutBlockKeepsInd ==
  ASSUME TransferIndInv, NEW c \in AllChunks, PutBlock(c)
  PROVE  TransferIndInv'
<1>1. /\ cpc[c] = "body" /\ ByList(TransferOf(c))
      /\ uncommitted' \subseteq uncommitted \union {c}
      /\ UNCHANGED <<xpc, next, chunksDone, epc, locks, reports, isLocal>>
  BY DEF PutBlock, Respond, ChunkUnchanged, initiator, service
<1>2. PICK pc \in {"addBytes", "fail"} : cpc' = [cpc EXCEPT ![c] = pc]
  BY DEF PutBlock, Respond, Step
<1> QED BY <1>1, <1>2, MoveChunk

LEMMA PutWholeBlobKeepsInd ==
  ASSUME TransferIndInv, NEW c \in AllChunks, PutWholeBlob(c)
  PROVE  TransferIndInv'
<1>1. /\ cpc[c] = "body"
      /\ UNCHANGED <<xpc, next, chunksDone, epc, locks, reports, isLocal>>
  BY DEF PutWholeBlob, Respond, ChunkUnchanged, initiator, counters
<1>2. uncommitted' \subseteq uncommitted
  <2>1. UNCHANGED service => uncommitted' = uncommitted
    BY DEF service
  <2>2. UNCHANGED service \/ Commit(TransferOf(c), {c[2]})
    BY DEF PutWholeBlob, Respond
  <2> QED BY <2>1, <2>2, CommitTakesBlocks, AllChunksPairs
<1>3. PICK pc \in {"addBytes", "fail"} : cpc' = [cpc EXCEPT ![c] = pc]
  BY DEF PutWholeBlob, Respond, Step
<1> QED BY <1>1, <1>2, <1>3, MoveChunk

LEMMA CountChunkKeepsInd ==
  ASSUME TransferIndInv, NEW c \in AllChunks, CountChunk(c)
  PROVE  TransferIndInv'
<1> DEFINE t == TransferOf(c)
<1>1. t \in Xfers /\ c[2] \in Chunks(t) /\ c = <<t, c[2]>>
  BY AllChunksPairs
<1>2. /\ cpc[c] = "count" /\ chunksDone' = [chunksDone EXCEPT ![t] = @ + 1]
      /\ UNCHANGED <<xpc, next, inUse, holds, uncommitted, reports, isLocal>>
  BY DEF CountChunk, initiator, locks, service
<1>3. epc[t] = "none" /\ next[t] > 1 /\ ~ReturnsEarly(t)
  BY <1>2, UncountedChunk, ScheduledChunk
<1>4. PICK pc \in {"epilogue", "done"} : cpc' = [cpc EXCEPT ![c] = pc]
  BY DEF CountChunk, Step
<1>5. epc' = IF chunksDone[t] + 1 = NumChunks[t] THEN [epc EXCEPT ![t] = "start"] ELSE epc
  BY DEF CountChunk, LastChunk
<1>6. TransferShapes'
  BY <1>1, <1>2, <1>4, <1>5 DEF TransferIndInv, TransferShapes, BeforeUnlock
<1>7. \A b \in AllChunks : /\ b # c => cpc'[b] = cpc[b]
                           /\ cpc'[c] = pc
  BY <1>4 DEF TransferIndInv, TransferShapes
<1>8. ScheduledInOrder'
  BY <1>1, <1>2, <1>7, AllChunksPairs DEF TransferIndInv, ScheduledInOrder
<1>9. XferCounted(t)' = XferCounted(t) \union {c[2]} /\ c[2] \notin XferCounted(t)
  BY <1>1, <1>2, <1>7, AllChunksPairs DEF XferCounted
<1>10. \A u \in Xfers : u # t => XferCounted(u)' = XferCounted(u)
  BY <1>1, <1>7, AllChunksPairs DEF XferCounted
<1>11. Cardinality(XferCounted(t)') = chunksDone[t] + 1
  BY <1>1, <1>9, CountedSubset, FS_AddElement DEF TransferIndInv, EpilogueAfterChunks
<1>12. XferCounted(t)' = Chunks(t) <=> chunksDone[t] + 1 = NumChunks[t]
  <2>1. XferCounted(t)' \subseteq Chunks(t)
    BY <1>1, <1>9, CountedSubset
  <2>2. ASSUME Cardinality(XferCounted(t)') = Cardinality(Chunks(t)) PROVE XferCounted(t)' = Chunks(t)
    BY <1>1, <2>1, <2>2, ChunksFinite, FS_Subset
  <2> QED BY <1>1, <1>11, <2>2, ChunksFinite
<1>13. EpilogueAfterChunks'
  <2> SUFFICES ASSUME NEW u \in Xfers
               PROVE  /\ chunksDone'[u] = Cardinality(XferCounted(u)')
                      /\ epc'[u] = "none" <=> XferCounted(u)' # Chunks(u)
    BY DEF EpilogueAfterChunks, Chunks
  <2>1. CASE u = t
    BY <2>1, <1>1, <1>2, <1>3, <1>5, <1>11, <1>12 DEF TransferIndInv, TransferShapes
  <2>2. CASE u # t
    <3>1. chunksDone'[u] = chunksDone[u] /\ epc'[u] = epc[u]
      BY <2>2, <1>2, <1>5 DEF TransferIndInv, TransferShapes
    <3> QED BY <2>2, <3>1, <1>10 DEF TransferIndInv, EpilogueAfterChunks
  <2> QED BY <2>1, <2>2
<1>14. \A u \in Xfers : /\ epc'[u] \in BeforeUnlock <=> epc[u] \in BeforeUnlock
                        /\ epc'[u] \in {"subtract", "done"} <=> epc[u] \in {"subtract", "done"}
  BY <1>1, <1>3, <1>5 DEF TransferIndInv, TransferShapes, BeforeUnlock
<1>15. HeldAlone' /\ ReportedByOne' /\ BlocksOfLists'
  BY <1>2, <1>14
     DEF TransferIndInv, HeldAlone, ReportedByOne, BlocksOfLists, ByList, ReturnsEarly
<1> QED BY <1>6, <1>8, <1>13, <1>15 DEF TransferIndInv

LEMMA RunChunkKeepsInd ==
  ASSUME TransferIndInv, NEW c \in AllChunks, RunChunk(c)
  PROVE  TransferIndInv'
<1>1. CASE Fail(c)
  <2>1. PICK pc \in {"addBytes", "setFailed"} : cpc' = [cpc EXCEPT ![c] = pc]
    BY <1>1 DEF Fail, Step
  <2> QED BY <1>1, <2>1, MoveChunk
          DEF Fail, FailUnchanged, ChunkUnchanged, initiator, counters, service
<1>2. CASE SetFailed(c)
  BY <1>2, MoveChunk
     DEF SetFailed, Step, FailUnchanged, ChunkUnchanged, initiator, counters, service
<1>3. CASE AddBytes(c)
  BY <1>3, MoveChunk DEF AddBytes, Step, ChunkUnchanged, initiator, counters, service
<1> QED BY <1>1, <1>2, <1>3, PutBlockKeepsInd, PutWholeBlobKeepsInd, CountChunkKeepsInd
        DEF RunChunk

(***************************************************************************)
(* The epilogue.                                                           *)
(***************************************************************************)
LEMMA UnlockKeepsInd ==
  ASSUME TransferIndInv, NEW t \in Xfers, EnsureDestinationUnlocked(t)
  PROVE  TransferIndInv'
<1>1. /\ epc[t] = "unlock" /\ epc' = [epc EXCEPT ![t] = "finish"]
      /\ UNCHANGED <<xpc, next, cpc, chunksDone, uncommitted, reports, isLocal>>
  BY DEF EnsureDestinationUnlocked, Epilogue, EpilogueUnchanged, initiator, counters, service
<1>2. t \in holds
  BY <1>1, InEpilogue DEF TransferIndInv, HeldAlone, BeforeUnlock
<1>3. inUse' = inUse \ {DestOf[t]} /\ holds' = holds \ {t}
  BY <1>2 DEF EnsureDestinationUnlocked
<1>4. TransferShapes'
  BY <1>1 DEF TransferIndInv, TransferShapes
<1>5. ScheduledInOrder' /\ BlocksOfLists'
  BY <1>1 DEF TransferIndInv, ScheduledInOrder, BlocksOfLists, ByList
<1>6. EpilogueAfterChunks'
  BY <1>1 DEF TransferIndInv, TransferShapes, EpilogueAfterChunks, XferCounted
<1>7. HeldAlone'
  <2>1. \A u \in holds' : DestOf[u] \in inUse'
    BY <1>2, <1>3 DEF TransferIndInv, HeldAlone
  <2>2. \A u, v \in holds' : DestOf[u] = DestOf[v] => u = v
    BY <1>3 DEF TransferIndInv, HeldAlone
  <2>3. \A u \in Xfers : u \in holds' <=> ~ReturnsEarly(u)' /\ epc'[u] \in BeforeUnlock
    BY <1>1, <1>3 DEF TransferIndInv, TransferShapes, HeldAlone, ReturnsEarly, BeforeUnlock
  <2> QED BY <2>1, <2>2, <2>3 DEF HeldAlone
<1>8. ReportedByOne'
  BY <1>1 DEF TransferIndInv, TransferShapes, ReportedByOne
<1> QED BY <1>4, <1>5, <1>6, <1>7, <1>8 DEF TransferIndInv

LEMMA ReportDoneKeepsInd ==
  ASSUME TransferIndInv, NEW t \in Xfers, ReportDone(t)
  PROVE  TransferIndInv'
<1>1. /\ epc[t] = "report" /\ epc' = [epc EXCEPT ![t] = "subtract"]
      /\ reports' = [reports EXCEPT ![t] = @ + 1]
      /\ UNCHANGED <<xpc, next, cpc, chunksDone, inUse, holds, uncommitted, isLocal>>
  BY DEF ReportDone, ReportTransferDone, Epilogue, initiator, counters, locks, service
<1>2. next[t] > 1
  BY <1>1, InEpilogue
<1>3. TransferShapes'
  BY <1>1 DEF TransferIndInv, TransferShapes
<1>4. ScheduledInOrder' /\ BlocksOfLists'
  BY <1>1 DEF TransferIndInv, ScheduledInOrder, BlocksOfLists, ByList
<1>5. EpilogueAfterChunks'
  BY <1>1 DEF TransferIndInv, TransferShapes, EpilogueAfterChunks, XferCounted
<1>6. HeldAlone'
  BY <1>1 DEF TransferIndInv, TransferShapes, HeldAlone, ReturnsEarly, BeforeUnlock
<1>7. ReportedByOne'
  <2> SUFFICES ASSUME NEW u \in Xfers
               PROVE  reports'[u] = IF \/ epc'[u] \in {"subtract", "done"}
                                       \/ xpc[u] = "end" /\ next[u] = 1
                                    THEN 1 ELSE 0
    BY <1>1 DEF ReportedByOne
  <2>1. CASE u = t
    <3>1. next[t] # 1
      BY <1>2 DEF TransferIndInv, TransferShapes
    <3>2. reports[t] = 0
      BY <1>1, <3>1 DEF TransferIndInv, ReportedByOne
    <3> QED BY <2>1, <3>2, <1>1 DEF TransferIndInv, TransferShapes
  <2>2. CASE u # t
    BY <2>2, <1>1 DEF TransferIndInv, TransferShapes, ReportedByOne
  <2> QED BY <2>1, <2>2
<1> QED BY <1>3, <1>4, <1>5, <1>6, <1>7 DEF TransferIndInv

LEMMA SubtractBytesKeepsInd ==
  ASSUME TransferIndInv, NEW t \in Xfers, SubtractBytes(t)
  PROVE  TransferIndInv'
<1>1. /\ epc[t] = "subtract" /\ epc' = [epc EXCEPT ![t] = "done"]
      /\ cpc' = [c \in AllChunks |-> IF TransferOf(c) = t /\ cpc[c] = "epilogue"
                                     THEN "done" ELSE cpc[c]]
      /\ UNCHANGED <<xpc, next, chunksDone, inUse, holds, uncommitted, reports, isLocal>>
  BY DEF SubtractBytes, Epilogue, initiator, counters, locks, service
<1>2. \A b \in AllChunks :
         /\ cpc'[b] = "none" <=> cpc[b] = "none"
         /\ cpc'[b] \in {"epilogue", "done"} <=> cpc[b] \in {"epilogue", "done"}
  BY <1>1
<1>3. TransferShapes'
  BY <1>1 DEF TransferIndInv, TransferShapes
<1>4. ScheduledInOrder' /\ BlocksOfLists'
  BY <1>1, <1>2, AllChunksPairs DEF TransferIndInv, ScheduledInOrder, BlocksOfLists, ByList
<1>5. \A u \in Xfers : XferCounted(u)' = XferCounted(u)
  BY <1>2, AllChunksPairs DEF XferCounted
<1>6. EpilogueAfterChunks'
  BY <1>1, <1>5 DEF TransferIndInv, TransferShapes, EpilogueAfterChunks
<1>7. HeldAlone'
  BY <1>1 DEF TransferIndInv, TransferShapes, HeldAlone, ReturnsEarly, BeforeUnlock
<1>8. ReportedByOne'
  BY <1>1 DEF TransferIndInv, TransferShapes, ReportedByOne
<1> QED BY <1>3, <1>4, <1>6, <1>7, <1>8 DEF TransferIndInv

LEMMA RunEpilogueKeepsInd ==
  ASSUME TransferIndInv, NEW t \in Xfers, RunEpilogue(t)
  PROVE  TransferIndInv'
<1> USE DEF Epilogue, EpilogueUnchanged, initiator, counters, BeforeUnlock
<1>1. CASE DetectCancellation(t)
  BY <1>1, MoveEpilogue DEF DetectCancellation, service
<1>2. CASE CheckSource(t)
  BY <1>2, MoveEpilogue DEF CheckSource, service
<1>3. CASE ReceiveHash(t)
  <2>1. PICK to \in {"length", "commit"} : epc' = [epc EXCEPT ![t] = to]
    BY <1>3 DEF ReceiveHash
  <2> QED BY <1>3, <2>1, MoveEpilogue DEF ReceiveHash, service
<1>4. CASE CommitBlockList(t)
  <2>1. uncommitted' \subseteq uncommitted
    <3>1. UNCHANGED service => uncommitted' = uncommitted
      BY DEF service
    <3> QED BY <1>4, <3>1, CommitTakesBlocks DEF CommitBlockList
  <2> QED BY <1>4, <2>1, MoveEpilogue DEF CommitBlockList
<1>5. CASE CheckLength(t)
  BY <1>5, MoveEpilogue DEF CheckLength, service
<1>6. CASE Cleanup(t)
  <2>1. uncommitted' \subseteq uncommitted
    BY <1>6 DEF Cleanup, Delete, service
  <2> QED BY <1>6, <2>1, MoveEpilogue DEF Cleanup
<1>7. CASE Finish(t)
  BY <1>7, MoveEpilogue DEF Finish, service
<1> QED BY <1>1, <1>2, <1>3, <1>4, <1>5, <1>6, <1>7, UnlockKeepsInd, ReportDoneKeepsInd,
           SubtractBytesKeepsInd DEF RunEpilogue

(***************************************************************************)
(* The invariant.                                                          *)
(***************************************************************************)
LEMMA InitInd == TransferInit => TransferIndInv
<1> SUFFICES ASSUME TransferInit PROVE TransferIndInv
  OBVIOUS
<1>1. TransferShapes
  BY DEF TransferInit, TransferShapes, BeforeUnlock
<1>2. ScheduledInOrder /\ BlocksOfLists /\ ReportedByOne
  BY AllChunksPairs DEF TransferInit, ScheduledInOrder, BlocksOfLists, ByList, ReportedByOne
<1>3. EpilogueAfterChunks
  <2> SUFFICES ASSUME NEW t \in Xfers
               PROVE  chunksDone[t] = Cardinality(XferCounted(t))
                      /\ (epc[t] = "none" <=> XferCounted(t) # Chunks(t))
    BY DEF EpilogueAfterChunks
  <2>1. XferCounted(t) = {}
    BY AllChunksPairs DEF TransferInit, XferCounted
  <2> QED BY <2>1, ChunksFinite, FS_EmptySet DEF TransferInit
<1>4. HeldAlone
  BY DEF TransferInit, HeldAlone, ReturnsEarly
<1> QED BY <1>1, <1>2, <1>3, <1>4 DEF TransferIndInv

LEMMA NextKeepsInd == TransferIndInv /\ [TransferNext]_xferVars => TransferIndInv'
<1> SUFFICES ASSUME TransferIndInv, [TransferNext]_xferVars PROVE TransferIndInv'
  OBVIOUS
<1>1. ASSUME NEW t \in Xfers, AddToTotal(t) PROVE TransferIndInv'
  BY <1>1, UnchangedInd DEF AddToTotal, indVars, initiator, counters, service
<1>2. CASE CancelJob
  BY <1>2, UnchangedInd DEF CancelJob, indVars, initiator, counters, service
<1>3. CASE UNCHANGED xferVars
  BY <1>3, UnchangedInd DEF xferVars, indVars, initiator, counters, service
<1> QED BY <1>1, <1>2, <1>3, InitiateKeepsInd, StartChunkKeepsInd, RunChunkKeepsInd,
           RunEpilogueKeepsInd DEF TransferNext, XferTerminated

\* The invariant behind the theorems below is inductive.
THEOREM TransferInductive == TransferSpec => []TransferIndInv
<1> QED BY InitInd, NextKeepsInd, PTL DEF TransferSpec

\* ReportTransferDone is called at most once for a transfer, when no chunk func
\* of it is still to run and its destination is free again.
THEOREM ReportedOnce == TransferSpec => []ReportedOnceAtTheEnd
<1>1. TransferIndInv => ReportedOnceAtTheEnd
  <2> SUFFICES ASSUME TransferIndInv, NEW t \in Xfers
               PROVE  /\ reports[t] <= 1
                      /\ reports[t] = 1 =>
                            /\ t \notin holds
                            /\ \A i \in Chunks(t) : cpc[<<t, i>>] \in {"none", "epilogue", "done"}
    BY DEF ReportedOnceAtTheEnd
  <2>1. reports[t] \in {0, 1}
    BY DEF TransferIndInv, ReportedByOne
  <2>2. CASE epc[t] \in {"subtract", "done"}
    <3>1. XferCounted(t) = Chunks(t)
      BY <2>2 DEF TransferIndInv, EpilogueAfterChunks
    <3>2. t \notin holds
      BY <2>2 DEF TransferIndInv, HeldAlone, BeforeUnlock
    <3> QED BY <2>1, <3>1, <3>2 DEF XferCounted
  <2>3. CASE xpc[t] = "end" /\ next[t] = 1
    <3>1. t \notin holds
      BY <2>3 DEF TransferIndInv, HeldAlone, ReturnsEarly
    <3>2. \A i \in Chunks(t) : cpc[<<t, i>>] = "none"
      BY <2>3, ChunksFinite DEF TransferIndInv, ScheduledInOrder, Chunks
    <3> QED BY <2>1, <3>1, <3>2
  <2> QED BY <2>1, <2>2, <2>3 DEF TransferIndInv, ReportedByOne
<1> QED BY <1>1, TransferInductive, PTL

(***************************************************************************)
(* Who removes blocks.                                                     *)
(***************************************************************************)
LEMMA OnlyOwnBlocks ==
  ASSUME TransferIndInv, NEW u \in holds, NEW t \in holds, NEW i \in Chunks(t),
         uncommitted' = uncommitted \ BlocksOf(DestOf[u]),
         <<t, i>> \in uncommitted \ uncommitted'
  PROVE  t = u
<1>1. DestOf[t] = DestOf[u]
  BY DEF BlocksOf, DestinationOf
<1> QED BY <1>1 DEF TransferIndInv, HeldAlone

LEMMA ChunkUndisturbing ==
  ASSUME TransferIndInv, NEW c \in AllChunks, RunChunk(c),
         NEW t \in holds, NEW i \in Chunks(t)
  PROVE  <<t, i>> \notin uncommitted \ uncommitted'
<1>1. CASE PutWholeBlob(c) /\ ~UNCHANGED service
  <2> DEFINE u == TransferOf(c)
  <2>1. u \in Xfers /\ cpc[c] = "body" /\ ~ByList(u)
    BY <1>1, AllChunksPairs DEF PutWholeBlob
  <2>2. u \in holds
    BY <2>1, ScheduledChunk, UncountedChunk DEF TransferIndInv, HeldAlone, BeforeUnlock
  <2>3. uncommitted' = uncommitted \ BlocksOf(DestOf[u])
    BY <1>1 DEF PutWholeBlob, Respond, Commit
  <2>4. ASSUME <<t, i>> \in uncommitted \ uncommitted' PROVE FALSE
    <3>1. t = u
      BY <2>2, <2>3, <2>4, OnlyOwnBlocks
    <3>2. ByList(t)
      BY <2>4 DEF TransferIndInv, BlocksOfLists, TransferOf
    <3> QED BY <2>1, <3>1, <3>2
  <2> QED BY <2>4
<1>2. CASE PutBlock(c)
  BY <1>2 DEF PutBlock, Respond, service
<1>3. CASE UNCHANGED service
  BY <1>3 DEF service
<1> QED BY <1>1, <1>2, <1>3
        DEF RunChunk, Fail, SetFailed, FailUnchanged, AddBytes, CountChunk

LEMMA EpilogueUndisturbing ==
  ASSUME TransferIndInv, NEW u \in Xfers, RunEpilogue(u),
         NEW t \in holds, NEW i \in Chunks(t), <<t, i>> \in uncommitted \ uncommitted'
  PROVE  epc[t] \in {"commit", "cleanup"} /\ epc'[t] # epc[t]
<1>1. CASE CommitBlockList(u) /\ ~UNCHANGED service
  <2>1. epc[u] = "commit" /\ epc' = [epc EXCEPT ![u] = "length"]
    BY <1>1 DEF CommitBlockList, Epilogue
  <2>2. u \in holds
    BY <2>1, InEpilogue DEF TransferIndInv, HeldAlone, BeforeUnlock
  <2>3. uncommitted' = uncommitted \ BlocksOf(DestOf[u])
    BY <1>1 DEF CommitBlockList, Commit
  <2>4. t = u
    BY <2>2, <2>3, OnlyOwnBlocks
  <2> QED BY <2>1, <2>4 DEF TransferIndInv, TransferShapes
<1>2. CASE Cleanup(u) /\ ~UNCHANGED service
  <2>1. epc[u] = "cleanup" /\ epc' = [epc EXCEPT ![u] = "unlock"]
    BY <1>2 DEF Cleanup, Epilogue
  <2>2. u \in holds /\ uncommitted' = uncommitted \ BlocksOf(DestOf[u])
    BY <1>2 DEF Cleanup, Delete
  <2>3. t = u
    BY <2>2, OnlyOwnBlocks
  <2> QED BY <2>1, <2>3 DEF TransferIndInv, TransferShapes
<1>3. CASE UNCHANGED service
  BY <1>3 DEF service
<1> QED BY <1>1, <1>2, <1>3
        DEF RunEpilogue, DetectCancellation, CheckSource, ReceiveHash, CheckLength,
            EnsureDestinationUnlocked, Finish, ReportDone, SubtractBytes

\* While a transfer holds its destination, its blocks there are removed by its
\* own commit or clean-up only.
THEOREM Undisturbed == TransferSpec => BlocksUndisturbed
<1> DEFINE Own == \A t \in holds : \A i \in Chunks(t) :
                     <<t, i>> \in uncommitted \ uncommitted' =>
                        epc[t] \in {"commit", "cleanup"} /\ epc'[t] # epc[t]
<1>1. TransferIndInv /\ [TransferNext]_xferVars => [Own]_xferVars
  <2> SUFFICES ASSUME TransferIndInv, TransferNext PROVE Own
    OBVIOUS
  <2>1. CASE uncommitted' = uncommitted
    BY <2>1
  <2>2. ASSUME NEW c \in AllChunks, RunChunk(c) PROVE Own
    BY <2>2, ChunkUndisturbing
  <2>3. ASSUME NEW u \in Xfers, RunEpilogue(u) PROVE Own
    BY <2>3, EpilogueUndisturbing
  <2>4. ASSUME NEW u \in Xfers, Initiate(u) PROVE uncommitted' = uncommitted
    BY <2>4 DEF Initiate, StartXfer, InitialChecks, WaitUntilLockDestination,
           ReportEarly, Prefetch, PrefetchCancelled, NoPrefetch, PrefetchUnchanged,
           Prologue, ScheduleChunk, SendHash, service
  <2>5. ASSUME NEW u \in Xfers, AddToTotal(u) PROVE uncommitted' = uncommitted
    BY <2>5 DEF AddToTotal, service
  <2>6. ASSUME NEW c \in AllChunks, StartChunk(c) PROVE uncommitted' = uncommitted
    BY <2>6 DEF StartChunk, service
  <2>7. CASE CancelJob
    BY <2>7, <2>1 DEF CancelJob, service
  <2>8. CASE XferTerminated
    BY <2>8, <2>1 DEF XferTerminated, xferVars, service
  <2> QED BY <2>1, <2>2, <2>3, <2>4, <2>5, <2>6, <2>7, <2>8 DEF TransferNext
<1> QED BY <1>1, TransferInductive, PTL DEF TransferSpec, BlocksUndisturbed

(***************************************************************************)
(* A transfer is left alone by the steps of the others: they change none   *)
(* of its variables and, as long as it holds its destination, take none of *)
(* its blocks.                                                             *)
(***************************************************************************)
SameTransfer(t) ==
    /\ jobCancelled' = jobCancelled /\ isLocal' = isLocal
    /\ status'[t] = status[t] /\ cancelled'[t] = cancelled[t]
    /\ xpc'[t] = xpc[t] /\ next'[t] = next[t] /\ prefetchErr'[t] = prefetchErr[t]
    /\ reader'[t] = reader[t] /\ hashed'[t] = hashed[t] /\ md5'[t] = md5[t]
    /\ epc'[t] = epc[t] /\ reports'[t] = reports[t] /\ landed'[t] = landed[t]
    /\ \A i \in Chunks(t) : cpc'[<<t, i>>] = cpc[<<t, i>>]

BlocksStay(t) ==
    t \in holds => \A i \in Chunks(t) : <<t, i>> \in uncommitted => <<t, i>> \in uncommitted'

OneTransfer(t) == FailureInv(t) /\ HashInv(t) /\ LandedInv(t)

\* A chunk that has reached the service belongs to a transfer that still holds
\* its destination, until its epilogue gives it back.
LEMMA ChunksAreHeld ==
  ASSUME TransferIndInv, NEW t \in Xfers, epc[t] \in BeforeUnlock,
         NEW i \in Chunks(t), cpc[<<t, i>>] # "none"
  PROVE  t \in holds
<1>1. <<t, i>> \in AllChunks /\ TransferOf(<<t, i>>) = t
  BY AllChunksPairs DEF TransferOf
<1>2. ~ReturnsEarly(t)
  BY <1>1, ScheduledChunk
<1> QED BY <1>2 DEF TransferIndInv, HeldAlone

LEMMA SameKeepsOne ==
  ASSUME TransferIndInv, NEW t \in Xfers, OneTransfer(t), SameTransfer(t), BlocksStay(t)
  PROVE  OneTransfer(t)'
<1>1. FailureInv(t)'
  BY DEF OneTransfer, SameTransfer, FailureInv, SomeChunk
<1>2. HashInv(t)'
  BY DEF OneTransfer, SameTransfer, HashInv, SomeChunk
<1>3. PutChunks(t)' = PutChunks(t)
  BY DEF SameTransfer, PutChunks
<1>4. ASSUME NEW i \in PutChunks(t), epc[t] \in BeforeUnlock, <<t, i>> \in uncommitted
      PROVE  <<t, i>> \in uncommitted'
  BY <1>4, ChunksAreHeld DEF PutChunks, BlocksStay
<1>5. LandedInv(t)'
  BY <1>3, <1>4 DEF OneTransfer, SameTransfer, LandedInv, Committed, ByList, NeedsHash, BeforeUnlock
<1> QED BY <1>1, <1>2, <1>5 DEF OneTransfer

LEMMA InitiateElsewhere ==
  ASSUME TransferTypeOK, NEW t \in Xfers, NEW u \in Xfers, t # u, Initiate(u)
  PROVE  SameTransfer(t) /\ uncommitted' = uncommitted
<1> USE DEF TransferTypeOK, SameTransfer, service, job, counters, GoOn
<1>1. CASE StartXfer(u)
  BY <1>1 DEF StartXfer, SetStatus
<1>2. CASE InitialChecks(u)
  BY <1>2 DEF InitialChecks, SetStatus
<1>3. CASE WaitUntilLockDestination(u)
  BY <1>3 DEF WaitUntilLockDestination, SetStatus
<1>4. CASE ReportEarly(u)
  BY <1>4 DEF ReportEarly, ReportTransferDone, Cancel
<1>5. CASE Prefetch(u)
  BY <1>5 DEF Prefetch, AfterPrefetch, PrefetchUnchanged
<1>6. CASE PrefetchCancelled(u)
  BY <1>6 DEF PrefetchCancelled, AfterPrefetch, PrefetchUnchanged
<1>7. CASE NoPrefetch(u)
  BY <1>7 DEF NoPrefetch, AfterPrefetch, PrefetchUnchanged
<1>8. CASE Prologue(u)
  BY <1>8 DEF Prologue, FailActive, Cancel, SetStatus
<1>9. CASE ScheduleChunk(u)
  BY <1>9, AllChunksPairs DEF ScheduleChunk
<1>10. CASE SendHash(u)
  BY <1>10 DEF SendHash
<1> QED BY <1>1, <1>2, <1>3, <1>4, <1>5, <1>6, <1>7, <1>8, <1>9, <1>10 DEF Initiate

LEMMA ChunkElsewhere ==
  ASSUME TransferTypeOK, NEW t \in Xfers, NEW c \in AllChunks, TransferOf(c) # t,
         StartChunk(c) \/ RunChunk(c)
  PROVE  SameTransfer(t)
<1> DEFINE u == TransferOf(c)
<1>0. u \in Xfers /\ \A i \in Chunks(t) : <<t, i>> # c /\ <<t, i>> \in AllChunks
  BY AllChunksPairs DEF TransferOf
<1> USE <1>0
    DEF TransferTypeOK, SameTransfer, service, job, counters, initiator, Step, ChunkUnchanged
<1>1. CASE StartChunk(c)
  BY <1>1 DEF StartChunk
<1>2. CASE PutBlock(c)
  BY <1>2 DEF PutBlock, Respond
<1>3. CASE PutWholeBlob(c)
  BY <1>3 DEF PutWholeBlob, Respond, Commit
<1>4. CASE Fail(c)
  BY <1>4 DEF Fail, Cancel, FailUnchanged
<1>5. CASE SetFailed(c)
  BY <1>5 DEF SetFailed, SetStatus, FailUnchanged
<1>6. CASE AddBytes(c)
  BY <1>6 DEF AddBytes
<1>7. CASE CountChunk(c)
  BY <1>7 DEF CountChunk
<1> QED BY <1>1, <1>2, <1>3, <1>4, <1>5, <1>6, <1>7 DEF RunChunk

LEMMA EpilogueElsewhere ==
  ASSUME TransferTypeOK, NEW t \in Xfers, NEW u \in Xfers, t # u, RunEpilogue(u)
  PROVE  SameTransfer(t)
<1> USE DEF TransferTypeOK, SameTransfer, service, job, counters, initiator, Epilogue,
            EpilogueUnchanged, SetStatus, FailActive, Cancel
<1>1. CASE DetectCancellation(u)
  BY <1>1 DEF DetectCancellation
<1>2. CASE CheckSource(u)
  BY <1>2 DEF CheckSource
<1>3. CASE ReceiveHash(u)
  BY <1>3 DEF ReceiveHash
<1>4. CASE CommitBlockList(u)
  BY <1>4 DEF CommitBlockList, Commit
<1>5. CASE CheckLength(u)
  BY <1>5 DEF CheckLength
<1>6. CASE Cleanup(u)
  BY <1>6 DEF Cleanup, Delete
<1>7. CASE EnsureDestinationUnlocked(u)
  BY <1>7 DEF EnsureDestinationUnlocked
<1>8. CASE Finish(u)
  BY <1>8 DEF Finish
<1>9. CASE ReportDone(u)
  BY <1>9 DEF ReportDone, ReportTransferDone
<1>10. CASE SubtractBytes(u)
  <2>1. \A i \in Chunks(t) : <<t, i>> \in AllChunks /\ TransferOf(<<t, i>>) = t
    BY AllChunksPairs DEF TransferOf
  <2> QED BY <1>10, <2>1 DEF SubtractBytes
<1> QED BY <1>1, <1>2, <1>3, <1>4, <1>5, <1>6, <1>7, <1>8, <1>9, <1>10 DEF RunEpilogue

\* What each step leaves alone.
LEMMA OthersKept ==
  ASSUME TransferIndInv, TransferTypeOK, NEW t \in Xfers, OneTransfer(t),
         \/ \E u \in Xfers : u # t /\ (Initiate(u) \/ RunEpilogue(u))
         \/ \E c \in AllChunks : TransferOf(c) # t /\ (StartChunk(c) \/ RunChunk(c))
         \/ \E u \in Xfers : AddToTotal(u)
         \/ XferTerminated
         \/ UNCHANGED xferVars
  PROVE  OneTransfer(t)'
<1>1. ASSUME NEW u \in Xfers, u # t, Initiate(u)
      PROVE  SameTransfer(t) /\ BlocksStay(t)
  BY <1>1, InitiateElsewhere DEF BlocksStay
<1>2. ASSUME NEW u \in Xfers, u # t, RunEpilogue(u)
      PROVE  SameTransfer(t) /\ BlocksStay(t)
  <2>1. SameTransfer(t)
    BY <1>2, EpilogueElsewhere
  <2>2. BlocksStay(t)
    BY <1>2, <2>1, EpilogueUndisturbing DEF BlocksStay, SameTransfer
  <2> QED BY <2>1, <2>2
<1>3. ASSUME NEW c \in AllChunks, TransferOf(c) # t, StartChunk(c)
      PROVE  SameTransfer(t) /\ BlocksStay(t)
  BY <1>3, ChunkElsewhere DEF StartChunk, BlocksStay, service
<1>4. ASSUME NEW c \in AllChunks, TransferOf(c) # t, RunChunk(c)
      PROVE  SameTransfer(t) /\ BlocksStay(t)
  BY <1>4, ChunkElsewhere, ChunkUndisturbing DEF BlocksStay
<1>5. ASSUME NEW u \in Xfers, AddToTotal(u)
      PROVE  SameTransfer(t) /\ BlocksStay(t)
  BY <1>5 DEF AddToTotal, SameTransfer, BlocksStay, job, initiator, service
<1>6. CASE UNCHANGED xferVars
  BY <1>6, SameKeepsOne DEF xferVars, SameTransfer, BlocksStay, job, initiator, service
<1> QED BY <1>1, <1>2, <1>3, <1>4, <1>5, <1>6, SameKeepsOne DEF XferTerminated


(***************************************************************************)
(* Failures.                                                               *)
(***************************************************************************)
LEMMA FailureStays ==
  ASSUME NEW t \in Xfers, FailureInv(t), jobCancelled' = jobCancelled,
         status'[t] = status[t], cancelled'[t] = cancelled[t], reports'[t] = reports[t],
         \A i \in Chunks(t) : cpc'[<<t, i>>] = "setFailed" <=> cpc[<<t, i>>] = "setFailed",
         epc'[t] \in AfterFinish <=> epc[t] \in AfterFinish,
         \/ xpc'[t] = xpc[t] /\ next'[t] = next[t]
         \/ /\ xpc[t] \in {"prefetch", "prologue", "schedule", "hash"}
            /\ \/ xpc'[t] \in {"prefetch", "prologue", "schedule", "hash"}
               \/ xpc'[t] = "end" /\ next'[t] # 1
  PROVE  FailureInv(t)'
<1>1. SomeChunk(t, {"setFailed"})' <=> SomeChunk(t, {"setFailed"})
  BY DEF SomeChunk
<1> QED BY <1>1 DEF FailureInv

\* No chunk func is about to record a failure where there are no chunk funcs
\* yet, nor in the epilogue.
LEMMA NoneToRecord ==
  ASSUME TransferIndInv, NEW t \in Xfers, ReturnsEarly(t) \/ next[t] = 1 \/ epc[t] # "none"
  PROVE  ~SomeChunk(t, {"setFailed"})
<1> SUFFICES ASSUME NEW i \in Chunks(t), cpc[<<t, i>>] = "setFailed" PROVE FALSE
  BY DEF SomeChunk
<1>1. <<t, i>> \in AllChunks /\ TransferOf(<<t, i>>) = t
  BY AllChunksPairs DEF TransferOf
<1>2. next[t] > 1 /\ ~ReturnsEarly(t)
  BY <1>1, ScheduledChunk
<1>3. epc[t] = "none"
  BY <1>1, UncountedChunk
<1> QED BY <1>2, <1>3 DEF TransferIndInv, TransferShapes

LEMMA NotReportedYet ==
  ASSUME TransferIndInv, NEW t \in Xfers,
         epc[t] \notin {"subtract", "done"}, xpc[t] # "end" \/ next[t] # 1
  PROVE  reports[t] = 0
  BY DEF TransferIndInv, ReportedByOne

\* Before the transfer is reported its status is final or still to come.
LEMMA StatusSoFar ==
  ASSUME TransferTypeOK, NEW t \in Xfers, FailureInv(t), epc[t] \notin AfterFinish,
         status[t] \notin FailedStatuses
  PROVE  status[t] = "Started"
  BY DEF TransferTypeOK, FailureInv

LEMMA InitiateFailure ==
  ASSUME TransferIndInv, TransferTypeOK, NEW t \in Xfers, FailureInv(t), Initiate(t)
  PROVE  FailureInv(t)'
<1> USE DEF TransferTypeOK, job, counters, GoOn
<1>1. ASSUME ReturnsEarly(t) \/ next[t] = 1 PROVE ~SomeChunk(t, {"setFailed"}) /\ epc[t] = "none"
  <2>1. epc[t] = "none"
    BY <1>1, InEpilogue DEF TransferIndInv, TransferShapes
  <2> QED BY <1>1, <2>1, NoneToRecord
<1>2. CASE StartXfer(t)
  <2>1. ~SomeChunk(t, {"setFailed"}) /\ epc[t] = "none" /\ reports[t] = 0 /\ status[t] = "Started"
    BY <1>1, <1>2, NotReportedYet DEF StartXfer, ReturnsEarly, FailureInv
  <2>2. SomeChunk(t, {"setFailed"})' <=> SomeChunk(t, {"setFailed"})
    BY <1>2 DEF StartXfer, SomeChunk
  <2> QED BY <1>2, <2>1, <2>2
          DEF StartXfer, SetStatus, Morph, FailureInv, FailedStatuses, AfterFinish
<1>3. CASE InitialChecks(t)
  <2>1. ~SomeChunk(t, {"setFailed"}) /\ epc[t] = "none" /\ status[t] = "Started"
    BY <1>1, <1>3 DEF InitialChecks, ReturnsEarly, FailureInv
  <2>2. SomeChunk(t, {"setFailed"})' <=> SomeChunk(t, {"setFailed"})
    BY <1>3 DEF InitialChecks, SomeChunk
  <2> QED BY <1>3, <2>1, <2>2
          DEF InitialChecks, SetStatus, Morph, FailureInv, FailedStatuses, AfterFinish
<1>4. CASE WaitUntilLockDestination(t)
  <2>1. ~SomeChunk(t, {"setFailed"}) /\ epc[t] = "none" /\ status[t] = "Started"
    BY <1>1, <1>4 DEF WaitUntilLockDestination, ReturnsEarly, FailureInv
  <2>2. SomeChunk(t, {"setFailed"})' <=> SomeChunk(t, {"setFailed"})
    BY <1>4 DEF WaitUntilLockDestination, SomeChunk
  <2> QED BY <1>4, <2>1, <2>2
         
              DEF WaitUntilLockDestination, SetStatus, Morph, FailureInv, FailedStatuses,
                  AfterFinish
<1>5. CASE ReportEarly(t)
  <2>1. ~SomeChunk(t, {"setFailed"}) /\ epc[t] = "none" /\ status[t] \in FailedStatuses
    BY <1>1, <1>5 DEF ReportEarly, ReturnsEarly, FailureInv
  <2>2. SomeChunk(t, {"setFailed"})' <=> SomeChunk(t, {"setFailed"})
    BY <1>5 DEF ReportEarly, SomeChunk
  <2> QED BY <1>5, <2>1, <2>2
          DEF ReportEarly, ReportTransferDone, Cancel, FailureInv, FailedStatuses, AfterFinish
<1>6. CASE Prefetch(t)
  BY <1>6, FailureStays DEF Prefetch, AfterPrefetch, PrefetchUnchanged
<1>7. CASE PrefetchCancelled(t)
  BY <1>7, FailureStays DEF PrefetchCancelled, AfterPrefetch, PrefetchUnchanged
<1>8. CASE NoPrefetch(t)
  BY <1>8, FailureStays DEF NoPrefetch, AfterPrefetch, PrefetchUnchanged
<1>9. CASE Prologue(t) /\ UNCHANGED <<status, cancelled>>
  BY <1>9, FailureStays DEF Prologue
<1>10. CASE Prologue(t) /\ FailActive(t) /\ ~cancelled[t]
  <2>1. SomeChunk(t, {"setFailed"})' <=> SomeChunk(t, {"setFailed"})
    BY <1>10 DEF Prologue, SomeChunk
  <2>2. cancelled'[t] = TRUE /\ status'[t] = Morph(status[t], "Failed")
    BY <1>10 DEF Prologue, FailActive, Cancel, SetStatus
  <2>3. status'[t] \in {"Failed", "Skipped", "Cancelled"} /\ (status'[t] = "Cancelled" => status[t] = "Cancelled")
    BY <2>2 DEF Morph, FailedStatuses
  <2> QED BY <1>10, <2>1, <2>2, <2>3 DEF Prologue, FailureInv, FailedStatuses, AfterFinish
<1>11. CASE ScheduleChunk(t)
  <2>1. next[t] \in Chunks(t) /\ cpc[<<t, next[t]>>] = "none"
    BY <1>11, ChunksFinite
       DEF ScheduleChunk, TransferIndInv, TransferShapes, ScheduledInOrder, Chunks
  <2>2. \A i \in Chunks(t) : cpc'[<<t, i>>] = "setFailed" <=> cpc[<<t, i>>] = "setFailed"
    BY <1>11, <2>1, AllChunksPairs DEF ScheduleChunk
  <2>3. xpc'[t] \in {"prefetch", "hash"}
    BY <1>11 DEF ScheduleChunk
  <2> QED BY <1>11, <2>2, <2>3, FailureStays DEF ScheduleChunk
<1>12. CASE SendHash(t)
  BY <1>12, FailureStays DEF SendHash, TransferIndInv, ScheduledInOrder
<1> QED BY <1>2, <1>3, <1>4, <1>5, <1>6, <1>7, <1>8, <1>9, <1>10, <1>11, <1>12
        DEF Initiate, Prologue, FailActive


LEMMA ChunkFailure ==
  ASSUME TransferIndInv, TransferTypeOK, NEW t \in Xfers, NEW k \in Chunks(t), FailureInv(t),
         StartChunk(<<t, k>>) \/ RunChunk(<<t, k>>)
  PROVE  FailureInv(t)'
<1> DEFINE c == <<t, k>>
<1>0. c \in AllChunks /\ TransferOf(c) = t /\ \A i \in Chunks(t) : <<t, i>> \in AllChunks
  BY AllChunksPairs DEF TransferOf
<1> USE DEF TransferTypeOK, job, counters, initiator, Step, ChunkUnchanged
<1>1. CASE StartChunk(c)
  <2>1. PICK pc \in {"addBytes", "body", "fail"} : cpc' = [cpc EXCEPT ![c] = pc]
    BY <1>1 DEF StartChunk
  <2> QED BY <1>0, <1>1, <2>1, FailureStays DEF StartChunk
<1>2. CASE PutBlock(c) \/ PutWholeBlob(c)
  <2>1. PICK pc \in {"addBytes", "fail"} : cpc' = [cpc EXCEPT ![c] = pc]
    BY <1>2 DEF PutBlock, PutWholeBlob, Respond
  <2>2. cpc[c] = "body" /\ UNCHANGED <<status, cancelled, jobCancelled, xpc, next, epc, reports>>
    BY <1>2 DEF PutBlock, PutWholeBlob, Respond
  <2> QED BY <1>0, <2>1, <2>2, FailureStays
<1>3. CASE Fail(c) /\ cancelled[t]
  BY <1>0, <1>3, FailureStays DEF Fail, FailUnchanged
<1>4. CASE Fail(c) /\ ~cancelled[t]
  <2>1. /\ cpc'[c] = "setFailed" /\ cancelled'[t] = TRUE
        /\ UNCHANGED <<status, jobCancelled, xpc, next, epc, reports>>
    BY <1>0, <1>4 DEF Fail, Cancel, FailUnchanged
  <2>2. SomeChunk(t, {"setFailed"})'
    BY <2>1 DEF SomeChunk
  <2> QED BY <2>1, <2>2 DEF FailureInv
<1>5. CASE SetFailed(c)
  <2>1. /\ status'[t] = Morph(status[t], "Failed") /\ cpc[c] = "setFailed"
        /\ cpc' = [cpc EXCEPT ![c] = "addBytes"]
        /\ UNCHANGED <<cancelled, jobCancelled, xpc, next, epc, reports>>
    BY <1>0, <1>5 DEF SetFailed, SetStatus, FailUnchanged
  <2>2. cancelled[t] /\ ~ReturnsEarly(t)
    BY <1>0, <2>1, ScheduledChunk DEF FailureInv, SomeChunk
  <2>3. status'[t] \in {"Failed", "Skipped", "Cancelled"} /\ (status'[t] = "Cancelled" => status[t] = "Cancelled")
    BY <2>1 DEF Morph, FailedStatuses
  <2> QED BY <2>1, <2>2, <2>3 DEF FailureInv, FailedStatuses, ReturnsEarly
<1>6. CASE AddBytes(c)
  BY <1>0, <1>6, FailureStays DEF AddBytes
<1>7. CASE CountChunk(c)
  <2>1. PICK pc \in {"epilogue", "done"} : cpc' = [cpc EXCEPT ![c] = pc]
    BY <1>7 DEF CountChunk
  <2>2. epc[t] = "none" /\ epc'[t] \in {"none", "start"}
    BY <1>0, <1>7, UncountedChunk DEF CountChunk
  <2> QED BY <1>0, <1>7, <2>1, <2>2, FailureStays DEF CountChunk, AfterFinish
<1> QED BY <1>0, <1>1, <1>2, <1>3, <1>4, <1>5, <1>6, <1>7 DEF RunChunk

\* The epilogue before it claims success.
LEMMA EpilogueFails ==
  ASSUME TransferIndInv, TransferTypeOK, NEW t \in Xfers, FailureInv(t),
         epc[t] \notin AfterFinish \union {"none"}, epc'[t] \notin AfterFinish,
         UNCHANGED <<status, cancelled>> \/ FailActive(t),
         UNCHANGED <<jobCancelled, xpc, next, cpc, reports>>
  PROVE  FailureInv(t)'
<1>1. ~SomeChunk(t, {"setFailed"}) /\ ~ReturnsEarly(t)
  BY NoneToRecord, InEpilogue
<1>2. CASE UNCHANGED <<status, cancelled>>
  BY <1>2, FailureStays
<1>3. CASE FailActive(t) /\ ~cancelled[t]
  <2>1. cancelled'[t] = TRUE /\ status'[t] = Morph(status[t], "Failed")
    BY <1>3 DEF FailActive, Cancel, SetStatus, TransferTypeOK
  <2>2. status'[t] \in {"Failed", "Skipped", "Cancelled"} /\ (status'[t] = "Cancelled" => status[t] = "Cancelled")
    BY <2>1 DEF Morph, FailedStatuses
  <2>3. ~SomeChunk(t, {"setFailed"})'
    BY <1>1 DEF SomeChunk
  <2> QED BY <1>1, <2>1, <2>2, <2>3 DEF FailureInv, FailedStatuses, ReturnsEarly
<1> QED BY <1>2, <1>3 DEF FailActive

LEMMA EpilogueFailure ==
  ASSUME TransferIndInv, TransferTypeOK, NEW t \in Xfers, FailureInv(t), RunEpilogue(t)
  PROVE  FailureInv(t)'
<1>0. /\ epc[t] # "none" => ~SomeChunk(t, {"setFailed"}) /\ ~ReturnsEarly(t)
      /\ epc[t] \notin {"none", "subtract", "done"} => reports[t] = 0
  BY NoneToRecord, InEpilogue, NotReportedYet DEF ReturnsEarly
<1> USE DEF TransferTypeOK, job, counters, initiator, Epilogue, EpilogueUnchanged
<1>1. CASE DetectCancellation(t)
  <2>1. CASE ~cancelled[t]
    BY <1>1, <2>1, EpilogueFails DEF DetectCancellation, AfterFinish
  <2>2. CASE cancelled[t]
    <3>1. /\ epc[t] = "start" /\ epc'[t] = "source" /\ status'[t] = Morph(status[t], "Cancelled")
          /\ UNCHANGED <<cancelled, jobCancelled, xpc, next, cpc, reports>>
      BY <1>1, <2>2 DEF DetectCancellation, SetStatus
    <3>2. ~SomeChunk(t, {"setFailed"})'
      BY <1>0, <3>1 DEF SomeChunk
    <3>3. /\ status'[t] \in FailedStatuses
          /\ status[t] \in FailedStatuses => status'[t] = status[t]
      BY <3>1 DEF Morph, FailedStatuses
    <3>4. ~jobCancelled => status[t] \in FailedStatuses
      BY <1>0, <2>2, <3>1 DEF FailureInv
    <3> QED BY <1>0, <2>2, <3>1, <3>2, <3>3, <3>4
               DEF FailureInv, AfterFinish, ReturnsEarly, FailedStatuses
  <2> QED BY <2>1, <2>2
<1>2. CASE CheckSource(t) \/ ReceiveHash(t) \/ CommitBlockList(t) \/ CheckLength(t)
  <2>1. /\ epc[t] \in {"source", "sender", "commit", "length"}
        /\ epc'[t] \in {"sender", "commit", "length", "cleanup"}
        /\ UNCHANGED <<status, cancelled>> \/ FailActive(t)
        /\ UNCHANGED <<jobCancelled, xpc, next, cpc, reports>>
    BY <1>2 DEF CheckSource, ReceiveHash, CommitBlockList, CheckLength
  <2> QED BY <2>1, EpilogueFails DEF AfterFinish
<1>3. CASE Cleanup(t) \/ EnsureDestinationUnlocked(t)
  BY <1>3, EpilogueFails DEF Cleanup, EnsureDestinationUnlocked, AfterFinish
<1>4. CASE Finish(t)
  <2>1. /\ epc[t] = "finish" /\ epc'[t] = "report"
        /\ status'[t] = IF IsLive(t) THEN Morph(status[t], "Success") ELSE status[t]
        /\ UNCHANGED <<cancelled, jobCancelled, xpc, next, cpc, reports>>
    BY <1>4 DEF Finish, SetStatus
  <2>2. ~SomeChunk(t, {"setFailed"})'
    BY <1>0, <2>1 DEF SomeChunk
  <2>3. CASE IsLive(t)
    <3>1. status'[t] = "Success" /\ ~cancelled[t]
      BY <2>1, <2>3 DEF IsLive, Morph
    <3> QED BY <1>0, <2>1, <2>2, <3>1 DEF FailureInv, AfterFinish, ReturnsEarly, FailedStatuses
  <2>4. CASE ~IsLive(t)
    <3>1. status'[t] = status[t]
      BY <2>1, <2>4
    <3>2. ~jobCancelled => status[t] \in {"Failed", "Skipped"}
      BY <1>0, <2>1, <2>4 DEF IsLive, FailureInv, FailedStatuses
    <3> QED BY <1>0, <2>1, <2>2, <3>1, <3>2
               DEF FailureInv, AfterFinish, ReturnsEarly, FailedStatuses
  <2> QED BY <2>3, <2>4
<1>5. CASE ReportDone(t)
  <2>1. /\ epc[t] = "report" /\ epc'[t] = "subtract" /\ reports'[t] = reports[t] + 1 /\ cancelled'[t] = TRUE
        /\ UNCHANGED <<status, jobCancelled, xpc, next, cpc>>
    BY <1>5 DEF ReportDone, ReportTransferDone, Cancel
  <2>2. SomeChunk(t, {"setFailed"})' <=> SomeChunk(t, {"setFailed"})
    BY <2>1 DEF SomeChunk
  <2>3. reports'[t] > 0
    BY <2>1
  <2> QED BY <2>1, <2>2, <2>3 DEF FailureInv, AfterFinish
<1>6. CASE SubtractBytes(t)
  <2>1. \A i \in Chunks(t) : cpc'[<<t, i>>] = "setFailed" <=> cpc[<<t, i>>] = "setFailed"
    BY <1>6, AllChunksPairs DEF SubtractBytes
  <2> QED BY <1>6, <2>1, FailureStays DEF SubtractBytes, AfterFinish
<1> QED BY <1>1, <1>2, <1>3, <1>4, <1>5, <1>6 DEF RunEpilogue


(***************************************************************************)
(* The hash.                                                               *)
(***************************************************************************)
BadChunks == {"badQueued", "fail"}

LEMMA HashStays ==
  ASSUME NEW t \in Xfers, HashInv(t), isLocal' = isLocal,
         xpc'[t] = xpc[t], next'[t] = next[t], prefetchErr'[t] = prefetchErr[t],
         reader'[t] = reader[t], hashed'[t] = hashed[t], md5'[t] = md5[t],
         cancelled[t] => cancelled'[t],
         SomeChunk(t, BadChunks) => SomeChunk(t, BadChunks)' \/ cancelled'[t]
  PROVE  HashInv(t)'
  BY DEF HashInv, BadChunks

LEMMA ChunkHash ==
  ASSUME TransferTypeOK, NEW t \in Xfers, NEW k \in Chunks(t), HashInv(t),
         StartChunk(<<t, k>>) \/ RunChunk(<<t, k>>)
  PROVE  HashInv(t)'
<1> DEFINE c == <<t, k>>
<1>0. c \in AllChunks /\ TransferOf(c) = t /\ \A i \in Chunks(t) : <<t, i>> \in AllChunks
  BY AllChunksPairs DEF TransferOf
<1> USE DEF TransferTypeOK, job, counters, initiator, Step, ChunkUnchanged
<1>1. /\ UNCHANGED <<isLocal, xpc, next, prefetchErr, reader, hashed, md5>>
      /\ \A i \in Chunks(t) : i # k => cpc'[<<t, i>>] = cpc[<<t, i>>]
      /\ cancelled[t] => cancelled'[t]
      /\ \/ cpc[c] \notin BadChunks
         \/ cpc'[c] \in BadChunks
         \/ cancelled'[t]
  <2>1. CASE StartChunk(c)
    BY <1>0, <2>1 DEF StartChunk, BadChunks
  <2>2. CASE PutBlock(c)
    BY <1>0, <2>2 DEF PutBlock, Respond, BadChunks
  <2>3. CASE PutWholeBlob(c)
    BY <1>0, <2>3 DEF PutWholeBlob, Respond, BadChunks
  <2>4. CASE Fail(c)
    BY <1>0, <2>4 DEF Fail, Cancel, FailUnchanged
  <2>5. CASE SetFailed(c)
    BY <1>0, <2>5 DEF SetFailed, FailUnchanged, BadChunks
  <2>6. CASE AddBytes(c) \/ CountChunk(c)
    BY <1>0, <2>6 DEF AddBytes, CountChunk, BadChunks
  <2> QED BY <2>1, <2>2, <2>3, <2>4, <2>5, <2>6 DEF RunChunk
<1>2. SomeChunk(t, BadChunks) => SomeChunk(t, BadChunks)' \/ cancelled'[t]
  BY <1>1 DEF SomeChunk
<1> QED BY <1>1, <1>2, HashStays

LEMMA EpilogueHash ==
  ASSUME TransferTypeOK, NEW t \in Xfers, HashInv(t), RunEpilogue(t)
  PROVE  HashInv(t)'
<1> USE DEF TransferTypeOK, job, counters, initiator, Epilogue, EpilogueUnchanged,
            FailActive, Cancel
<1>1. CASE SubtractBytes(t)
  <2>1. SomeChunk(t, BadChunks) => SomeChunk(t, BadChunks)'
    BY <1>1, AllChunksPairs DEF SubtractBytes, SomeChunk, BadChunks
  <2> QED BY <1>1, <2>1, HashStays DEF SubtractBytes
<1>2. CASE ~SubtractBytes(t)
  <2>1. /\ UNCHANGED <<isLocal, xpc, next, prefetchErr, reader, hashed, md5, cpc>>
        /\ cancelled[t] => cancelled'[t]
    <3>1. CASE DetectCancellation(t)
      BY <3>1 DEF DetectCancellation
    <3>2. CASE CheckSource(t)
      BY <3>2 DEF CheckSource
    <3>3. CASE ReceiveHash(t)
      BY <3>3 DEF ReceiveHash
    <3>4. CASE CommitBlockList(t)
      BY <3>4 DEF CommitBlockList
    <3>5. CASE CheckLength(t)
      BY <3>5 DEF CheckLength
    <3>6. CASE Cleanup(t) \/ EnsureDestinationUnlocked(t) \/ Finish(t)
      BY <3>6 DEF Cleanup, EnsureDestinationUnlocked, Finish
    <3>7. CASE ReportDone(t)
      BY <3>7 DEF ReportDone, ReportTransferDone
    <3> QED BY <1>2, <3>1, <3>2, <3>3, <3>4, <3>5, <3>6, <3>7 DEF RunEpilogue
  <2>2. SomeChunk(t, BadChunks) => SomeChunk(t, BadChunks)'
    BY <2>1 DEF SomeChunk
  <2> QED BY <2>1, <2>2, HashStays
<1> QED BY <1>1, <1>2

LEMMA InitiateHash ==
  ASSUME TransferIndInv, TransferTypeOK, NEW t \in Xfers, HashInv(t), Initiate(t)
  PROVE  HashInv(t)'
<1>0. NumChunks[t] \in Nat /\ next[t] \in Nat /\ hashed[t] \in Nat /\ reader[t] \in Nat
  BY ChunksFinite DEF TransferTypeOK
<1> USE DEF TransferTypeOK, job, counters, GoOn
<1>1. CASE StartXfer(t) \/ InitialChecks(t) \/ WaitUntilLockDestination(t) \/ ReportEarly(t)
  <2>1. /\ UNCHANGED <<isLocal, next, prefetchErr, reader, hashed, md5, cpc>>
        /\ cancelled[t] => cancelled'[t]
        /\ xpc[t] \in {"start", "checks", "lock", "report"}
        /\ \/ xpc'[t] \in {"checks", "lock", "report", "prefetch"}
           \/ xpc'[t] = "end" /\ next[t] = 1
    BY <1>1 DEF StartXfer, InitialChecks, WaitUntilLockDestination, ReportEarly,
                ReportTransferDone, Cancel, TransferIndInv, ScheduledInOrder
  <2>2. SomeChunk(t, BadChunks) => SomeChunk(t, BadChunks)'
    BY <2>1 DEF SomeChunk
  <2> QED BY <2>1, <2>2 DEF HashInv, BadChunks
<1>2. CASE Prefetch(t) \/ PrefetchCancelled(t) \/ NoPrefetch(t)
  <2>1. /\ xpc[t] = "prefetch" /\ xpc'[t] \in {"prologue", "schedule"}
        /\ UNCHANGED <<isLocal, next, md5>>
    BY <1>2 DEF Prefetch, PrefetchCancelled, NoPrefetch, AfterPrefetch, PrefetchUnchanged
  <2>2. isLocal /\ ~prefetchErr'[t] =>
          ~prefetchErr[t] /\ reader'[t] = next[t] /\ hashed'[t] = hashed[t] + 1
    BY <1>2 DEF Prefetch, PrefetchCancelled, NoPrefetch
  <2> QED BY <1>0, <2>1, <2>2 DEF HashInv
<1>3. CASE Prologue(t)
  <2>1. /\ xpc[t] = "prologue" /\ xpc'[t] = "schedule"
        /\ UNCHANGED <<isLocal, next, prefetchErr, reader, hashed, md5>>
    BY <1>3 DEF Prologue
  <2> QED BY <1>0, <2>1 DEF HashInv
<1>4. CASE ScheduleChunk(t)
  <2>1. /\ xpc[t] = "schedule"
        /\ xpc'[t] = IF next[t] = NumChunks[t] THEN "hash" ELSE "prefetch"
        /\ next'[t] = next[t] + 1 /\ <<t, next[t]>> \in AllChunks /\ next[t] \in Chunks(t)
        /\ prefetchErr[t] => cpc'[<<t, next[t]>>] = "badQueued"
        /\ UNCHANGED <<isLocal, prefetchErr, reader, hashed, md5>>
    <3>1. next[t] \in Chunks(t) /\ <<t, next[t]>> \in AllChunks
      BY <1>4, ChunksFinite, AllChunksPairs
         DEF ScheduleChunk, TransferIndInv, TransferShapes, ScheduledInOrder, Chunks
    <3> QED BY <1>4, <3>1 DEF ScheduleChunk
  <2>2. prefetchErr[t] => SomeChunk(t, {"badQueued", "fail"})'
    <3>1. Chunks(t)' = Chunks(t)
      BY DEF Chunks
    <3> QED BY <2>1, <3>1 DEF SomeChunk
  <2> QED BY <1>0, <2>1, <2>2 DEF HashInv
<1>5. CASE SendHash(t)
  <2>1. /\ xpc[t] = "hash" /\ xpc'[t] = "end" /\ next[t] = NumChunks[t] + 1
        /\ md5'[t] = IF ~isLocal \/ reader[t] > hashed[t] THEN "closed"
                     ELSE IF hashed[t] = NumChunks[t] THEN "whole" ELSE "partial"
        /\ UNCHANGED <<isLocal, next, prefetchErr, reader, hashed, cancelled, cpc>>
    BY <1>5 DEF SendHash, HashInv
  <2>2. isLocal /\ ~prefetchErr[t] => hashed[t] = NumChunks[t] /\ reader[t] <= hashed[t]
    BY <1>0, <2>1 DEF HashInv
  <2>3. SomeChunk(t, BadChunks) => SomeChunk(t, BadChunks)'
    BY <2>1 DEF SomeChunk
  <2> QED BY <1>0, <2>1, <2>2, <2>3 DEF HashInv, BadChunks
<1> QED BY <1>1, <1>2, <1>3, <1>4, <1>5 DEF Initiate


\* The chunk at hand is one of the file, and not scheduled yet.
LEMMA ChunkAtHand ==
  ASSUME TransferIndInv, NEW t \in Xfers, xpc[t] \in {"prefetch", "prologue", "schedule"}
  PROVE  /\ next[t] \in Chunks(t) /\ <<t, next[t]>> \in AllChunks
         /\ cpc[<<t, next[t]>>] = "none"
<1>1. next[t] \in Chunks(t) /\ cpc[<<t, next[t]>>] = "none"
  BY ChunksFinite DEF TransferIndInv, TransferShapes, ScheduledInOrder, Chunks
<1> QED BY <1>1, AllChunksPairs

LEMMA OneOrMore ==
  ASSUME NEW t \in Xfers
  PROVE  NumChunks[t] = 1 \/ NumChunks[t] > 1
  BY ChunksFinite

(***************************************************************************)
(* What has landed at the service.                                         *)
(***************************************************************************)

\* An upload that nobody has cancelled has hashed the whole file when its last
\* chunk is counted, and knows whether it has to put a block list.
LEMMA HashedWhole ==
  ASSUME TransferIndInv, TransferTypeOK, NEW t \in Xfers, HashInv(t),
         epc[t] # "none", ~cancelled[t]
  PROVE  /\ isLocal => hashed[t] = NumChunks[t] /\ md5[t] \in {"open", "whole"}
         /\ PutListNeeded(t) <=> ByList(t)
<1>0. NumChunks[t] \in Nat \ {0} /\ next[t] \in Nat /\ hashed[t] \in Nat
  BY ChunksFinite DEF TransferTypeOK
<1>1. next[t] > 1 /\ ~ReturnsEarly(t) /\ XferCounted(t) = Chunks(t)
  BY InEpilogue DEF TransferIndInv, EpilogueAfterChunks
<1>2. NumChunks[t] \in Chunks(t) /\ cpc[<<t, NumChunks[t]>>] # "none"
  BY <1>0, <1>1 DEF Chunks, XferCounted
<1>3. NumChunks[t] < next[t]
  BY <1>0, <1>2 DEF TransferIndInv, ScheduledInOrder
<1>4. xpc[t] \in {"hash", "end"} /\ next[t] = NumChunks[t] + 1
  BY <1>0, <1>1, <1>3
     DEF TransferIndInv, TransferShapes, ScheduledInOrder, ReturnsEarly, HashInv
<1>5. ~SomeChunk(t, {"badQueued", "fail"})
  BY <1>1 DEF SomeChunk, XferCounted
<1>6. ~prefetchErr[t]
  BY <1>4, <1>5 DEF HashInv
<1>7. isLocal => hashed[t] = NumChunks[t] /\ md5[t] \in {"open", "whole"}
  BY <1>0, <1>4, <1>6 DEF HashInv
<1> QED BY <1>0, <1>7 DEF PutListNeeded

BeforeCommit == {"none", "start", "source", "sender"}
AfterCommit == {"length", "cleanup", "unlock", "finish"}

LEMMA LandedStays ==
  ASSUME NEW t \in Xfers, LandedInv(t), isLocal' = isLocal, landed'[t] = landed[t],
         md5[t] # "open" => md5'[t] = md5[t],
         status'[t] = "Success" => status[t] = "Success",
         ~cancelled'[t] =>
            /\ ~cancelled[t]
            /\ PutChunks(t)' \subseteq PutChunks(t)
            /\ \/ epc'[t] = epc[t]
               \/ epc[t] \in BeforeCommit /\ epc'[t] \in BeforeCommit
               \/ epc[t] \in AfterCommit /\ epc'[t] \in AfterCommit
               \/ epc'[t] \in AfterFinish
            /\ epc[t] \in BeforeCommit \union {"commit"} =>
                  \A i \in PutChunks(t) : <<t, i>> \in uncommitted => <<t, i>> \in uncommitted'
  PROVE  LandedInv(t)'
<1>1. Chunks(t)' = Chunks(t)
  BY DEF Chunks
<1>2. Committed(t) => Committed(t)'
  BY <1>1 DEF Committed, NeedsHash
<1>3. status'[t] = "Success" => landed'[t] = Chunks(t) /\ (NeedsHash(t)' => md5'[t] = "whole")
  BY DEF LandedInv, NeedsHash
<1>4. CASE cancelled'[t]
  BY <1>1, <1>3, <1>4 DEF LandedInv
<1>5. CASE ~cancelled'[t]
  BY <1>1, <1>2, <1>3, <1>5 DEF LandedInv, ByList, NeedsHash, BeforeCommit, AfterCommit, AfterFinish
<1> QED BY <1>4, <1>5

LEMMA InitiateLanded ==
  ASSUME TransferIndInv, TransferTypeOK, NEW t \in Xfers, OneTransfer(t), Initiate(t)
  PROVE  LandedInv(t)'
<1> USE DEF TransferTypeOK, job, counters, GoOn, service
<1>1. /\ UNCHANGED <<isLocal, landed, uncommitted, epc>>
      /\ cancelled[t] => cancelled'[t]
      /\ md5[t] # "open" => md5'[t] = md5[t]
      /\ status'[t] = "Success" => status[t] = "Success"
      /\ cpc' = cpc \/ \E pc \in {"queued", "badQueued"} : cpc' = [cpc EXCEPT ![<<t, next[t]>>] = pc]
  <2>1. CASE StartXfer(t)
    BY <2>1 DEF StartXfer, SetStatus, Morph
  <2>2. CASE InitialChecks(t)
    BY <2>2 DEF InitialChecks, SetStatus, Morph
  <2>3. CASE WaitUntilLockDestination(t)
    BY <2>3 DEF WaitUntilLockDestination, SetStatus, Morph
  <2>4. CASE ReportEarly(t)
    BY <2>4 DEF ReportEarly, ReportTransferDone, Cancel
  <2>5. CASE Prefetch(t) \/ PrefetchCancelled(t) \/ NoPrefetch(t)
    BY <2>5 DEF Prefetch, PrefetchCancelled, NoPrefetch, PrefetchUnchanged
  <2>6. CASE Prologue(t)
    BY <2>6 DEF Prologue, FailActive, Cancel, SetStatus, Morph
  <2>7. CASE ScheduleChunk(t)
    BY <2>7 DEF ScheduleChunk
  <2>8. CASE SendHash(t)
    BY <2>8 DEF SendHash, OneTransfer, HashInv
  <2> QED BY <2>1, <2>2, <2>3, <2>4, <2>5, <2>6, <2>7, <2>8 DEF Initiate
<1>2. PutChunks(t)' \subseteq PutChunks(t)
  <2>1. CASE cpc' = cpc
    BY <2>1 DEF PutChunks, Chunks
  <2>2. CASE \E pc \in {"queued", "badQueued"} : cpc' = [cpc EXCEPT ![<<t, next[t]>>] = pc]
    <3>1. PICK pc \in {"queued", "badQueued"} : cpc' = [cpc EXCEPT ![<<t, next[t]>>] = pc]
      BY <2>2
    <3> QED BY <3>1, AllChunksPairs DEF PutChunks, Chunks
  <2> QED BY <1>1, <2>1, <2>2
<1> QED BY <1>1, <1>2, LandedStays DEF OneTransfer

LEMMA ChunkLanded ==
  ASSUME TransferIndInv, TransferTypeOK, NEW t \in Xfers, NEW k \in Chunks(t), OneTransfer(t),
         StartChunk(<<t, k>>) \/ RunChunk(<<t, k>>)
  PROVE  LandedInv(t)'
<1> DEFINE c == <<t, k>>
<1>0. /\ c \in AllChunks /\ TransferOf(c) = t /\ \A i \in Chunks(t) : <<t, i>> \in AllChunks
      /\ c[2] = k /\ Chunks(t)' = Chunks(t)
  BY AllChunksPairs DEF TransferOf, Chunks
<1> USE DEF TransferTypeOK, job, counters, initiator, service, Step, ChunkUnchanged
<1>1. CASE StartChunk(c)
  <2>1. ~cancelled'[t] => PutChunks(t)' \subseteq PutChunks(t)
    BY <1>0, <1>1 DEF StartChunk, PutChunks
  <2> QED BY <1>0, <1>1, <2>1, LandedStays DEF StartChunk, OneTransfer
<1>2. CASE PutBlock(c)
  <2>1. /\ cpc[c] = "body" /\ ByList(t)
        /\ UNCHANGED <<isLocal, landed, status, cancelled, md5, epc>>
        /\ uncommitted \subseteq uncommitted'
    BY <1>0, <1>2 DEF PutBlock, Respond
  <2>2. epc[t] = "none"
    BY <1>0, <2>1, UncountedChunk
  <2>3. CASE cpc'[c] = "fail"
    <3>1. PutChunks(t)' \subseteq PutChunks(t)
      BY <1>0, <1>2, <2>3 DEF PutBlock, Respond, PutChunks
    <3> QED BY <2>1, <3>1, LandedStays DEF OneTransfer
  <2>4. CASE cpc'[c] # "fail"
    <3>1. c \in uncommitted' /\ PutChunks(t)' \subseteq PutChunks(t) \union {k}
      BY <1>0, <1>2, <2>4 DEF PutBlock, Respond, PutChunks
    <3>2. ByList(t)'
      BY <2>1 DEF ByList
    <3> QED BY <1>0, <2>1, <2>2, <3>1, <3>2 DEF OneTransfer, LandedInv, NeedsHash
  <2> QED BY <2>3, <2>4
<1>3. CASE PutWholeBlob(c)
  <2>0. NumChunks[t] = 1 /\ k = 1 /\ Chunks(t) = {k}
    <3>1. NumChunks[t] = 1
      BY <1>0, <1>3, OneOrMore DEF PutWholeBlob, ByList
    <3>2. 1..1 = {1}
      OBVIOUS
    <3> QED BY <3>1, <3>2 DEF Chunks
  <2>1. /\ cpc[c] = "body" /\ ~ByList(t) /\ k = 1 /\ Chunks(t) = {k}
        /\ NeedsHash(t) => md5[t] # "open"
        /\ UNCHANGED <<isLocal, status, cancelled, md5, epc>>
        /\ landed' = landed \/ landed' = [landed EXCEPT ![t] = {k}]
    BY <1>0, <1>3, <2>0 DEF PutWholeBlob, Respond, Commit
  <2>2. epc[t] = "none"
    BY <1>0, <2>1, UncountedChunk
  <2>3. CASE cpc'[c] = "fail"
    <3>1. PutChunks(t)' = {}
      BY <2>1, <2>3, <1>0 DEF PutChunks
    <3>2. landed'[t] = landed[t] \/ landed'[t] = Chunks(t)
      BY <2>1
    <3> QED BY <1>0, <2>1, <2>2, <3>1, <3>2 DEF OneTransfer, LandedInv, ByList, NeedsHash
  <2>4. CASE cpc'[c] # "fail"
    <3>1. landed'[t] = Chunks(t)
      BY <1>0, <1>3, <2>1, <2>4 DEF PutWholeBlob, Respond, Commit
    <3>2. Committed(t)'
      BY <1>0, <2>1, <3>1 DEF Committed, NeedsHash
    <3> QED BY <1>0, <2>1, <2>2, <3>1, <3>2 DEF OneTransfer, LandedInv, ByList, NeedsHash
  <2> QED BY <2>3, <2>4
<1>4. CASE Fail(c)
  <2>1. cancelled'[t] /\ UNCHANGED <<isLocal, landed, status, md5>>
    BY <1>0, <1>4 DEF Fail, Cancel, FailUnchanged
  <2> QED BY <2>1, LandedStays DEF OneTransfer
<1>5. CASE SetFailed(c)
  <2>1. cancelled[t]
    BY <1>0, <1>5 DEF SetFailed, OneTransfer, FailureInv, SomeChunk
  <2>2. cancelled'[t] /\ UNCHANGED <<isLocal, landed, md5>>
        /\ (status'[t] = "Success" => status[t] = "Success")
    BY <1>0, <1>5, <2>1 DEF SetFailed, SetStatus, Morph, FailUnchanged
  <2> QED BY <2>2, LandedStays DEF OneTransfer
<1>6. CASE AddBytes(c)
  <2>1. PutChunks(t)' \subseteq PutChunks(t)
    BY <1>0, <1>6 DEF AddBytes, PutChunks
  <2> QED BY <1>6, <2>1, LandedStays DEF AddBytes, OneTransfer
<1>7. CASE CountChunk(c)
  <2>1. PutChunks(t)' \subseteq PutChunks(t)
    BY <1>0, <1>7 DEF CountChunk, PutChunks
  <2>2. epc[t] = "none" /\ epc'[t] \in {"none", "start"}
    BY <1>0, <1>7, UncountedChunk DEF CountChunk
  <2> QED BY <1>7, <2>1, <2>2, LandedStays DEF CountChunk, OneTransfer, BeforeCommit
<1> QED BY <1>1, <1>2, <1>3, <1>4, <1>5, <1>6, <1>7 DEF RunChunk

LEMMA EpilogueLanded ==
  ASSUME TransferIndInv, TransferTypeOK, NEW t \in Xfers, OneTransfer(t), RunEpilogue(t)
  PROVE  LandedInv(t)'
<1>0. /\ Chunks(t)' = Chunks(t)
      /\ epc[t] # "none" => ~ReturnsEarly(t) /\ PutChunks(t) = Chunks(t) /\ 1 \in Chunks(t)
  BY InEpilogue, ChunksFinite
     DEF Chunks, TransferIndInv, EpilogueAfterChunks, XferCounted, PutChunks
<1>00. epc[t] # "none" /\ ~cancelled[t] => IsLive(t) \/ epc[t] \in AfterFinish
  BY <1>0 DEF OneTransfer, FailureInv, IsLive, ReturnsEarly
<1> USE DEF TransferTypeOK, job, counters, initiator, service, Epilogue, EpilogueUnchanged,
            SetStatus, Morph, FailActive, Cancel
<1>1. CASE DetectCancellation(t) \/ CheckSource(t)
  <2>1. /\ epc[t] \in BeforeCommit /\ epc'[t] \in BeforeCommit
        /\ UNCHANGED <<isLocal, landed, md5, uncommitted, cpc>>
        /\ cancelled[t] => cancelled'[t]
        /\ status'[t] = "Success" => status[t] = "Success"
    BY <1>1 DEF DetectCancellation, CheckSource, BeforeCommit
  <2>2. PutChunks(t)' \subseteq PutChunks(t)
    BY <1>0, <2>1 DEF PutChunks
  <2> QED BY <2>1, <2>2, LandedStays DEF OneTransfer
<1>2. CASE ReceiveHash(t)
  <2>1. /\ epc[t] = "sender" /\ UNCHANGED <<isLocal, landed, md5, uncommitted, cpc>>
        /\ cancelled[t] => cancelled'[t]
        /\ status'[t] = "Success" => status[t] = "Success"
    BY <1>2 DEF ReceiveHash
  <2>2. PutChunks(t)' = PutChunks(t)
    BY <1>0, <2>1 DEF PutChunks
  <2>3. CASE cancelled'[t]
    BY <2>1, <2>3, LandedStays DEF OneTransfer
  <2>4. CASE ~cancelled'[t]
    <3>1. ~cancelled[t] /\ IsLive(t)
      BY <1>00, <2>1, <2>4 DEF AfterFinish
    <3>2. epc'[t] = "commit" /\ UNCHANGED <<status, cancelled>>
      BY <1>2, <2>4 DEF ReceiveHash
    <3>3. PutListNeeded(t) <=> ByList(t)
      BY <2>1, <3>1, HashedWhole DEF OneTransfer
    <3>4. ~ByList(t) => Committed(t)
      BY <1>0, <2>1, <3>1 DEF OneTransfer, LandedInv
    <3>5. NeedsHash(t) => md5[t] # "open"
      BY <1>2, <3>1, <3>3, <3>4 DEF ReceiveHash, Committed, NeedsHash
    <3>6. Committed(t) => Committed(t)'
      BY <1>0, <2>1 DEF Committed, NeedsHash
    <3> QED BY <1>0, <2>1, <2>2, <3>1, <3>2, <3>4, <3>5, <3>6
            DEF OneTransfer, LandedInv, ByList, NeedsHash
  <2> QED BY <2>3, <2>4
<1>3. CASE CommitBlockList(t)
  <2>1. /\ epc[t] = "commit" /\ epc'[t] = "length" /\ UNCHANGED <<isLocal, md5, cpc>>
        /\ cancelled[t] => cancelled'[t]
        /\ status'[t] = "Success" => status[t] = "Success"
    BY <1>3 DEF CommitBlockList
  <2>2. status[t] # "Success"
    BY <2>1 DEF OneTransfer, FailureInv, AfterFinish
  <2>3. CASE cancelled'[t]
    BY <2>1, <2>2, <2>3 DEF LandedInv
  <2>4. CASE ~cancelled'[t]
    <3>1. ~cancelled[t] /\ IsLive(t)
      BY <1>00, <2>1, <2>4 DEF AfterFinish
    <3>2. PutListNeeded(t) <=> ByList(t)
      BY <2>1, <3>1, HashedWhole DEF OneTransfer
    <3>3. NeedsHash(t) => md5[t] # "open"
      BY <2>1, <3>1 DEF OneTransfer, LandedInv, NeedsHash
    <3>4. CASE ~ByList(t)
      <4>1. UNCHANGED landed
        BY <1>3, <3>2, <3>4 DEF CommitBlockList
      <4>2. Committed(t)
        BY <1>0, <2>1, <3>1, <3>4 DEF OneTransfer, LandedInv
      <4>3. Committed(t)'
        BY <1>0, <2>1, <4>1, <4>2 DEF Committed, NeedsHash
      <4> QED BY <2>1, <2>2, <4>3 DEF LandedInv
    <3>5. CASE ByList(t)
      <4>1. {i \in Chunks(t) : <<t, i>> \in uncommitted} = Chunks(t)
        BY <1>0, <2>1, <3>1, <3>5 DEF OneTransfer, LandedInv
      <4>2. landed'[t] = Chunks(t)
        BY <1>3, <2>4, <3>1, <3>2, <3>5, <4>1 DEF CommitBlockList, Commit
      <4>3. Committed(t)'
        BY <1>0, <2>1, <3>3, <4>2 DEF Committed, NeedsHash
      <4> QED BY <2>1, <2>2, <4>3 DEF LandedInv
    <3> QED BY <3>4, <3>5
  <2> QED BY <2>3, <2>4
<1>4. CASE CheckLength(t) \/ Cleanup(t) \/ EnsureDestinationUnlocked(t)
  <2>1. /\ epc[t] \in AfterCommit /\ epc'[t] \in AfterCommit
        /\ UNCHANGED <<isLocal, landed, md5, cpc>>
        /\ cancelled[t] => cancelled'[t]
        /\ status'[t] = "Success" => status[t] = "Success"
    BY <1>4 DEF CheckLength, Cleanup, Delete, EnsureDestinationUnlocked, AfterCommit
  <2>2. PutChunks(t)' \subseteq PutChunks(t)
    BY <1>0, <2>1 DEF PutChunks
  <2> QED BY <2>1, <2>2, LandedStays DEF OneTransfer, AfterCommit, BeforeCommit
<1>5. CASE Finish(t)
  <2>1. /\ epc[t] = "finish" /\ epc'[t] = "report"
        /\ UNCHANGED <<isLocal, landed, md5, uncommitted, cpc, cancelled>>
    BY <1>5 DEF Finish
  <2>2. PutChunks(t)' = PutChunks(t)
    BY <1>0, <2>1 DEF PutChunks
  <2>3. CASE ~IsLive(t)
    BY <1>5, <2>1, <2>2, <2>3, LandedStays DEF Finish, OneTransfer, AfterFinish
  <2>4. CASE IsLive(t)
    <3>1. ~cancelled[t]
      BY <2>4 DEF IsLive
    <3>2. Committed(t) /\ (NeedsHash(t) => md5[t] = "whole")
      BY <2>1, <3>1, HashedWhole DEF OneTransfer, LandedInv, Committed, NeedsHash
    <3>3. Committed(t)' /\ landed'[t] = Chunks(t)
      BY <1>0, <2>1, <3>2 DEF Committed, NeedsHash
    <3> QED BY <1>0, <2>1, <2>2, <3>2, <3>3 DEF LandedInv, NeedsHash
  <2> QED BY <2>3, <2>4
<1>6. CASE ReportDone(t)
  <2>1. cancelled'[t] /\ UNCHANGED <<isLocal, landed, md5, status>>
    BY <1>6 DEF ReportDone, ReportTransferDone
  <2> QED BY <2>1, LandedStays DEF OneTransfer
<1>7. CASE SubtractBytes(t)
  <2>1. PutChunks(t)' \subseteq PutChunks(t)
    BY <1>0, <1>7, AllChunksPairs DEF SubtractBytes, PutChunks
  <2> QED BY <1>7, <2>1, LandedStays DEF SubtractBytes, OneTransfer, AfterFinish
<1> QED BY <1>1, <1>2, <1>3, <1>4, <1>5, <1>6, <1>7 DEF RunEpilogue

(***************************************************************************)
(* Types.                                                                  *)
(***************************************************************************)
LEMMA StatusKept ==
  ASSUME TransferTypeOK, NEW t \in Xfers
  PROVE  /\ \A s \in FailedStatuses \union {"Success"} : SetStatus(t, s) =>
               status' \in [Xfers -> FailedStatuses \union {"Started", "Success"}]
         /\ Cancel(t) => cancelled' \in [Xfers -> BOOLEAN]
         /\ FailActive(t) =>
               /\ status' \in [Xfers -> FailedStatuses \union {"Started", "Success"}]
               /\ cancelled' \in [Xfers -> BOOLEAN]
<1>1. ASSUME NEW s \in FailedStatuses \union {"Success"}, SetStatus(t, s)
      PROVE  status' \in [Xfers -> FailedStatuses \union {"Started", "Success"}]
  BY <1>1 DEF TransferTypeOK, SetStatus, Morph
<1>2. ASSUME Cancel(t) PROVE cancelled' \in [Xfers -> BOOLEAN]
  BY <1>2 DEF TransferTypeOK, Cancel
<1>3. "Failed" \in FailedStatuses
  BY DEF FailedStatuses
<1> QED BY <1>1, <1>2, <1>3 DEF FailActive, TransferTypeOK

LEMMA InitiateTypes ==
  ASSUME TransferIndInv, TransferTypeOK, NEW t \in Xfers, Initiate(t)
  PROVE  TransferTypeOK'
<1> USE DEF TransferTypeOK, job, counters, locks, service, bytes, GoOn
<1>1. CASE StartXfer(t)
  BY <1>1, StatusKept DEF StartXfer, FailedStatuses
<1>2. CASE InitialChecks(t)
  BY <1>2, StatusKept DEF InitialChecks, FailedStatuses
<1>3. CASE WaitUntilLockDestination(t)
  BY <1>3, StatusKept, TransfersShape DEF WaitUntilLockDestination, FailedStatuses
<1>4. CASE ReportEarly(t)
  BY <1>4, StatusKept DEF ReportEarly, ReportTransferDone
<1>5. CASE Prefetch(t)
  <2>1. <<t, next[t]>> \in AllChunks
    BY <1>5, ChunkAtHand DEF Prefetch
  <2>2. buffered' \subseteq AllChunks
    BY <1>5, <2>1 DEF Prefetch
  <2>3. next[t] \in Nat /\ hashed[t] + 1 \in Nat
    OBVIOUS
  <2>4. reader' \in [Xfers -> Nat] /\ hashed' \in [Xfers -> Nat]
    BY <1>5, <2>3 DEF Prefetch
  <2>5. prefetchErr' \in [Xfers -> BOOLEAN]
    BY <1>5 DEF Prefetch
  <2>6. PICK to \in {"prologue", "schedule"} : xpc' = [xpc EXCEPT ![t] = to]
    BY <1>5 DEF Prefetch, AfterPrefetch
  <2> QED BY <1>5, <2>2, <2>4, <2>5, <2>6 DEF Prefetch, PrefetchUnchanged
<1>6. CASE PrefetchCancelled(t)
  BY <1>6 DEF PrefetchCancelled, AfterPrefetch, PrefetchUnchanged
<1>7. CASE NoPrefetch(t)
  BY <1>7 DEF NoPrefetch, AfterPrefetch, PrefetchUnchanged
<1>8. CASE Prologue(t)
  BY <1>8, StatusKept DEF Prologue
<1>9. CASE ScheduleChunk(t)
  <2>1. PICK pc \in {"queued", "badQueued"} : cpc' = [cpc EXCEPT ![<<t, next[t]>>] = pc]
    BY <1>9 DEF ScheduleChunk
  <2>2. buffered' \subseteq AllChunks
    BY <1>9 DEF ScheduleChunk
  <2>3. next' \in [Xfers -> Nat \ {0}]
    BY <1>9 DEF ScheduleChunk
  <2>4. PICK to \in {"hash", "prefetch"} : xpc' = [xpc EXCEPT ![t] = to]
    BY <1>9 DEF ScheduleChunk
  <2> QED BY <1>9, <2>1, <2>2, <2>3, <2>4 DEF ScheduleChunk
<1>10. CASE SendHash(t)
  BY <1>10 DEF SendHash
<1> QED BY <1>1, <1>2, <1>3, <1>4, <1>5, <1>6, <1>7, <1>8, <1>9, <1>10 DEF Initiate

LEMMA ChunkTypes ==
  ASSUME TransferTypeOK, NEW c \in AllChunks, StartChunk(c) \/ RunChunk(c)
  PROVE  TransferTypeOK'
<1>0. TransferOf(c) \in Xfers /\ c[2] \in Nat
  BY AllChunksPairs, ChunksFinite DEF Chunks
<1> USE <1>0
    DEF TransferTypeOK, job, counters, initiator, locks, service, bytes, Step, ChunkUnchanged
<1>1. CASE StartChunk(c)
  BY <1>1 DEF StartChunk
<1>2. CASE PutBlock(c)
  BY <1>2 DEF PutBlock, Respond
<1>3. CASE PutWholeBlob(c)
  BY <1>3, TransfersShape DEF PutWholeBlob, Respond, Commit
<1>4. CASE Fail(c)
  BY <1>4, StatusKept DEF Fail, FailUnchanged
<1>5. CASE SetFailed(c)
  BY <1>5, StatusKept DEF SetFailed, FailUnchanged, FailedStatuses
<1>6. CASE AddBytes(c)
  BY <1>6 DEF AddBytes
<1>7. CASE CountChunk(c)
  BY <1>7 DEF CountChunk
<1> QED BY <1>1, <1>2, <1>3, <1>4, <1>5, <1>6, <1>7 DEF RunChunk

LEMMA EpilogueTypes ==
  ASSUME TransferTypeOK, NEW t \in Xfers, RunEpilogue(t),
         SubtractBytes(t) => activeBytes' \in Nat
  PROVE  TransferTypeOK'
<1> USE
    DEF TransferTypeOK, job, counters, initiator, locks, service, bytes, Epilogue,
        EpilogueUnchanged
<1>1. CASE DetectCancellation(t)
  BY <1>1, StatusKept DEF DetectCancellation, FailedStatuses
<1>2. CASE CheckSource(t)
  BY <1>2, StatusKept DEF CheckSource
<1>3. CASE ReceiveHash(t)
  BY <1>3, StatusKept DEF ReceiveHash
<1>4. CASE CommitBlockList(t)
  <2>1. {i \in Chunks(t) : <<t, i>> \in uncommitted} \in SUBSET Nat
    BY DEF Chunks
  <2>2. /\ content' \in [Dests -> Xfers \union {NoBlob, OldBlob, OldPut}]
        /\ landed' \in [Xfers -> SUBSET Nat] /\ uncommitted' \subseteq AllChunks
    <3>1. CASE UNCHANGED service
      BY <3>1
    <3>2. CASE Commit(t, {i \in Chunks(t) : <<t, i>> \in uncommitted})
      <4>1. content' \in [Dests -> Xfers \union {NoBlob, OldBlob, OldPut}]
        BY <3>2, TransfersShape DEF Commit
      <4>2. landed' \in [Xfers -> SUBSET Nat]
        BY <2>1, <3>2 DEF Commit
      <4>3. uncommitted' \subseteq AllChunks
        BY <3>2 DEF Commit
      <4> QED BY <4>1, <4>2, <4>3
    <3> QED BY <1>4, <3>1, <3>2 DEF CommitBlockList
  <2>3. /\ status' \in [Xfers -> FailedStatuses \union {"Started", "Success"}]
        /\ cancelled' \in [Xfers -> BOOLEAN]
    BY <1>4, StatusKept DEF CommitBlockList
  <2> QED BY <1>4, <2>2, <2>3 DEF CommitBlockList
<1>5. CASE CheckLength(t)
  BY <1>5, StatusKept DEF CheckLength
<1>6. CASE Cleanup(t)
  BY <1>6, TransfersShape DEF Cleanup, Delete
<1>7. CASE EnsureDestinationUnlocked(t)
  BY <1>7 DEF EnsureDestinationUnlocked
<1>8. CASE Finish(t)
  BY <1>8, StatusKept DEF Finish
<1>9. CASE ReportDone(t)
  BY <1>9, StatusKept DEF ReportDone, ReportTransferDone
<1>10. CASE SubtractBytes(t)
  BY <1>10 DEF SubtractBytes
<1> QED BY <1>1, <1>2, <1>3, <1>4, <1>5, <1>6, <1>7, <1>8, <1>9, <1>10 DEF RunEpilogue

(***************************************************************************)
(* The bytes in active files.                                              *)
(***************************************************************************)
Added == {"count", "epilogue", "done"}

LEMMA BytesStay ==
  ASSUME NEW S \in SUBSET AllChunks, BytesOf(S), UNCHANGED bytes,
         \A c \in AllChunks : cpc[c] \in Added => cpc'[c] \in Added,
         \A t \in Xfers : epc'[t] = "done" <=> epc[t] = "done"
  PROVE  BytesOf(S)'
<1>1. \A c \in S : /\ cpc'[c] \in Added
                   /\ epc'[TransferOf(c)] # "done"
  BY AllChunksPairs DEF BytesOf, Added
<1> QED BY <1>1 DEF BytesOf, bytes, Added

LEMMA InitiateBytes ==
  ASSUME TransferIndInv, TransferTypeOK, NEW t \in Xfers, Initiate(t)
  PROVE  /\ UNCHANGED <<bytes, epc>>
         /\ \A c \in AllChunks : cpc[c] \in Added => cpc'[c] \in Added
<1>1. CASE ScheduleChunk(t)
  <2>1. cpc[<<t, next[t]>>] = "none"
    BY <1>1, ChunkAtHand DEF ScheduleChunk
  <2> QED BY <1>1, <2>1 DEF ScheduleChunk, TransferTypeOK, Added
<1>2. CASE ~ScheduleChunk(t)
  BY <1>2 DEF Initiate, StartXfer, InitialChecks, WaitUntilLockDestination, ReportEarly,
     Prefetch, PrefetchCancelled, NoPrefetch, PrefetchUnchanged, Prologue, SendHash
<1> QED BY <1>1, <1>2

LEMMA ChunkBytes ==
  ASSUME TransferIndInv, TransferTypeOK, NEW d \in AllChunks, StartChunk(d) \/ RunChunk(d)
  PROVE  /\ AddBytes(d) \/ UNCHANGED bytes
         /\ \A c \in AllChunks : cpc[c] \in Added => cpc'[c] \in Added
         /\ \A t \in Xfers : epc'[t] = "done" <=> epc[t] = "done"
<1> USE DEF TransferTypeOK, Step, ChunkUnchanged, Added
<1>1. CASE StartChunk(d)
  BY <1>1 DEF StartChunk
<1>2. CASE PutBlock(d) \/ PutWholeBlob(d)
  BY <1>2 DEF PutBlock, PutWholeBlob, Respond
<1>3. CASE Fail(d) \/ SetFailed(d)
  BY <1>3 DEF Fail, SetFailed, FailUnchanged
<1>4. CASE AddBytes(d)
  BY <1>4 DEF AddBytes
<1>5. CASE CountChunk(d)
  <2>1. epc[TransferOf(d)] = "none"
    BY <1>5, UncountedChunk DEF CountChunk
  <2> QED BY <1>5, <2>1 DEF CountChunk
<1> QED BY <1>1, <1>2, <1>3, <1>4, <1>5 DEF RunChunk

LEMMA EpilogueBytes ==
  ASSUME TransferTypeOK, NEW u \in Xfers, RunEpilogue(u), ~SubtractBytes(u)
  PROVE  /\ UNCHANGED <<bytes, cpc>>
         /\ \A t \in Xfers : epc'[t] = "done" <=> epc[t] = "done"
  BY DEF RunEpilogue, TransferTypeOK, Epilogue, EpilogueUnchanged, DetectCancellation,
     CheckSource, ReceiveHash, CommitBlockList, CheckLength, Cleanup,
     EnsureDestinationUnlocked, Finish, ReportDone

LEMMA AddsBytes ==
  ASSUME TransferIndInv, TransferTypeOK, NEW S \in SUBSET AllChunks, BytesOf(S),
         NEW c \in AllChunks, AddBytes(c), ~UNCHANGED bytes
  PROVE  BytesOf(S \union {c})'
<1> DEFINE t == TransferOf(c)
           Of(T, u) == {d \in T : TransferOf(d) = u}
<1>1. /\ t \in Xfers /\ cpc[c] = "addBytes" /\ cpc' = [cpc EXCEPT ![c] = "count"]
      /\ successBytes' = [successBytes EXCEPT ![t] = @ + 1] /\ activeBytes' = activeBytes + 1
      /\ UNCHANGED epc
  BY AllChunksPairs DEF AddBytes, Step, ChunkUnchanged
<1>2. c \notin S /\ epc[t] = "none"
  BY <1>1, UncountedChunk DEF BytesOf
<1>3. IsFiniteSet(S \union {c}) /\ Cardinality(S \union {c}) = Cardinality(S) + 1
  BY <1>2, FS_AddElement DEF BytesOf
<1>4. \A d \in S \union {c} : cpc'[d] \in Added /\ epc'[TransferOf(d)] # "done"
  BY <1>1, <1>2 DEF BytesOf, Added, TransferTypeOK
<1>5. ASSUME NEW u \in Xfers, epc[u] # "done"
      PROVE  successBytes'[u] = Cardinality(Of(S \union {c}, u))
  <2>1. IsFiniteSet(Of(S, u)) /\ successBytes[u] = Cardinality(Of(S, u))
    BY <1>5, FS_Subset DEF BytesOf
  <2>2. CASE u = t
    <3>1. Of(S \union {c}, u) = Of(S, u) \union {c} /\ c \notin Of(S, u)
      BY <1>2, <2>2
    <3>2. Cardinality(Of(S, u) \union {c}) = Cardinality(Of(S, u)) + 1
      BY <2>1, <3>1, FS_AddElement
    <3>3. successBytes'[u] = successBytes[u] + 1
      BY <1>1, <2>2 DEF TransferTypeOK
    <3> QED BY <2>1, <3>1, <3>2, <3>3
  <2>3. CASE u # t
    <3>1. Of(S \union {c}, u) = Of(S, u)
      BY <2>3
    <3>2. successBytes'[u] = successBytes[u]
      BY <1>1, <2>3 DEF TransferTypeOK
    <3> QED BY <2>1, <3>1, <3>2
  <2> QED BY <2>2, <2>3
<1>6. activeBytes' = Cardinality(S \union {c})
  BY <1>1, <1>3 DEF BytesOf
<1> QED BY <1>1, <1>3, <1>4, <1>5, <1>6 DEF BytesOf, Added

LEMMA SubtractsBytes ==
  ASSUME TransferTypeOK, NEW S \in SUBSET AllChunks, BytesOf(S),
         NEW t \in Xfers, SubtractBytes(t)
  PROVE  BytesOf({c \in S : TransferOf(c) # t})' /\ activeBytes' \in Nat
<1> DEFINE Of(T, u) == {d \in T : TransferOf(d) = u}
           Left == {c \in S : TransferOf(c) # t}
<1>1. /\ epc[t] = "subtract" /\ epc' = [epc EXCEPT ![t] = "done"]
      /\ activeBytes' = activeBytes - successBytes[t] /\ successBytes' = successBytes
      /\ \A c \in AllChunks : cpc[c] \in Added => cpc'[c] \in Added
  BY DEF SubtractBytes, Epilogue, Added
<1>2. IsFiniteSet(Left) /\ Cardinality(Left) \in Nat
      /\ Cardinality(Left) = Cardinality(S) - Cardinality(Of(S, t))
  <2>1. Left = S \ Of(S, t) /\ S \cap Of(S, t) = Of(S, t)
    OBVIOUS
  <2>2. IsFiniteSet(S)
    BY DEF BytesOf
  <2>3. /\ IsFiniteSet(S \ Of(S, t))
        /\ Cardinality(S \ Of(S, t)) = Cardinality(S) - Cardinality(S \cap Of(S, t))
    BY <2>2, FS_Difference
  <2>4. Cardinality(S \ Of(S, t)) \in Nat
    BY <2>3, FS_CardinalityType
  <2> QED BY <2>1, <2>3, <2>4
<1>3. \A c \in Left : cpc'[c] \in Added /\ epc'[TransferOf(c)] # "done"
  BY <1>1, AllChunksPairs DEF BytesOf, Added, TransferTypeOK
<1>4. ASSUME NEW u \in Xfers, epc'[u] # "done"
      PROVE  successBytes'[u] = Cardinality(Of(Left, u))
  <2>1. u # t /\ epc[u] # "done"
    BY <1>1, <1>4 DEF TransferTypeOK
  <2>2. Of(Left, u) = Of(S, u)
    BY <2>1
  <2> QED BY <1>1, <2>1, <2>2 DEF BytesOf
<1>5. successBytes[t] = Cardinality(Of(S, t)) /\ activeBytes = Cardinality(S)
  BY <1>1 DEF BytesOf
<1>6. activeBytes' = Cardinality(Left)
  BY <1>1, <1>2, <1>5
<1> QED BY <1>1, <1>2, <1>3, <1>4, <1>6 DEF BytesOf, Added

LEMMA NextKeepsBytes ==
  ASSUME TransferIndInv, TransferTypeOK, \E S \in SUBSET AllChunks : BytesOf(S),
         [TransferNext]_xferVars
  PROVE  (\E S \in SUBSET AllChunks : BytesOf(S))'
<1>1. PICK S \in SUBSET AllChunks : BytesOf(S)
  OBVIOUS
<1>2. SUFFICES \E T \in SUBSET AllChunks : BytesOf(T)'
  BY DEF AllChunks, Chunks
<1>3. ASSUME NEW t \in Xfers, Initiate(t) PROVE BytesOf(S)'
  BY <1>1, <1>3, InitiateBytes, BytesStay
<1>4. ASSUME NEW c \in AllChunks, StartChunk(c) \/ RunChunk(c), UNCHANGED bytes
      PROVE  BytesOf(S)'
  BY <1>1, <1>4, ChunkBytes, BytesStay
<1>5. ASSUME NEW c \in AllChunks, StartChunk(c) \/ RunChunk(c), ~UNCHANGED bytes
      PROVE  BytesOf(S \union {c})'
  BY <1>1, <1>5, ChunkBytes, AddsBytes
<1>6. ASSUME NEW t \in Xfers, RunEpilogue(t), ~SubtractBytes(t) PROVE BytesOf(S)'
  BY <1>1, <1>6, EpilogueBytes, BytesStay
<1>7. ASSUME NEW t \in Xfers, SubtractBytes(t)
      PROVE  BytesOf({c \in S : TransferOf(c) # t})'
  BY <1>1, <1>7, SubtractsBytes
<1>8. CASE (\E t \in Xfers : AddToTotal(t)) \/ CancelJob \/ XferTerminated \/ UNCHANGED xferVars
  BY <1>1, <1>8, BytesStay DEF AddToTotal, CancelJob, XferTerminated, xferVars
<1> QED BY <1>3, <1>4, <1>5, <1>6, <1>7, <1>8 DEF TransferNext

(***************************************************************************)
(* Outcomes.                                                               *)
(***************************************************************************)
LEMMA InitOutcomes == TransferInit => OutcomesInv
<1> SUFFICES ASSUME TransferInit PROVE OutcomesInv
  OBVIOUS
<1>1. TransferTypeOK
  <2>1. /\ status \in [Xfers -> FailedStatuses \union {"Started", "Success"}]
        /\ cancelled \in [Xfers -> BOOLEAN] /\ jobCancelled \in BOOLEAN /\ isLocal \in BOOLEAN
    BY DEF TransferInit
  <2>2. /\ xpc \in [Xfers -> {"start", "checks", "lock", "prefetch", "prologue",
                              "schedule", "hash", "report", "end"}]
        /\ next \in [Xfers -> Nat \ {0}]
        /\ prefetchErr \in [Xfers -> BOOLEAN]
    BY DEF TransferInit
  <2>3. /\ reader \in [Xfers -> Nat] /\ hashed \in [Xfers -> Nat]
        /\ md5 \in [Xfers -> {"open", "whole", "partial", "closed"}]
    BY DEF TransferInit
  <2>4. cpc \in [AllChunks -> {"none", "queued", "badQueued", "body", "fail",
                              "setFailed", "addBytes", "count", "epilogue", "done"}]
    BY DEF TransferInit
  <2>5. /\ chunksDone \in [Xfers -> Nat] /\ written \in [Xfers -> Nat]
        /\ destModified \in [Xfers -> BOOLEAN]
    BY DEF TransferInit
  <2>6. epc \in [Xfers -> {"none", "start", "source", "sender", "commit",
                          "length", "cleanup", "unlock", "finish", "report",
                          "subtract", "done"}]
    BY DEF TransferInit
  <2>7. /\ inUse \subseteq Dests /\ holds \subseteq Xfers
        /\ buffered \subseteq AllChunks /\ uncommitted \subseteq AllChunks
    BY DEF TransferInit
  <2>8. content \in [Dests -> Xfers \union {NoBlob, OldBlob, OldPut}]
    <3>1. content \in [Dests -> {NoBlob, OldBlob, OldPut}]
      BY DEF TransferInit
    <3>2. {NoBlob, OldBlob, OldPut} \subseteq Xfers \union {NoBlob, OldBlob, OldPut}
      OBVIOUS
    <3> QED BY <3>1, <3>2
  <2>9. /\ landed \in [Xfers -> SUBSET Nat]
        /\ successBytes \in [Xfers -> Nat] /\ activeBytes \in Nat
        /\ reports \in [Xfers -> Nat] /\ shown \subseteq Xfers
    BY DEF TransferInit
  <2> QED
    BY <2>1, <2>2, <2>3, <2>4, <2>5, <2>6, <2>7, <2>8, <2>9 DEF TransferTypeOK
<1>2. ASSUME NEW t \in Xfers PROVE FailureInv(t) /\ HashInv(t) /\ LandedInv(t)
  <2>1. \A i \in Chunks(t) : cpc[<<t, i>>] = "none"
    BY AllChunksPairs DEF TransferInit
  <2>2. ~SomeChunk(t, {"setFailed"}) /\ PutChunks(t) = {}
    BY <2>1 DEF SomeChunk, PutChunks
  <2>3. FailureInv(t) /\ LandedInv(t)
    BY <2>2 DEF TransferInit, FailureInv, LandedInv, FailedStatuses, AfterFinish
  <2>4. HashInv(t)
    BY DEF TransferInit, HashInv
  <2> QED BY <2>3, <2>4
<1>3. BytesOf({})
  <2>1. \A t \in Xfers : {c \in {} : TransferOf(c) = t} = {}
    OBVIOUS
  <2> QED BY <2>1, FS_EmptySet DEF TransferInit, BytesOf
<1>4. {} \in SUBSET AllChunks
  OBVIOUS
<1> QED BY <1>1, <1>2, <1>3, <1>4, InitInd DEF OutcomesInv

LEMMA NextKeepsOne ==
  ASSUME TransferIndInv, TransferTypeOK, NEW t \in Xfers, OneTransfer(t), [TransferNext]_xferVars
  PROVE  OneTransfer(t)'
<1>1. CASE Initiate(t)
  BY <1>1, InitiateFailure, InitiateHash, InitiateLanded DEF OneTransfer
<1>2. CASE RunEpilogue(t)
  BY <1>2, EpilogueFailure, EpilogueHash, EpilogueLanded DEF OneTransfer
<1>3. ASSUME NEW c \in AllChunks, StartChunk(c) \/ RunChunk(c), TransferOf(c) = t
      PROVE  OneTransfer(t)'
  <2>1. c[2] \in Chunks(t) /\ c = <<t, c[2]>>
    BY <1>3, AllChunksPairs
  <2> QED BY <1>3, <2>1, ChunkFailure, ChunkHash, ChunkLanded DEF OneTransfer
<1>4. CASE CancelJob
  <2>1. /\ jobCancelled' /\ cancelled'[t]
        /\ UNCHANGED <<status, isLocal, initiator, cpc, epc, landed, reports>>
    BY <1>4 DEF CancelJob, service
  <2>2. SomeChunk(t, {"setFailed"})' <=> SomeChunk(t, {"setFailed"})
    BY <2>1 DEF SomeChunk
  <2>3. FailureInv(t)'
    BY <2>1, <2>2 DEF OneTransfer, FailureInv, initiator
  <2>4. HashInv(t)'
    BY <2>1, HashStays DEF OneTransfer, initiator
  <2>5. LandedInv(t)'
    BY <2>1, LandedStays DEF OneTransfer, initiator
  <2> QED BY <2>3, <2>4, <2>5 DEF OneTransfer
<1> QED BY <1>1, <1>2, <1>3, <1>4, OthersKept DEF TransferNext

LEMMA NextKeepsTypes ==
  ASSUME OutcomesInv, [TransferNext]_xferVars
  PROVE  TransferTypeOK'
<1>1. TransferTypeOK /\ TransferIndInv
  BY DEF OutcomesInv
<1>2. ASSUME NEW t \in Xfers, RunEpilogue(t) PROVE TransferTypeOK'
  <2>1. SubtractBytes(t) => activeBytes' \in Nat
    BY <1>1, SubtractsBytes DEF OutcomesInv
  <2> QED BY <1>1, <1>2, <2>1, EpilogueTypes
<1>3. ASSUME NEW t \in Xfers, AddToTotal(t) PROVE TransferTypeOK'
  BY <1>1, <1>3 DEF AddToTotal, TransferTypeOK, job, initiator, counters, locks, service, bytes
<1>4. CASE CancelJob
  BY <1>1, <1>4 DEF CancelJob, TransferTypeOK, initiator, counters, locks, service, bytes
<1>5. CASE UNCHANGED xferVars
  BY <1>1, <1>5 DEF xferVars, TransferTypeOK, job, initiator, counters, locks, service, bytes
<1> QED BY <1>1, <1>2, <1>3, <1>4, <1>5, InitiateTypes, ChunkTypes
           DEF TransferNext, XferTerminated

LEMMA NextKeepsOutcomes == OutcomesInv /\ [TransferNext]_xferVars => OutcomesInv'
<1> SUFFICES ASSUME OutcomesInv, [TransferNext]_xferVars PROVE OutcomesInv'
  OBVIOUS
<1>1. TransferTypeOK /\ TransferIndInv /\ \E S \in SUBSET AllChunks : BytesOf(S)
  BY DEF OutcomesInv
<1>2. \A t \in Xfers : OneTransfer(t)'
  BY <1>1, NextKeepsOne DEF OutcomesInv, OneTransfer
<1>3. (\E S \in SUBSET AllChunks : BytesOf(S))'
  BY <1>1, NextKeepsBytes
<1> QED BY <1>1, <1>2, <1>3, NextKeepsInd, NextKeepsTypes DEF OutcomesInv, OneTransfer

LEMMA OutcomesInvHolds == TransferSpec => []OutcomesInv
<1> QED BY InitOutcomes, NextKeepsOutcomes, PTL DEF TransferSpec

LEMMA OutcomesInvIsTrue ==
  ASSUME OutcomesInv
  PROVE  OutcomesAreTrue
<1>0. TransferIndInv /\ TransferTypeOK
  BY DEF OutcomesInv
<1>1. SuccessIsWhole
  BY DEF OutcomesInv, LandedInv, SuccessIsWhole
<1>2. FailureIsRecorded
  <2> SUFFICES ASSUME NEW t \in Xfers, reports[t] > 0, ~jobCancelled
               PROVE  status[t] \in {"Success", "Failed", "Skipped"}
    BY DEF FailureIsRecorded
  <2>1. epc[t] \in {"subtract", "done"} \/ (xpc[t] = "end" /\ next[t] = 1)
    BY <1>0 DEF TransferIndInv, ReportedByOne
  <2> QED BY <2>1 DEF OutcomesInv, FailureInv, AfterFinish, FailedStatuses
<1>3. ActiveBytesBalance
  <2>1. activeBytes >= 0
    BY <1>0 DEF TransferTypeOK
  <2>2. ASSUME \A t \in Xfers : Over(t) PROVE activeBytes = 0
    <3>1. PICK S \in SUBSET AllChunks : BytesOf(S)
      BY DEF OutcomesInv
    <3>2. ASSUME NEW c \in S PROVE FALSE
      <4>1. /\ c \in AllChunks /\ TransferOf(c) \in Xfers
            /\ cpc[c] \in Added /\ epc[TransferOf(c)] = "none"
        BY <2>2, <3>1, AllChunksPairs DEF BytesOf, Over, Added
      <4>2. next[TransferOf(c)] > 1
        BY <1>0, <4>1, ScheduledChunk DEF Added
      <4>3. reports[TransferOf(c)] > 0 /\ next[TransferOf(c)] # 1
        BY <2>2, <4>1, <4>2 DEF Over
      <4> QED BY <1>0, <4>1, <4>3 DEF TransferIndInv, ReportedByOne
    <3>3. S = {}
      BY <3>2
    <3> QED BY <3>1, <3>3, FS_EmptySet DEF BytesOf
  <2> QED BY <2>1, <2>2 DEF ActiveBytesBalance
<1>4. PutListNeedIsKnown
  <2> SUFFICES ASSUME NEW t \in Xfers, epc[t] = "commit", PutListNeedUnknown(t), ~cancelled[t]
               PROVE  FALSE
    BY DEF PutListNeedIsKnown
  <2>1. hashed[t] = NumChunks[t] /\ hashed[t] = 0
    BY <1>0, HashedWhole DEF OutcomesInv, PutListNeedUnknown
  <2> QED BY <2>1, ChunksFinite
<1> QED BY <1>0, <1>1, <1>2, <1>3, <1>4 DEF OutcomesAreTrue

\* A success has all its chunks and the hash of the whole file at its
\* destination, a failure is recorded as one unless the job is cancelled, the
\* bytes in active files balance, and nobody commits without knowing how.
THEOREM OutcomesTrue == TransferSpec => []OutcomesAreTrue
<1> QED BY OutcomesInvHolds, OutcomesInvIsTrue, PTL

(***************************************************************************)
(* What replaces what a destination holds.                                 *)
(***************************************************************************)
ListSurvives ==
    \A d \in Dests : content'[d] # content[d] => ReplacedWhole(d) \/ CleanedUp(d)

LEMMA WholeCommit ==
  ASSUME TransferTypeOK, NEW t \in Xfers, Commit(t, Chunks(t))
  PROVE  ListSurvives
<1> SUFFICES ASSUME NEW d \in Dests, content'[d] # content[d]
             PROVE  content'[d] = t /\ landed'[t] = Chunks(t)
  BY DEF ListSurvives, ReplacedWhole
<1>1. DOMAIN content = Dests /\ DOMAIN landed = Xfers
  BY DEF TransferTypeOK
<1> QED BY <1>1 DEF Commit

LEMMA ChunkReplaces ==
  ASSUME TransferTypeOK, NEW c \in AllChunks, RunChunk(c)
  PROVE  ListSurvives
<1>1. CASE UNCHANGED content
  BY <1>1 DEF ListSurvives
<1>2. CASE ~UNCHANGED content
  <2> DEFINE t == TransferOf(c)
  <2>1. t \in Xfers /\ ~ByList(t) /\ Commit(t, {c[2]})
    BY <1>2, AllChunksPairs
       DEF RunChunk, PutBlock, PutWholeBlob, Fail, SetFailed, FailUnchanged, AddBytes,
           CountChunk, Respond, service
  <2>2. {c[2]} = Chunks(t)
    <3>1. 1..1 = {1}
      OBVIOUS
    <3>2. NumChunks[t] = 1
      BY <2>1, OneOrMore DEF ByList
    <3> QED BY <2>1, <3>1, <3>2, AllChunksPairs DEF Chunks
  <2> QED BY <2>1, <2>2, WholeCommit
<1> QED BY <1>1, <1>2

LEMMA EpilogueReplaces ==
  ASSUME OutcomesInv, NEW t \in Xfers, RunEpilogue(t)
  PROVE  ListSurvives
<1>0. TransferIndInv /\ TransferTypeOK /\ FailureInv(t) /\ LandedInv(t)
  BY DEF OutcomesInv
<1>1. CASE UNCHANGED content
  BY <1>1 DEF ListSurvives
<1>2. CASE CommitBlockList(t) /\ ~UNCHANGED content
  <2>1. /\ epc[t] = "commit" /\ ~cancelled[t] /\ ByList(t)
        /\ Commit(t, {i \in Chunks(t) : <<t, i>> \in uncommitted})
    BY <1>2 DEF CommitBlockList, Epilogue, PutListNeeded, IsLive, service
  <2>2. PutChunks(t) = Chunks(t)
    BY <1>0, <2>1 DEF TransferIndInv, EpilogueAfterChunks, XferCounted, PutChunks
  <2>3. {i \in Chunks(t) : <<t, i>> \in uncommitted} = Chunks(t)
    BY <1>0, <2>1, <2>2 DEF LandedInv
  <2> QED BY <1>0, <2>1, <2>3, WholeCommit
<1>3. CASE Cleanup(t) /\ ~UNCHANGED content
  <2>1. /\ epc[t] = "cleanup" /\ ~IsLive(t) /\ written[t] # 0 /\ t \in holds
        /\ cancelled[t] => ~HasCommittedBlocks(DestOf[t])
        /\ Delete(DestOf[t])
    BY <1>3 DEF Cleanup, Epilogue, IsDeadInflight, service
  <2>2. cancelled[t]
    BY <1>0, <2>1, InEpilogue DEF FailureInv, IsLive, ReturnsEarly
  <2>3. ASSUME NEW d \in Dests, content'[d] # content[d] PROVE CleanedUp(d)
    <3>1. d = DestOf[t] /\ content'[d] = NoBlob
      BY <1>0, <2>1, <2>3 DEF Delete, TransferTypeOK
    <3> QED BY <2>1, <2>2, <3>1 DEF CleanedUp
  <2> QED BY <2>3 DEF ListSurvives
<1> QED BY <1>1, <1>2, <1>3
        DEF RunEpilogue, DetectCancellation, CheckSource, ReceiveHash, CheckLength,
            EnsureDestinationUnlocked, Finish, ReportDone, SubtractBytes, service

\* A destination is only ever given a whole file, by a commit of all chunks of a
\* transfer nobody cancelled; and what has committed blocks is never deleted:
\* the clean-up of a cancelled transfer that has put blocks deletes only a
\* blob that has none, be it one that was put whole.
THEOREM ListsSurvive == TransferSpec => BlockListsSurvive
<1>1. OutcomesInv /\ [TransferNext]_xferVars => [ListSurvives]_xferVars
  <2> SUFFICES ASSUME OutcomesInv, TransferNext PROVE ListSurvives
    OBVIOUS
  <2>0. TransferTypeOK
    BY DEF OutcomesInv
  <2>1. CASE UNCHANGED content
    BY <2>1 DEF ListSurvives
  <2>2. ASSUME NEW c \in AllChunks, RunChunk(c) PROVE ListSurvives
    BY <2>0, <2>2, ChunkReplaces
  <2>3. ASSUME NEW t \in Xfers, RunEpilogue(t) PROVE ListSurvives
    BY <2>3, EpilogueReplaces
  <2>4. ASSUME NEW t \in Xfers, Initiate(t) PROVE UNCHANGED content
    BY <2>4 DEF Initiate, StartXfer, InitialChecks, WaitUntilLockDestination,
           ReportEarly, Prefetch, PrefetchCancelled, NoPrefetch, PrefetchUnchanged,
           Prologue, ScheduleChunk, SendHash, service
  <2>5. ASSUME NEW t \in Xfers, AddToTotal(t) PROVE UNCHANGED content
    BY <2>5 DEF AddToTotal, service
  <2>6. ASSUME NEW c \in AllChunks, StartChunk(c) PROVE UNCHANGED content
    BY <2>6 DEF StartChunk, service
  <2>7. CASE CancelJob \/ XferTerminated
    BY <2>7, <2>1 DEF CancelJob, XferTerminated, xferVars, service
  <2> QED BY <2>1, <2>2, <2>3, <2>4, <2>5, <2>6, <2>7 DEF TransferNext
<1> QED BY <1>1, OutcomesInvHolds, PTL
        DEF TransferSpec, BlockListsSurvive, ListSurvives

=============================================================================
