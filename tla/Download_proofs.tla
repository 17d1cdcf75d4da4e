-------------------------- MODULE Download_proofs --------------------------
(***************************************************************************)
(* Proofs that a download passes for a success only when all its chunks    *)
(* are in the file, in order, and that the RAM of its chunks is accounted. *)
(***************************************************************************)
EXTENDS Download, SequenceTheorems, FiniteSetTheorems, TLAPS

ChunkPcs == {"unscheduled", "scheduled", "read", "report", "done"}
WriterPcs == {"select", "process", "offer md5", "clean up", "gone"}
WriterRecord == [pc : WriterPcs, unsaved : SUBSET Nat, next : Nat, failed : BOOLEAN]
Early == {"none", "start", "flush"}
BeforeRename == Early \cup {"flushed", "not flushed", "check"}
Epilogues == BeforeRename \cup {"complete", "assert live", "panic", "succeed", "report", "reported"}

DiskRecord == [temp : Nat, final : Nat, logged : {"none", "not renamed", "not deleted"}]

FileTypeOK(f) ==
    /\ chunk[f] \in [ChunksOf(f) -> ChunkPcs]
    /\ init[f] \in 0..NumChunks[f]
    /\ epilogue[f] \in Epilogues

TypesOK ==
    /\ cancelled \in [Files -> BOOLEAN]
    /\ status \in [Files -> {"started", "success", "failed", "cancelled"}]
    /\ init \in [Files -> Nat] /\ chunksDone \in [Files -> Nat]
    /\ DOMAIN chunk = Files
    /\ queue \in [Files -> [chunks : Seq(Nat), closed : BOOLEAN]]
    /\ writer \in [Files -> WriterRecord]
    /\ reserved \in [Files -> Int] /\ ram \in Int
    /\ epilogue \in [Files -> Epilogues]
    /\ disk \in [Files -> DiskRecord]
    /\ \A f \in Files : FileTypeOK(f)

Done(f) == {c \in ChunksOf(f) : chunk[f][c] = "done"}
Queued(f) == Range(queue[f].chunks)
WithWriter(f) == Queued(f) \cup writer[f].unsaved

(* Each chunk is scheduled in turn, and the last done starts the epilogue. *)
ChunksInv(f) ==
    /\ \A c \in ChunksOf(f) : c > init[f] <=> chunk[f][c] = "unscheduled"
    /\ chunksDone[f] = Cardinality(Done(f))
    /\ epilogue[f] = "none" <=> Done(f) # ChunksOf(f)

(* The writer gets each chunk once, and saves them in order.               *)
QueueInv(f) ==
    /\ WithWriter(f) \subseteq ChunksOf(f)
    /\ \A c \in WithWriter(f) : chunk[f][c] \in {"report", "done"} /\ c >= writer[f].next
    /\ \A i, j \in DOMAIN queue[f].chunks : queue[f].chunks[i] = queue[f].chunks[j] => i = j
    /\ Queued(f) \cap writer[f].unsaved = {}
    /\ writer[f].next \in 1..(NumChunks[f] + 1)
    /\ \A c \in ChunksOf(f) : c < writer[f].next => chunk[f][c] \in {"report", "done"}

Settled(f) ==
    /\ Done(f) = ChunksOf(f)
    /\ queue[f].chunks = << >> /\ writer[f].unsaved = {}
    /\ writer[f].next = NumChunks[f] + 1 /\ ~writer[f].failed

(* While nothing is cancelled no chunk is lost on its way to the file.     *)
WriterInv(f) ==
    /\ queue[f].closed => epilogue[f] \notin {"none", "start"}
    /\ ~cancelled[f] /\ writer[f].pc \in {"select", "process", "offer md5"} =>
          \A c \in ChunksOf(f) : chunk[f][c] \in {"report", "done"} =>
              c < writer[f].next \/ c \in WithWriter(f)
    /\ ~cancelled[f] /\ writer[f].pc = "select" => writer[f].next \notin writer[f].unsaved
    /\ writer[f].failed => writer[f].pc \in {"clean up", "gone"}
    /\ epilogue[f] \notin Early => writer[f].pc \in {"clean up", "gone"}
    /\ ~cancelled[f] /\ writer[f].pc = "offer md5" => Settled(f)
    /\ ~cancelled[f] /\ epilogue[f] \in {"flushed", "check", "complete", "assert live"}
          => Settled(f)
    /\ epilogue[f] = "succeed" \/ status[f] = "success" => Settled(f)

DiskInv(f) ==
    /\ status[f] \in {"failed", "cancelled"} => cancelled[f]
    /\ status[f] = "success" => epilogue[f] \in {"report", "reported"}
    /\ ~TempPath => disk[f].temp = 0
    /\ TempPath /\ epilogue[f] \in BeforeRename => disk[f].final = 0
    /\ epilogue[f] \in BeforeRename /\ ~writer[f].failed => Written(f) = writer[f].next - 1
    /\ \/ ~cancelled[f] /\ epilogue[f] \in {"complete", "assert live"}
       \/ epilogue[f] = "succeed"
       \/ status[f] = "success"
       => WholeUnderAName(f)
    /\ epilogue[f] \in {"report", "reported"} /\ status[f] # "success"
          => Written(f) = 0 \/ disk[f].logged = "not deleted"
    /\ epilogue[f] \in BeforeRename => disk[f].logged = "none"
    /\ TempPath => disk[f].final \in {0, NumChunks[f]}

FileInv(f) == ChunksInv(f) /\ QueueInv(f) /\ WriterInv(f) /\ DiskInv(f)

(* A transfer that has not been disturbed, or too late to matter.          *)
Undisturbed(f) == ~cancelled[f] \/ epilogue[f] = "succeed" \/ status[f] = "success"

RamInv ==
    /\ IsFiniteSet(ChunksInFlight)
    /\ (\A f \in Files : Undisturbed(f)) =>
          /\ ram = Cardinality(ChunksInFlight)
          /\ \A f \in Files : reserved[f] = Cardinality(InFlight(f))

DownloadInv == TypesOK /\ (\A f \in Files : FileInv(f)) /\ RamInv

-----------------------------------------------------------------------------
(* The chunks in flight.                                                   *)

LEMMA InFlightIsFinite ==
  ASSUME NEW f \in Files, NEW S \in SUBSET ChunksOf(f)
  PROVE  IsFiniteSet(S) /\ Cardinality(S) \in Nat
<1>1. IsFiniteSet(ChunksOf(f))
  BY DownloadAssumption, FS_Interval DEF ChunksOf
<1> QED BY <1>1, FS_Subset, FS_CardinalityType

(* The parts of the invariant that speak of one file only.                 *)
SameFile(g) ==
    /\ cancelled'[g] = cancelled[g] /\ status'[g] = status[g] /\ init'[g] = init[g]
    /\ chunk'[g] = chunk[g] /\ chunksDone'[g] = chunksDone[g] /\ queue'[g] = queue[g]
    /\ writer'[g] = writer[g] /\ epilogue'[g] = epilogue[g] /\ disk'[g] = disk[g]

LEMMA OthersKeep ==
  ASSUME NEW g \in Files, FileInv(g), SameFile(g)
  PROVE  FileInv(g)' /\ InFlight(g)' = InFlight(g) /\ (Undisturbed(g)' <=> Undisturbed(g))
<1>1. ChunksInv(g)'
  BY DEF SameFile, FileInv, ChunksInv, Done
<1>2. QueueInv(g)'
  BY DEF SameFile, FileInv, QueueInv, WithWriter, Queued
<1>3. WriterInv(g)'
  BY DEF SameFile, FileInv, WriterInv, WithWriter, Queued, Settled, Done
<1>4. DiskInv(g)'
  BY DEF SameFile, FileInv, DiskInv, Written, WholeUnderAName
<1>5. InFlight(g)' = InFlight(g) /\ (Undisturbed(g)' <=> Undisturbed(g))
  BY DEF SameFile, InFlight, Undisturbed
<1> QED BY <1>1, <1>2, <1>3, <1>4, <1>5 DEF FileInv

LEMMA WhatIsInFlight ==
  \A x : x \in ChunksInFlight <=> \E f \in Files : \E c \in InFlight(f) : x = <<f, c>>
  BY DEF ChunksInFlight

LEMMA WhatIsInFlightNext ==
  (\A x : x \in ChunksInFlight <=> \E f \in Files : \E c \in InFlight(f) : x = <<f, c>>)'
<1>1. \A x : x \in ChunksInFlight <=> \E f \in Files : \E c \in InFlight(f) : x = <<f, c>>
  BY WhatIsInFlight
<1> QED BY <1>1, PTL

(* A step of one file: it leaves alone what is in flight, or adds a chunk, *)
(* or takes one or several, and counts them; or it gives back what is      *)
(* reserved for nothing; or the file is disturbed, and nobody counts.      *)
RamMoves(f) ==
    /\ Undisturbed(f)' => Undisturbed(f)
    /\ \A g \in Files \ {f} : reserved'[g] = reserved[g]
    /\ \/ InFlight(f)' = InFlight(f) /\ ram' = ram /\ reserved'[f] = reserved[f]
       \/ \E c \in ChunksOf(f) \ InFlight(f) :
             InFlight(f)' = InFlight(f) \cup {c} /\ ram' = ram + 1 /\ reserved'[f] = reserved[f] + 1
       \/ \E c \in InFlight(f) :
             InFlight(f)' = InFlight(f) \ {c} /\ ram' = ram - 1 /\ reserved'[f] = reserved[f] - 1
       \/ \E S \in SUBSET InFlight(f) :
             /\ InFlight(f)' = InFlight(f) \ S
             /\ ram' = ram - Cardinality(S) /\ reserved'[f] = reserved[f] - Cardinality(S)
       \/ /\ InFlight(f)' = InFlight(f) /\ InFlight(f) = {}
          /\ ram' = ram - reserved[f] /\ reserved'[f] = reserved[f]
       \/ ~Undisturbed(f)'

LEMMA StepOfAFile ==
  ASSUME DownloadInv, NEW f \in Files, TypesOK', FileInv(f)', RamMoves(f),
         \A g \in Files \ {f} : SameFile(g)
  PROVE  DownloadInv'
<1>1. \A g \in Files \ {f} : /\ FileInv(g)' /\ InFlight(g)' = InFlight(g)
                             /\ Undisturbed(g)' <=> Undisturbed(g)
  BY OthersKeep DEF DownloadInv
<1>2. InFlight(f)' \subseteq ChunksOf(f) /\ InFlight(f) \subseteq ChunksOf(f)
  BY DEF InFlight
<1>3. IsFiniteSet(ChunksInFlight')
  <2>1. ChunksInFlight' \subseteq ChunksInFlight \cup ({f} \X ChunksOf(f))
    BY <1>1, <1>2, WhatIsInFlight, WhatIsInFlightNext
  <2>2. IsFiniteSet({f} \X ChunksOf(f))
    BY InFlightIsFinite, FS_Singleton, FS_Product
  <2>3. IsFiniteSet(ChunksInFlight \cup ({f} \X ChunksOf(f)))
    BY <2>2, FS_Union DEF DownloadInv, RamInv
  <2> QED BY <2>1, <2>3, FS_Subset
<1>4. ASSUME \A g \in Files : Undisturbed(g)'
      PROVE  /\ ram' = Cardinality(ChunksInFlight')
             /\ \A g \in Files : reserved'[g] = Cardinality(InFlight(g)')
  <2>1. \A g \in Files : Undisturbed(g)
    BY <1>1, <1>4 DEF RamMoves
  <2>2. /\ ram = Cardinality(ChunksInFlight) /\ IsFiniteSet(ChunksInFlight)
        /\ \A g \in Files : reserved[g] = Cardinality(InFlight(g))
    BY <2>1 DEF DownloadInv, RamInv
  <2>3. \A g \in Files \ {f} : reserved'[g] = Cardinality(InFlight(g)')
    BY <1>1, <2>2 DEF RamMoves
  <2>4. CASE InFlight(f)' = InFlight(f) /\ ram' = ram /\ reserved'[f] = reserved[f]
    <3>1. ChunksInFlight' = ChunksInFlight
      BY <1>1, <2>4, WhatIsInFlight, WhatIsInFlightNext
    <3> QED BY <2>2, <2>3, <2>4, <3>1
  <2>5. ASSUME NEW c \in ChunksOf(f) \ InFlight(f), InFlight(f)' = InFlight(f) \cup {c},
               ram' = ram + 1, reserved'[f] = reserved[f] + 1
        PROVE  ram' = Cardinality(ChunksInFlight') /\ reserved'[f] = Cardinality(InFlight(f)')
    <3>1. ChunksInFlight' = ChunksInFlight \cup {<<f, c>>} /\ <<f, c>> \notin ChunksInFlight
      BY <1>1, <2>5, WhatIsInFlight, WhatIsInFlightNext
    <3>2. Cardinality(ChunksInFlight') = Cardinality(ChunksInFlight) + 1
      BY <2>2, <3>1, FS_AddElement
    <3>3. Cardinality(InFlight(f)') = Cardinality(InFlight(f)) + 1
      BY <1>2, <2>5, InFlightIsFinite, FS_AddElement
    <3> QED BY <2>2, <2>5, <3>2, <3>3
  <2>6. ASSUME NEW c \in InFlight(f), InFlight(f)' = InFlight(f) \ {c},
               ram' = ram - 1, reserved'[f] = reserved[f] - 1
        PROVE  ram' = Cardinality(ChunksInFlight') /\ reserved'[f] = Cardinality(InFlight(f)')
    <3>1. ChunksInFlight' = ChunksInFlight \ {<<f, c>>} /\ <<f, c>> \in ChunksInFlight
      BY <1>1, <2>6, WhatIsInFlight, WhatIsInFlightNext
    <3>2. Cardinality(ChunksInFlight') = Cardinality(ChunksInFlight) - 1
      BY <2>2, <3>1, FS_RemoveElement
    <3>3. Cardinality(InFlight(f)') = Cardinality(InFlight(f)) - 1
      BY <1>2, <2>6, InFlightIsFinite, FS_RemoveElement
    <3> QED BY <2>2, <2>6, <3>2, <3>3
  <2>7. ASSUME NEW S \in SUBSET InFlight(f), InFlight(f)' = InFlight(f) \ S,
               ram' = ram - Cardinality(S), reserved'[f] = reserved[f] - Cardinality(S)
        PROVE  ram' = Cardinality(ChunksInFlight') /\ reserved'[f] = Cardinality(InFlight(f)')
    <3>1. IsFiniteSet(S) /\ Cardinality(S) \in Nat /\ IsFiniteSet(InFlight(f))
      BY <1>2, InFlightIsFinite
    <3>2. IsFiniteSet({f} \X S) /\ Cardinality({f} \X S) = Cardinality(S)
      <4>1. IsFiniteSet({f}) /\ Cardinality({f}) = 1
        BY FS_Singleton
      <4>2. /\ IsFiniteSet({f} \X S)
            /\ Cardinality({f} \X S) = Cardinality({f}) * Cardinality(S)
        BY <3>1, <4>1, FS_Product
      <4> QED BY <3>1, <4>1, <4>2
    <3>3. /\ ChunksInFlight' = ChunksInFlight \ ({f} \X S)
          /\ ChunksInFlight \cap ({f} \X S) = {f} \X S
      BY <1>1, <2>7, WhatIsInFlight, WhatIsInFlightNext
    <3>4. Cardinality(ChunksInFlight') = Cardinality(ChunksInFlight) - Cardinality(S)
      <4> DEFINE T == {f} \X S
      <4>1. /\ IsFiniteSet(T) /\ Cardinality(T) = Cardinality(S)
            /\ ChunksInFlight' = ChunksInFlight \ T /\ ChunksInFlight \cap T = T
        BY <3>2, <3>3
      <4> HIDE DEF T
      <4>2. Cardinality(ChunksInFlight \ T)
               = Cardinality(ChunksInFlight) - Cardinality(ChunksInFlight \cap T)
        BY <2>2, FS_Difference, Zenon
      <4> QED BY <4>1, <4>2
    <3>5. Cardinality(InFlight(f)') = Cardinality(InFlight(f)) - Cardinality(S)
      <4>1. InFlight(f) \cap S = S
        OBVIOUS
      <4> QED BY <2>7, <3>1, <4>1, FS_Difference
    <3> QED BY <2>2, <2>7, <3>4, <3>5
  <2>8. CASE /\ InFlight(f)' = InFlight(f) /\ InFlight(f) = {}
             /\ ram' = ram - reserved[f] /\ reserved'[f] = reserved[f]
    <3>1. reserved[f] = 0 /\ ram \in Int
      BY <2>2, <2>8, FS_EmptySet DEF DownloadInv, TypesOK
    <3>2. ram' = ram
      BY <2>8, <3>1
    <3> QED BY <2>4, <2>8, <3>2
  <2> QED BY <1>4, <2>2, <2>3, <2>4, <2>5, <2>6, <2>7, <2>8 DEF RamMoves
<1>5. RamInv'
  BY <1>3, <1>4 DEF RamInv
<1> QED BY <1>1, <1>5 DEF DownloadInv

-----------------------------------------------------------------------------
(* The initiator, the chunk functions and the user.                        *)

LEMMA Values ==
  ASSUME TypesOK, NEW f \in Files
  PROVE  /\ queue[f].chunks \in Seq(Nat) /\ queue[f].closed \in BOOLEAN
         /\ writer[f].pc \in WriterPcs /\ writer[f].unsaved \subseteq Nat
         /\ writer[f].next \in Nat /\ writer[f].failed \in BOOLEAN
         /\ disk[f].temp \in Nat /\ disk[f].final \in Nat
         /\ NumChunks[f] \in Nat /\ NumChunks[f] # 0
         /\ chunksDone[f] \in Nat /\ init[f] \in Nat
         /\ chunk[f] \in [ChunksOf(f) -> ChunkPcs]
  BY DownloadAssumption DEF TypesOK, FileTypeOK, WriterRecord, DiskRecord

(* A file whose chunks are not all done is not settled, and has not begun  *)
(* its epilogue.                                                           *)
LEMMA NotAllDone ==
  ASSUME DownloadInv, NEW f \in Files, NEW c \in ChunksOf(f), chunk[f][c] # "done"
  PROVE  /\ epilogue[f] = "none" /\ status[f] # "success" /\ ~Settled(f)
         /\ ~queue[f].closed /\ (Undisturbed(f) => ~cancelled[f])
<1>1. Done(f) # ChunksOf(f)
  BY DEF Done
<1>2. epilogue[f] = "none" /\ ~Settled(f)
  BY <1>1 DEF DownloadInv, FileInv, ChunksInv, Settled
<1>3. status[f] # "success" /\ ~queue[f].closed
  BY <1>2 DEF DownloadInv, FileInv, WriterInv
<1> QED BY <1>2, <1>3 DEF Undisturbed

LEMMA CancelTransferKeeps ==
  ASSUME DownloadInv, NEW f \in Files, CancelTransfer(f)
  PROVE  DownloadInv'
<1>1. /\ cancelled' = [cancelled EXCEPT ![f] = TRUE]
      /\ UNCHANGED <<status, init, chunk, chunksDone, queue, writer, reserved, ram, epilogue, disk>>
  BY DEF CancelTransfer
<1>2. /\ cancelled' \in [Files -> BOOLEAN] /\ cancelled'[f]
      /\ \A g \in Files \ {f} : cancelled'[g] = cancelled[g]
  BY <1>1 DEF DownloadInv, TypesOK
<1>3. TypesOK'
  BY <1>1, <1>2 DEF DownloadInv, TypesOK, FileTypeOK
<1>4. ChunksInv(f)' /\ QueueInv(f)'
  <2>1. ChunksInv(f)'
    BY <1>1 DEF DownloadInv, FileInv, ChunksInv, Done
  <2>2. QueueInv(f)'
    BY <1>1 DEF DownloadInv, FileInv, QueueInv, WithWriter, Queued
  <2> QED BY <2>1, <2>2
<1>5. WriterInv(f)' /\ DiskInv(f)'
  BY <1>1, <1>2 DEF DownloadInv, FileInv, WriterInv, Settled, Done, DiskInv, Written, WholeUnderAName
<1>6. RamMoves(f)
  BY <1>1, <1>2 DEF RamMoves, Undisturbed, InFlight
<1>7. \A g \in Files \ {f} : SameFile(g)
  BY <1>1, <1>2 DEF SameFile
<1> QED BY <1>3, <1>4, <1>5, <1>6, <1>7, StepOfAFile DEF FileInv

(* The effect of a step that moves one chunk function from one place to    *)
(* the next, and perhaps cancels the transfer.                             *)
LEMMA ChunkMoves ==
  ASSUME DownloadInv, NEW f \in Files, NEW c \in ChunksOf(f), NEW pc \in ChunkPcs,
         chunk' = [chunk EXCEPT ![f][c] = pc]
  PROVE  /\ DOMAIN chunk' = Files /\ chunk'[f] \in [ChunksOf(f) -> ChunkPcs]
         /\ chunk'[f][c] = pc
         /\ \A d \in ChunksOf(f) : d # c => chunk'[f][d] = chunk[f][d]
         /\ \A g \in Files \ {f} : chunk'[g] = chunk[g]
  BY Values DEF DownloadInv, TypesOK

LEMMA FailActiveDoes ==
  ASSUME DownloadInv, NEW f \in Files, FailActive(f)
  PROVE  /\ cancelled' \in [Files -> BOOLEAN] /\ cancelled'[f]
         /\ status' \in [Files -> {"started", "success", "failed", "cancelled"}]
         /\ status'[f] = "failed" \/ (cancelled[f] /\ status'[f] = status[f])
         /\ \A g \in Files \ {f} : cancelled'[g] = cancelled[g] /\ status'[g] = status[g]
<1>1. /\ cancelled \in [Files -> BOOLEAN]
      /\ status \in [Files -> {"started", "success", "failed", "cancelled"}]
  BY DEF DownloadInv, TypesOK
<1>2. CASE cancelled[f]
  BY <1>1, <1>2 DEF FailActive
<1>3. CASE ~cancelled[f]
  <2>1. /\ cancelled' = [cancelled EXCEPT ![f] = TRUE]
        /\ status' = [status EXCEPT ![f] = "failed"]
    BY <1>3 DEF FailActive
  <2> QED BY <1>1, <2>1
<1> QED BY <1>2, <1>3

LEMMA ScheduleNextKeeps ==
  ASSUME DownloadInv, NEW f \in Files, ScheduleNext(f)
  PROVE  DownloadInv'
<1> DEFINE c == init[f] + 1
<1>1. /\ init[f] < NumChunks[f] /\ init' = [init EXCEPT ![f] = c]
      /\ chunk' = [chunk EXCEPT ![f][c] = "scheduled"]
      /\ UNCHANGED <<cancelled, status, chunksDone, queue, writer, epilogue, disk>>
      /\ \/ ram' = ram + 1 /\ reserved' = [reserved EXCEPT ![f] = @ + 1]
         \/ cancelled[f] /\ UNCHANGED <<ram, reserved>>
  BY DEF ScheduleNext
<1>2. init[f] \in Nat /\ NumChunks[f] \in Nat
  BY Values DEF DownloadInv
<1>3. c \in ChunksOf(f) /\ c \in 0..NumChunks[f] /\ c > init[f]
      /\ \A d \in ChunksOf(f) : d # c => (d > c <=> d > init[f])
  BY <1>1, <1>2 DEF ChunksOf
<1>4. chunk[f][c] = "unscheduled"
  BY <1>3 DEF DownloadInv, FileInv, ChunksInv
<1>5. c \notin Done(f) /\ c \notin InFlight(f) /\ c \notin WithWriter(f)
  BY <1>4 DEF DownloadInv, FileInv, QueueInv, WithWriter, Queued, InFlight, Done
<1>6. c \in Nat
  BY <1>2
<1> HIDE DEF c
<1>7. init' \in [Files -> Nat] /\ init'[f] = c /\ \A g \in Files \ {f} : init'[g] = init[g]
  BY <1>1, <1>6 DEF DownloadInv, TypesOK
<1>8. /\ DOMAIN chunk' = Files /\ chunk'[f] \in [ChunksOf(f) -> ChunkPcs]
      /\ chunk'[f][c] = "scheduled"
      /\ \A d \in ChunksOf(f) : d # c => chunk'[f][d] = chunk[f][d]
      /\ \A g \in Files \ {f} : chunk'[g] = chunk[g]
  BY <1>1, <1>3, ChunkMoves DEF ChunkPcs
<1>9. /\ ram' \in Int /\ reserved' \in [Files -> Int]
      /\ \A g \in Files \ {f} : reserved'[g] = reserved[g]
      /\ \/ ram' = ram + 1 /\ reserved'[f] = reserved[f] + 1
         \/ cancelled[f] /\ UNCHANGED <<ram, reserved>>
  BY <1>1 DEF DownloadInv, TypesOK
<1>10. TypesOK'
  BY <1>1, <1>3, <1>7, <1>8, <1>9 DEF DownloadInv, TypesOK, FileTypeOK
<1>11. Done(f)' = Done(f) /\ InFlight(f)' = InFlight(f) \cup {c}
  BY <1>1, <1>3, <1>4, <1>8 DEF Done, InFlight
<1>12. ChunksInv(f)'
  BY <1>1, <1>3, <1>7, <1>8, <1>11 DEF DownloadInv, FileInv, ChunksInv
<1>13. QueueInv(f)'
  <2>1. \A d \in ChunksOf(f) : chunk[f][d] \in {"report", "done"} => chunk'[f][d] = chunk[f][d]
    BY <1>4, <1>8
  <2>2. WithWriter(f)' = WithWriter(f) /\ Queued(f)' = Queued(f)
    BY <1>1 DEF WithWriter, Queued
  <2> QED BY <1>1, <2>1, <2>2 DEF DownloadInv, FileInv, QueueInv
<1>14. WriterInv(f)'
  <2>1. \A d \in ChunksOf(f) : chunk'[f][d] \in {"report", "done"} => chunk'[f][d] = chunk[f][d]
    BY <1>8
  <2>2. WithWriter(f)' = WithWriter(f) /\ (Settled(f)' <=> Settled(f))
    BY <1>1, <1>11 DEF WithWriter, Queued, Settled
  <2> QED BY <1>1, <2>1, <2>2 DEF DownloadInv, FileInv, WriterInv
<1>15. DiskInv(f)'
  BY <1>1 DEF DownloadInv, FileInv, DiskInv, Written, WholeUnderAName
<1>16. RamMoves(f)
  <2>1. Undisturbed(f)' = Undisturbed(f)
    BY <1>1 DEF Undisturbed
  <2>2. Undisturbed(f) => ~cancelled[f]
    BY <1>3, <1>4, NotAllDone
  <2>3. CASE ram' = ram + 1 /\ reserved'[f] = reserved[f] + 1
    BY <1>3, <1>5, <1>9, <1>11, <2>1, <2>3 DEF RamMoves
  <2>4. CASE cancelled[f]
    BY <1>9, <2>1, <2>2, <2>4 DEF RamMoves
  <2> QED BY <1>9, <2>3, <2>4
<1>17. \A g \in Files \ {f} : SameFile(g)
  BY <1>1, <1>7, <1>8 DEF SameFile
<1> QED BY <1>10, <1>12, <1>13, <1>14, <1>15, <1>16, <1>17, StepOfAFile DEF FileInv

LEMMA StartChunkFuncKeeps ==
  ASSUME DownloadInv, NEW f \in Files, NEW c \in ChunksOf(f), StartChunkFunc(f, c)
  PROVE  DownloadInv'
<1>1. /\ chunk[f][c] = "scheduled"
      /\ UNCHANGED <<init, chunksDone, queue, writer, reserved, ram, epilogue, disk>>
  BY DEF StartChunkFunc
<1>2. PICK pc \in {"read", "report"} :
        /\ chunk' = [chunk EXCEPT ![f][c] = pc]
        /\ \/ pc = "report" /\ cancelled[f] /\ UNCHANGED <<cancelled, status>>
           \/ pc = "report" /\ ~cancelled[f] /\ FailActive(f)
           \/ pc = "read" /\ UNCHANGED <<cancelled, status>>
  BY DEF StartChunkFunc
<1>3. /\ DOMAIN chunk' = Files /\ chunk'[f] \in [ChunksOf(f) -> ChunkPcs]
      /\ chunk'[f][c] = pc
      /\ \A d \in ChunksOf(f) : d # c => chunk'[f][d] = chunk[f][d]
      /\ \A g \in Files \ {f} : chunk'[g] = chunk[g]
  BY <1>2, ChunkMoves DEF ChunkPcs
<1>4. /\ cancelled' \in [Files -> BOOLEAN]
      /\ status' \in [Files -> {"started", "success", "failed", "cancelled"}]
      /\ cancelled[f] => cancelled'[f]
      /\ pc = "report" => cancelled'[f]
      /\ status'[f] = status[f] \/ (status'[f] = "failed" /\ cancelled'[f])
      /\ \A g \in Files \ {f} : cancelled'[g] = cancelled[g] /\ status'[g] = status[g]
  <2>1. CASE FailActive(f)
    BY <2>1, FailActiveDoes
  <2>2. CASE UNCHANGED <<cancelled, status>> /\ (pc = "report" => cancelled[f])
    BY <2>2 DEF DownloadInv, TypesOK
  <2> QED BY <1>2, <2>1, <2>2
<1>5. epilogue[f] = "none" /\ status[f] # "success" /\ ~Settled(f) /\ ~queue[f].closed
      /\ (Undisturbed(f) => ~cancelled[f])
  BY <1>1, NotAllDone
<1>6. TypesOK'
  BY <1>1, <1>3, <1>4 DEF DownloadInv, TypesOK, FileTypeOK
<1>7. /\ Done(f)' = Done(f) /\ c \notin WithWriter(f) /\ c \in InFlight(f)
      /\ WithWriter(f)' = WithWriter(f) /\ Queued(f)' = Queued(f)
  BY <1>1, <1>2, <1>3 DEF Done, InFlight, DownloadInv, FileInv, QueueInv, WithWriter, Queued
<1>8. ChunksInv(f)'
  BY <1>1, <1>2, <1>3, <1>7 DEF DownloadInv, FileInv, ChunksInv
<1>9. QueueInv(f)'
  <2>1. \A d \in ChunksOf(f) :
          chunk[f][d] \in {"report", "done"} => chunk'[f][d] \in {"report", "done"}
    BY <1>1, <1>3
  <2> QED BY <1>1, <1>7, <2>1 DEF DownloadInv, FileInv, QueueInv
<1>10. WriterInv(f)'
  <2>1. ~cancelled'[f] => \A d \in ChunksOf(f) :
          chunk'[f][d] \in {"report", "done"} => chunk[f][d] \in {"report", "done"}
    BY <1>2, <1>3, <1>4
  <2>2. ~Settled(f)'
    BY <1>1, <1>5, <1>7 DEF Settled
  <2> QED BY <1>1, <1>4, <1>5, <1>7, <2>1, <2>2 DEF DownloadInv, FileInv, WriterInv
<1>11. DiskInv(f)'
  BY <1>1, <1>4, <1>5 DEF DownloadInv, FileInv, DiskInv, Written, WholeUnderAName
<1>12. RamMoves(f)
  <2>1. Undisturbed(f)' => ~cancelled'[f]
    BY <1>1, <1>4, <1>5 DEF Undisturbed
  <2>2. Undisturbed(f)' => Undisturbed(f)
    BY <1>4, <2>1 DEF Undisturbed
  <2>3. ~cancelled'[f] => InFlight(f)' = InFlight(f)
    BY <1>1, <1>2, <1>3, <1>4 DEF InFlight
  <2> QED BY <1>1, <2>1, <2>2, <2>3 DEF RamMoves
<1>13. \A g \in Files \ {f} : SameFile(g)
  BY <1>1, <1>3, <1>4 DEF SameFile
<1> QED BY <1>6, <1>8, <1>9, <1>10, <1>11, <1>12, <1>13, StepOfAFile DEF FileInv

LEMMA QueueBecomes ==
  ASSUME DownloadInv, NEW f \in Files, NEW s \in Seq(Nat),
         queue' = [queue EXCEPT ![f].chunks = s]
  PROVE  /\ queue' \in [Files -> [chunks : Seq(Nat), closed : BOOLEAN]]
         /\ queue'[f].closed = queue[f].closed /\ queue'[f].chunks = s
         /\ \A g \in Files \ {f} : queue'[g] = queue[g]
  BY DEF DownloadInv, TypesOK

(* The writer's channel is unordered: what matters is what is in it.       *)
LEMMA QueueGets ==
  ASSUME DownloadInv, NEW f \in Files, NEW c \in ChunksOf(f), c \notin WithWriter(f),
         queue' = [queue EXCEPT ![f].chunks = Append(@, c)]
  PROVE  /\ queue' \in [Files -> [chunks : Seq(Nat), closed : BOOLEAN]]
         /\ queue'[f].closed = queue[f].closed
         /\ Range(queue'[f].chunks) = Queued(f) \cup {c}
         /\ \A i, j \in DOMAIN queue'[f].chunks :
               queue'[f].chunks[i] = queue'[f].chunks[j] => i = j
         /\ \A g \in Files \ {f} : queue'[g] = queue[g]
<1> DEFINE q == queue[f].chunks
           n == Len(q) + 1
<1>1. q \in Seq(Nat) /\ c \in Nat
  BY Values DEF DownloadInv, ChunksOf
<1>2. /\ Append(q, c) \in Seq(Nat) /\ DOMAIN Append(q, c) = DOMAIN q \cup {n} /\ n \notin DOMAIN q
      /\ \A i \in DOMAIN q : Append(q, c)[i] = q[i]
      /\ Append(q, c)[n] = c
  BY <1>1
<1>3. /\ queue' \in [Files -> [chunks : Seq(Nat), closed : BOOLEAN]]
      /\ queue'[f].closed = queue[f].closed /\ queue'[f].chunks = Append(q, c)
      /\ \A g \in Files \ {f} : queue'[g] = queue[g]
  BY <1>2, QueueBecomes
<1> HIDE DEF n
<1>4. Range(Append(q, c)) = Range(q) \cup {c}
  BY <1>2, Zenon DEF Range
<1>5. \A i, j \in DOMAIN Append(q, c) : Append(q, c)[i] = Append(q, c)[j] => i = j
  <2>1. \A i \in DOMAIN q : q[i] # c
    BY DEF WithWriter, Queued, Range
  <2>2. \A i, j \in DOMAIN q : q[i] = q[j] => i = j
    BY DEF DownloadInv, FileInv, QueueInv
  <2> QED BY <1>2, <2>1, <2>2
<1> QED BY <1>3, <1>4, <1>5 DEF Queued

LEMMA EnqueueChunkKeeps ==
  ASSUME DownloadInv, NEW f \in Files, NEW c \in ChunksOf(f), EnqueueChunk(f, c)
  PROVE  DownloadInv'
<1>1. /\ chunk[f][c] = "read" /\ chunk' = [chunk EXCEPT ![f][c] = "report"]
      /\ UNCHANGED <<init, chunksDone, writer, epilogue, disk>>
  BY DEF EnqueueChunk
<1>2. /\ DOMAIN chunk' = Files /\ chunk'[f] \in [ChunksOf(f) -> ChunkPcs]
      /\ chunk'[f][c] = "report"
      /\ \A d \in ChunksOf(f) : d # c => chunk'[f][d] = chunk[f][d]
      /\ \A g \in Files \ {f} : chunk'[g] = chunk[g]
  BY <1>1, ChunkMoves DEF ChunkPcs
<1>3. epilogue[f] = "none" /\ status[f] # "success" /\ ~Settled(f) /\ ~queue[f].closed
      /\ (Undisturbed(f) => ~cancelled[f])
  BY <1>1, NotAllDone
<1>4. Done(f)' = Done(f) /\ c \notin WithWriter(f) /\ c \in InFlight(f) /\ c >= writer[f].next
  <2>1. c \notin WithWriter(f) /\ ~(c < writer[f].next)
    BY <1>1 DEF DownloadInv, FileInv, QueueInv
  <2>2. c \in Nat /\ writer[f].next \in Nat
    BY Values DEF DownloadInv, ChunksOf
  <2> QED BY <1>1, <1>2, <2>1, <2>2 DEF Done, InFlight
<1>5. ChunksInv(f)'
  BY <1>1, <1>2, <1>4 DEF DownloadInv, FileInv, ChunksInv
<1>6. \A d \in ChunksOf(f) :
        chunk'[f][d] \in {"report", "done"} <=> d = c \/ chunk[f][d] \in {"report", "done"}
  BY <1>1, <1>2
<1>7. CASE queue' = [queue EXCEPT ![f].chunks = Append(@, c)]
           /\ UNCHANGED <<cancelled, status, ram, reserved>>
  <2>1. /\ queue' \in [Files -> [chunks : Seq(Nat), closed : BOOLEAN]]
        /\ queue'[f].closed = queue[f].closed
        /\ Queued(f)' = Queued(f) \cup {c}
        /\ \A i, j \in DOMAIN queue'[f].chunks :
              queue'[f].chunks[i] = queue'[f].chunks[j] => i = j
        /\ \A g \in Files \ {f} : queue'[g] = queue[g]
    BY <1>4, <1>7, QueueGets DEF Queued
  <2>2. WithWriter(f)' = WithWriter(f) \cup {c}
    BY <1>1, <2>1 DEF WithWriter
  <2>3. TypesOK'
    BY <1>1, <1>2, <1>7, <2>1 DEF DownloadInv, TypesOK, FileTypeOK
  <2>4. QueueInv(f)'
    BY <1>1, <1>2, <1>4, <1>6, <2>1, <2>2 DEF DownloadInv, FileInv, QueueInv, WithWriter
  <2>5. WriterInv(f)'
    <3>1. ~Settled(f)'
      BY <1>1, <1>2 DEF Settled, Done
    <3> QED BY <1>1, <1>3, <1>6, <1>7, <2>1, <2>2, <3>1 DEF DownloadInv, FileInv, WriterInv
  <2>6. DiskInv(f)'
    BY <1>1, <1>7 DEF DownloadInv, FileInv, DiskInv, Written, WholeUnderAName
  <2>7. RamMoves(f)
    <3>1. InFlight(f)' = InFlight(f) /\ (Undisturbed(f)' <=> Undisturbed(f))
      BY <1>1, <1>2, <1>7, <2>1 DEF InFlight, Undisturbed, Queued
    <3> QED BY <1>7, <3>1 DEF RamMoves
  <2>8. \A g \in Files \ {f} : SameFile(g)
    BY <1>1, <1>2, <1>7, <2>1 DEF SameFile
  <2> QED BY <1>5, <2>3, <2>4, <2>5, <2>6, <2>7, <2>8, StepOfAFile DEF FileInv
<1>8. CASE /\ ram' = ram - 1 /\ reserved' = [reserved EXCEPT ![f] = @ - 1]
           /\ FailActive(f) /\ UNCHANGED queue
  <2>1. /\ cancelled' \in [Files -> BOOLEAN] /\ cancelled'[f]
        /\ status' \in [Files -> {"started", "success", "failed", "cancelled"}]
        /\ status'[f] = "failed" \/ (cancelled[f] /\ status'[f] = status[f])
        /\ \A g \in Files \ {f} : cancelled'[g] = cancelled[g] /\ status'[g] = status[g]
    BY <1>8, FailActiveDoes
  <2>2. /\ ram' \in Int /\ reserved' \in [Files -> Int]
        /\ \A g \in Files \ {f} : reserved'[g] = reserved[g]
    BY <1>8 DEF DownloadInv, TypesOK
  <2>3. TypesOK'
    BY <1>1, <1>2, <1>8, <2>1, <2>2 DEF DownloadInv, TypesOK, FileTypeOK
  <2>4. QueueInv(f)'
    BY <1>1, <1>6, <1>8 DEF DownloadInv, FileInv, QueueInv, WithWriter, Queued
  <2>5. WriterInv(f)'
    BY <1>1, <1>3, <1>8, <2>1 DEF DownloadInv, FileInv, WriterInv, Early
  <2>6. DiskInv(f)'
    BY <1>1, <1>3, <1>8, <2>1 DEF DownloadInv, FileInv, DiskInv, Written, WholeUnderAName
  <2>7. RamMoves(f)
    BY <1>1, <1>3, <2>1, <2>2 DEF RamMoves, Undisturbed
  <2>8. \A g \in Files \ {f} : SameFile(g)
    BY <1>1, <1>2, <1>8, <2>1 DEF SameFile
  <2> QED BY <1>5, <2>3, <2>4, <2>5, <2>6, <2>7, <2>8, StepOfAFile DEF FileInv
<1> QED BY <1>7, <1>8 DEF EnqueueChunk

LEMMA ReportChunkDoneKeeps ==
  ASSUME DownloadInv, NEW f \in Files, NEW c \in ChunksOf(f), ReportChunkDone(f, c)
  PROVE  DownloadInv'
<1> DEFINE n == chunksDone[f] + 1
<1>1. /\ chunk[f][c] = "report" /\ chunk' = [chunk EXCEPT ![f][c] = "done"]
      /\ chunksDone' = [chunksDone EXCEPT ![f] = n]
      /\ epilogue' = [epilogue EXCEPT ![f] = IF n = NumChunks[f] THEN "start" ELSE @]
      /\ UNCHANGED <<cancelled, status, init, queue, writer, reserved, ram, disk>>
  BY DEF ReportChunkDone
<1>2. /\ DOMAIN chunk' = Files /\ chunk'[f] \in [ChunksOf(f) -> ChunkPcs]
      /\ chunk'[f][c] = "done"
      /\ \A d \in ChunksOf(f) : d # c => chunk'[f][d] = chunk[f][d]
      /\ \A g \in Files \ {f} : chunk'[g] = chunk[g]
  BY <1>1, ChunkMoves DEF ChunkPcs
<1>3. epilogue[f] = "none" /\ status[f] # "success" /\ ~Settled(f) /\ ~queue[f].closed
  BY <1>1, NotAllDone
<1>4. chunksDone[f] = Cardinality(Done(f)) /\ n \in Nat
  BY Values DEF DownloadInv, FileInv, ChunksInv
<1>5. n = Cardinality(Done(f)')
  <2>1. Done(f)' = Done(f) \cup {c} /\ c \notin Done(f)
    BY <1>1, <1>2 DEF Done
  <2>2. IsFiniteSet(Done(f))
    BY InFlightIsFinite DEF Done
  <2>3. Cardinality(Done(f) \cup {c}) = Cardinality(Done(f)) + 1
    BY <2>1, <2>2, FS_AddElement
  <2> QED BY <1>4, <2>1, <2>3
<1>6. n = NumChunks[f] <=> Done(f)' = ChunksOf(f)
  <2>1. IsFiniteSet(ChunksOf(f)) /\ Cardinality(ChunksOf(f)) = NumChunks[f]
    <3>1. NumChunks[f] \in Nat /\ NumChunks[f] # 0
      BY Values DEF DownloadInv
    <3>2. Cardinality(1..NumChunks[f]) = IF 1 > NumChunks[f] THEN 0 ELSE NumChunks[f] - 1 + 1
      BY <3>1, FS_Interval
    <3> QED BY <3>1, <3>2, InFlightIsFinite DEF ChunksOf
  <2>2. Done(f)' \subseteq ChunksOf(f)
    BY DEF Done
  <2> QED BY <1>5, <2>1, <2>2, FS_Subset
<1> HIDE DEF n
<1>7. /\ chunksDone' \in [Files -> Nat] /\ chunksDone'[f] = n
      /\ \A g \in Files \ {f} : chunksDone'[g] = chunksDone[g]
  BY <1>1, <1>4 DEF DownloadInv, TypesOK
<1>8. /\ epilogue' \in [Files -> Epilogues]
      /\ epilogue'[f] = IF n = NumChunks[f] THEN "start" ELSE "none"
      /\ \A g \in Files \ {f} : epilogue'[g] = epilogue[g]
  BY <1>1, <1>3 DEF DownloadInv, TypesOK, Epilogues, BeforeRename, Early
<1>9. TypesOK'
  BY <1>1, <1>2, <1>7, <1>8 DEF DownloadInv, TypesOK, FileTypeOK
<1>10. ChunksInv(f)'
  BY <1>1, <1>2, <1>5, <1>6, <1>7, <1>8 DEF DownloadInv, FileInv, ChunksInv
<1>11. \A d \in ChunksOf(f) :
         chunk'[f][d] \in {"report", "done"} <=> chunk[f][d] \in {"report", "done"}
  BY <1>1, <1>2
<1>12. WithWriter(f)' = WithWriter(f) /\ Queued(f)' = Queued(f)
  BY <1>1 DEF WithWriter, Queued
<1>13. QueueInv(f)'
  BY <1>1, <1>11, <1>12 DEF DownloadInv, FileInv, QueueInv
<1>14. WriterInv(f)'
  <2>1. ~cancelled[f] => writer[f].pc # "offer md5"
    BY <1>3 DEF DownloadInv, FileInv, WriterInv
  <2> QED BY <1>1, <1>3, <1>8, <1>11, <1>12, <2>1 DEF DownloadInv, FileInv, WriterInv, Early
<1>15. DiskInv(f)'
  BY <1>1, <1>3, <1>8 DEF DownloadInv, FileInv, DiskInv, Written, BeforeRename, Early
<1>16. RamMoves(f)
  <2>1. InFlight(f)' = InFlight(f)
    BY <1>1, <1>2 DEF InFlight
  <2>2. Undisturbed(f)' => Undisturbed(f)
    BY <1>1, <1>8 DEF Undisturbed
  <2> QED BY <1>1, <2>1, <2>2 DEF RamMoves
<1>17. \A g \in Files \ {f} : SameFile(g)
  BY <1>1, <1>2, <1>7, <1>8 DEF SameFile
<1> QED BY <1>9, <1>10, <1>13, <1>14, <1>15, <1>16, <1>17, StepOfAFile DEF FileInv

-----------------------------------------------------------------------------
(* The writer.                                                             *)

(* The writer's record after a step, whichever of its fields the step sets. *)
Writes(f, thePc, theUnsaved, theNext, theFailed) ==
    /\ writer' \in [Files -> WriterRecord]
    /\ writer'[f].pc = thePc /\ writer'[f].unsaved = theUnsaved
    /\ writer'[f].next = theNext /\ writer'[f].failed = theFailed
    /\ \A g \in Files \ {f} : writer'[g] = writer[g]

LEMMA WriterIs ==
  ASSUME DownloadInv, NEW f \in Files
  PROVE  /\ writer \in [Files -> WriterRecord]
         /\ writer[f].pc \in WriterPcs /\ writer[f].unsaved \in SUBSET Nat
         /\ writer[f].next \in Nat /\ writer[f].failed \in BOOLEAN
<1>1. writer \in [Files -> WriterRecord]
  BY DEF DownloadInv, TypesOK
<1> QED BY <1>1 DEF WriterRecord

LEMMA FieldsAreSet ==
  ASSUME NEW f \in Files, NEW w \in [Files -> WriterRecord]
  PROVE  /\ \A p \in WriterPcs : [w EXCEPT ![f].pc = p] \in [Files -> WriterRecord]
         /\ \A u \in SUBSET Nat : [w EXCEPT ![f].unsaved = u] \in [Files -> WriterRecord]
         /\ \A n \in Nat : [w EXCEPT ![f].next = n] \in [Files -> WriterRecord]
         /\ \A b \in BOOLEAN : [w EXCEPT ![f].failed = b] \in [Files -> WriterRecord]
<1>1. \A p \in WriterPcs : [w EXCEPT ![f].pc = p] \in [Files -> WriterRecord]
  BY DEF WriterRecord
<1>2. \A u \in SUBSET Nat : [w EXCEPT ![f].unsaved = u] \in [Files -> WriterRecord]
  BY DEF WriterRecord
<1>3. \A n \in Nat : [w EXCEPT ![f].next = n] \in [Files -> WriterRecord]
  BY DEF WriterRecord
<1>4. \A b \in BOOLEAN : [w EXCEPT ![f].failed = b] \in [Files -> WriterRecord]
  BY DEF WriterRecord
<1> QED BY <1>1, <1>2, <1>3, <1>4

LEMMA WritesPc ==
  ASSUME DownloadInv, NEW f \in Files, NEW p \in WriterPcs,
         writer' = [writer EXCEPT ![f].pc = p]
  PROVE  Writes(f, p, writer[f].unsaved, writer[f].next, writer[f].failed)
<1>1. writer \in [Files -> WriterRecord]
  BY WriterIs
<1>2. writer' \in [Files -> WriterRecord]
  BY <1>1, FieldsAreSet
<1>3. /\ writer'[f].pc = p /\ writer'[f].unsaved = writer[f].unsaved
      /\ writer'[f].next = writer[f].next /\ writer'[f].failed = writer[f].failed
      /\ \A g \in Files \ {f} : writer'[g] = writer[g]
  BY <1>1, Zenon DEF WriterRecord
<1> QED BY <1>2, <1>3 DEF Writes

LEMMA WritesPcUnsaved ==
  ASSUME DownloadInv, NEW f \in Files, NEW p \in WriterPcs, NEW u \in SUBSET Nat,
         writer' = [writer EXCEPT ![f].pc = p, ![f].unsaved = u]
  PROVE  Writes(f, p, u, writer[f].next, writer[f].failed)
<1> DEFINE w == [writer EXCEPT ![f].pc = p]
<1>1. writer \in [Files -> WriterRecord]
  BY WriterIs
<1>2. writer' = [w EXCEPT ![f].unsaved = u]
  BY <1>1, Zenon
<1>3. /\ writer'[f].pc = p /\ writer'[f].unsaved = u
      /\ writer'[f].next = writer[f].next /\ writer'[f].failed = writer[f].failed
      /\ \A g \in Files \ {f} : writer'[g] = writer[g]
  BY <1>1, Zenon DEF WriterRecord
<1>4. w \in [Files -> WriterRecord]
  BY <1>1, FieldsAreSet
<1> HIDE DEF w
<1>5. [w EXCEPT ![f].unsaved = u] \in [Files -> WriterRecord]
  BY <1>4, FieldsAreSet, Zenon
<1>6. writer' \in [Files -> WriterRecord]
  BY <1>2, <1>5, Zenon
<1> QED BY <1>3, <1>6 DEF Writes

LEMMA WritesPcFailed ==
  ASSUME DownloadInv, NEW f \in Files, NEW p \in WriterPcs, NEW b \in BOOLEAN,
         writer' = [writer EXCEPT ![f].pc = p, ![f].failed = b]
  PROVE  Writes(f, p, writer[f].unsaved, writer[f].next, b)
<1> DEFINE w == [writer EXCEPT ![f].pc = p]
<1>1. writer \in [Files -> WriterRecord]
  BY WriterIs
<1>2. writer' = [w EXCEPT ![f].failed = b]
  BY <1>1, Zenon
<1>3. /\ writer'[f].pc = p /\ writer'[f].unsaved = writer[f].unsaved
      /\ writer'[f].next = writer[f].next /\ writer'[f].failed = b
      /\ \A g \in Files \ {f} : writer'[g] = writer[g]
  BY <1>1, Zenon DEF WriterRecord
<1>4. w \in [Files -> WriterRecord]
  BY <1>1, FieldsAreSet
<1> HIDE DEF w
<1>5. [w EXCEPT ![f].failed = b] \in [Files -> WriterRecord]
  BY <1>4, FieldsAreSet, Zenon
<1>6. writer' \in [Files -> WriterRecord]
  BY <1>2, <1>5, Zenon
<1> QED BY <1>3, <1>6 DEF Writes

LEMMA WritesUnsavedNext ==
  ASSUME DownloadInv, NEW f \in Files, NEW u \in SUBSET Nat, NEW n \in Nat,
         writer' = [writer EXCEPT ![f].unsaved = u, ![f].next = n]
  PROVE  Writes(f, writer[f].pc, u, n, writer[f].failed)
<1> DEFINE w == [writer EXCEPT ![f].unsaved = u]
<1>1. writer \in [Files -> WriterRecord]
  BY WriterIs
<1>2. writer' = [w EXCEPT ![f].next = n]
  BY <1>1, Zenon
<1>3. /\ writer'[f].pc = writer[f].pc /\ writer'[f].unsaved = u
      /\ writer'[f].next = n /\ writer'[f].failed = writer[f].failed
      /\ \A g \in Files \ {f} : writer'[g] = writer[g]
  BY <1>1, Zenon DEF WriterRecord
<1>4. w \in [Files -> WriterRecord]
  BY <1>1, FieldsAreSet
<1> HIDE DEF w
<1>5. [w EXCEPT ![f].next = n] \in [Files -> WriterRecord]
  BY <1>4, FieldsAreSet, Zenon
<1>6. writer' \in [Files -> WriterRecord]
  BY <1>2, <1>5, Zenon
<1> QED BY <1>3, <1>6 DEF Writes

LEMMA WritesEach ==
  ASSUME DownloadInv, NEW f \in Files, NEW p \in WriterPcs, NEW u \in SUBSET Nat,
         NEW n \in Nat, NEW b \in BOOLEAN,
         writer' = [writer EXCEPT ![f].pc = p, ![f].failed = b, ![f].unsaved = u, ![f].next = n]
  PROVE  Writes(f, p, u, n, b)
<1> DEFINE w1 == [writer EXCEPT ![f].pc = p]
           w2 == [w1 EXCEPT ![f].failed = b]
           w3 == [w2 EXCEPT ![f].unsaved = u]
<1>1. writer \in [Files -> WriterRecord]
  BY WriterIs
<1>2. writer' = [w3 EXCEPT ![f].next = n]
  BY <1>1, Zenon
<1>3. /\ writer'[f].pc = p /\ writer'[f].unsaved = u
      /\ writer'[f].next = n /\ writer'[f].failed = b
  BY <1>1 DEF WriterRecord
<1>4. \A g \in Files \ {f} : writer'[g] = writer[g]
  BY <1>1 DEF WriterRecord
<1>5. w1 \in [Files -> WriterRecord]
  BY <1>1, FieldsAreSet
<1> HIDE DEF w1
<1>6. w2 \in [Files -> WriterRecord]
  BY <1>5, FieldsAreSet
<1> HIDE DEF w2
<1>7. w3 \in [Files -> WriterRecord]
  BY <1>6, FieldsAreSet
<1> HIDE DEF w3
<1>8. [w3 EXCEPT ![f].next = n] \in [Files -> WriterRecord]
  BY <1>7, FieldsAreSet, Zenon
<1>9. writer' \in [Files -> WriterRecord]
  BY <1>2, <1>8, Zenon
<1> QED BY <1>3, <1>4, <1>9 DEF Writes

LEMMA TakeChunkKeeps ==
  ASSUME DownloadInv, NEW f \in Files, TakeChunk(f)
  PROVE  DownloadInv'
<1> DEFINE q == queue[f].chunks
           c == Head(q)
<1>1. /\ writer[f].pc = "select" /\ q # << >>
      /\ writer' = [writer EXCEPT ![f].pc = "process", ![f].unsaved = @ \cup {c}]
      /\ queue' = [queue EXCEPT ![f].chunks = Tail(q)]
      /\ UNCHANGED <<cancelled, status, init, chunk, chunksDone, reserved, ram, epilogue, disk>>
  BY DEF TakeChunk
<1>2. q \in Seq(Nat)
  BY Values DEF DownloadInv
<1>3. /\ c = q[1] /\ 1 \in DOMAIN q /\ c \in Nat /\ Tail(q) \in Seq(Nat)
      /\ DOMAIN Tail(q) = 1..(Len(q) - 1) /\ Len(q) \in Nat
      /\ \A i \in DOMAIN Tail(q) : Tail(q)[i] = q[i + 1] /\ i + 1 \in DOMAIN q /\ i + 1 # 1
      /\ \A i \in DOMAIN q \ {1} : i - 1 \in DOMAIN Tail(q) /\ (i - 1) + 1 = i
  BY <1>1, <1>2, HeadTailProperties
<1>4. \A i, j \in DOMAIN q : q[i] = q[j] => i = j
  BY DEF DownloadInv, FileInv, QueueInv
<1>5. Range(Tail(q)) = Range(q) \ {c}
  <2>1. ASSUME NEW x \in Range(Tail(q)) PROVE x \in Range(q) /\ x # c
    <3>1. PICK i \in DOMAIN Tail(q) : x = Tail(q)[i]
      BY <2>1 DEF Range
    <3>2. x = q[i + 1] /\ i + 1 \in DOMAIN q /\ i + 1 # 1
      BY <1>3, <3>1
    <3> QED BY <1>3, <1>4, <3>2 DEF Range
  <2>2. ASSUME NEW x \in Range(q), x # c PROVE x \in Range(Tail(q))
    <3>1. PICK i \in DOMAIN q : x = q[i]
      BY <2>2 DEF Range
    <3>2. i \in DOMAIN q \ {1}
      BY <1>3, <2>2, <3>1
    <3>3. x = Tail(q)[i - 1] /\ i - 1 \in DOMAIN Tail(q)
      BY <1>3, <3>1, <3>2
    <3> QED BY <3>3, Zenon DEF Range
  <2> QED BY <2>1, <2>2
<1>6. \A i, j \in DOMAIN Tail(q) : Tail(q)[i] = Tail(q)[j] => i = j
  <2> SUFFICES ASSUME NEW i \in DOMAIN Tail(q), NEW j \in DOMAIN Tail(q), Tail(q)[i] = Tail(q)[j]
               PROVE  i = j
    OBVIOUS
  <2>1. i + 1 = j + 1
    BY <1>3, <1>4
  <2> QED BY <1>3, <2>1
<1>7. c \in Queued(f) /\ c \in ChunksOf(f)
  BY <1>3 DEF Queued, DownloadInv, FileInv, QueueInv, WithWriter, Range
<1> HIDE DEF c
<1>8. /\ queue' \in [Files -> [chunks : Seq(Nat), closed : BOOLEAN]]
      /\ queue'[f].closed = queue[f].closed /\ queue'[f].chunks = Tail(q)
      /\ \A g \in Files \ {f} : queue'[g] = queue[g]
  BY <1>1, <1>3, QueueBecomes
<1>9. Writes(f, "process", writer[f].unsaved \cup {c}, writer[f].next, writer[f].failed)
  <2> DEFINE u == writer[f].unsaved \cup {c}
  <2>1. u \in SUBSET Nat
    BY <1>3, Values DEF DownloadInv
  <2>2. writer' = [writer EXCEPT ![f].pc = "process", ![f].unsaved = u]
    BY <1>1
  <2> HIDE DEF u
  <2>3. Writes(f, "process", u, writer[f].next, writer[f].failed)
    BY <2>1, <2>2, WritesPcUnsaved DEF WriterPcs
  <2> QED BY <2>3 DEF u
<1>10. TypesOK'
  BY <1>1, <1>8, <1>9 DEF DownloadInv, TypesOK, FileTypeOK, Writes
<1>11. WithWriter(f)' = WithWriter(f) /\ Queued(f)' = Queued(f) \ {c}
  BY <1>5, <1>7, <1>8, <1>9 DEF WithWriter, Queued, Writes
<1>12. ChunksInv(f)'
  BY <1>1 DEF DownloadInv, FileInv, ChunksInv, Done
<1>13. QueueInv(f)'
  BY <1>1, <1>6, <1>8, <1>9, <1>11 DEF DownloadInv, FileInv, QueueInv, Writes
<1>14. WriterInv(f)'
  <2>1. ~Settled(f) /\ epilogue[f] \in Early
    BY <1>1 DEF Settled, DownloadInv, FileInv, WriterInv
  <2>2. status[f] # "success" /\ epilogue[f] # "succeed"
    BY <2>1 DEF DownloadInv, FileInv, WriterInv
  <2>3. ~writer[f].failed
    BY <1>1 DEF DownloadInv, FileInv, WriterInv
  <2>4. writer'[f].pc = "process" /\ ~writer'[f].failed /\ writer'[f].next = writer[f].next
    BY <1>9, <2>3 DEF Writes
  <2>5. ~cancelled'[f] => \A d \in ChunksOf(f) : chunk'[f][d] \in {"report", "done"} =>
             d < writer'[f].next \/ d \in WithWriter(f)'
    BY <1>1, <1>11, <2>4 DEF DownloadInv, FileInv, WriterInv
  <2>6. queue'[f].closed => epilogue'[f] \notin {"none", "start"}
    BY <1>1, <1>8 DEF DownloadInv, FileInv, WriterInv
  <2> QED BY <1>1, <2>1, <2>2, <2>4, <2>5, <2>6 DEF WriterInv, Early
<1>15. DiskInv(f)'
  BY <1>1, <1>9 DEF DownloadInv, FileInv, DiskInv, Written, Writes, WholeUnderAName
<1>16. RamMoves(f)
  <2>1. InFlight(f)' = InFlight(f) /\ (Undisturbed(f)' <=> Undisturbed(f))
    BY <1>1, <1>11 DEF InFlight, Undisturbed, WithWriter, Queued
  <2> QED BY <1>1, <2>1 DEF RamMoves
<1>17. \A g \in Files \ {f} : SameFile(g)
  BY <1>1, <1>8, <1>9 DEF SameFile, Writes
<1> QED BY <1>10, <1>12, <1>13, <1>14, <1>15, <1>16, <1>17, StepOfAFile DEF FileInv

(* The parts of the invariant that a step leaves alone.                    *)
LEMMA ChunksStay ==
  ASSUME NEW f \in Files, FileInv(f), chunk'[f] = chunk[f], init'[f] = init[f],
         chunksDone'[f] = chunksDone[f], epilogue'[f] = "none" <=> epilogue[f] = "none"
  PROVE  ChunksInv(f)'
<1>1. Done(f)' = Done(f)
  BY DEF Done
<1> QED BY <1>1 DEF FileInv, ChunksInv

LEMMA QueueStays ==
  ASSUME NEW f \in Files, FileInv(f), chunk'[f] = chunk[f], queue'[f].chunks = queue[f].chunks,
         writer'[f].unsaved = writer[f].unsaved, writer'[f].next = writer[f].next
  PROVE  QueueInv(f)' /\ Queued(f)' = Queued(f) /\ WithWriter(f)' = WithWriter(f)
<1>1. Queued(f)' = Queued(f) /\ WithWriter(f)' = WithWriter(f)
  BY DEF Queued, WithWriter
<1> QED BY <1>1 DEF FileInv, QueueInv

LEMMA DiskStays ==
  ASSUME NEW f \in Files, FileInv(f), cancelled'[f] = cancelled[f], status'[f] = status[f],
         epilogue'[f] = epilogue[f], disk'[f] = disk[f],
         writer'[f].next = writer[f].next, writer[f].failed => writer'[f].failed
  PROVE  DiskInv(f)'
  BY DEF FileInv, DiskInv, Written, WholeUnderAName

LEMMA InFlightStays ==
  ASSUME NEW f \in Files, chunk'[f] = chunk[f], WithWriter(f)' = WithWriter(f)
  PROVE  InFlight(f)' = InFlight(f)
  BY DEF InFlight, WithWriter, Queued

(* A writer that still selects or processes has not failed, and the file   *)
(* is not yet flushed.                                                     *)
LEMMA WriterAtWork ==
  ASSUME DownloadInv, NEW f \in Files, writer[f].pc \in {"select", "process", "offer md5"}
  PROVE  /\ ~writer[f].failed /\ epilogue[f] \in Early /\ status[f] # "success"
<1>1. ~writer[f].failed /\ epilogue[f] \in Early
  BY DEF DownloadInv, FileInv, WriterInv
<1>2. status[f] # "success"
  BY <1>1 DEF DownloadInv, FileInv, DiskInv, Early
<1> QED BY <1>1, <1>2

LEMMA SeeClosedKeeps ==
  ASSUME DownloadInv, NEW f \in Files, SeeClosed(f)
  PROVE  DownloadInv'
<1>1. /\ writer[f].pc = "select" /\ queue[f].closed /\ queue[f].chunks = << >>
      /\ writer' = [writer EXCEPT ![f].pc = "offer md5"]
      /\ UNCHANGED <<cancelled, status, init, chunk, chunksDone, queue, reserved, ram, epilogue, disk>>
  BY DEF SeeClosed
<1>2. Writes(f, "offer md5", writer[f].unsaved, writer[f].next, writer[f].failed)
  BY <1>1, WritesPc DEF WriterPcs
<1>3. ~writer[f].failed /\ epilogue[f] \in Early /\ status[f] # "success"
  BY <1>1, WriterAtWork
<1>4. TypesOK'
  BY <1>1, <1>2 DEF DownloadInv, TypesOK, FileTypeOK, Writes
<1>5. QueueInv(f)' /\ WithWriter(f)' = WithWriter(f) /\ Queued(f)' = Queued(f)
  BY <1>1, <1>2, QueueStays DEF DownloadInv, Writes
<1>6. ChunksInv(f)'
  BY <1>1, ChunksStay DEF DownloadInv
<1>8. Done(f) = ChunksOf(f)
  BY <1>1 DEF DownloadInv, FileInv, WriterInv, ChunksInv
<1>9. ASSUME ~cancelled[f]
      PROVE  writer[f].unsaved = {} /\ writer[f].next = NumChunks[f] + 1
  <2> DEFINE n == writer[f].next
             m == NumChunks[f]
  <2>1. n \in Nat /\ m \in Nat /\ n \in 1..(m + 1)
    BY Values DEF DownloadInv, FileInv, QueueInv
  <2>2. \A c \in ChunksOf(f) : c < n \/ c \in writer[f].unsaved
    <3>1. Queued(f) = {}
      <4>1. \A x : x \notin Range(queue[f].chunks)
        <5>1. DOMAIN << >> = {}
          OBVIOUS
        <5> QED BY <1>1, <5>1 DEF Range
      <4> QED BY <4>1 DEF Queued
    <3>2. \A c \in ChunksOf(f) : chunk[f][c] = "done"
      BY <1>8 DEF Done
    <3> QED BY <1>1, <1>9, <3>1, <3>2 DEF DownloadInv, FileInv, WriterInv, WithWriter
  <2>3. n \notin writer[f].unsaved
    BY <1>1, <1>9 DEF DownloadInv, FileInv, WriterInv
  <2>4. n = m + 1
    BY <2>1, <2>2, <2>3 DEF ChunksOf
  <2>5. \A c \in writer[f].unsaved : c \in ChunksOf(f) /\ c >= n
    BY DEF DownloadInv, FileInv, QueueInv, WithWriter
  <2>6. writer[f].unsaved = {}
    BY <2>1, <2>4, <2>5 DEF ChunksOf
  <2> QED BY <2>4, <2>6
<1>10. ~cancelled[f] => Settled(f)'
  BY <1>1, <1>2, <1>3, <1>8, <1>9 DEF Settled, Done, Writes
<1>11. WriterInv(f)'
  <2>1. ~writer'[f].failed /\ writer'[f].pc = "offer md5" /\ writer'[f].next = writer[f].next
    BY <1>2, <1>3 DEF Writes
  <2>2. epilogue[f] # "succeed"
    BY <1>3 DEF Early
  <2>3. ~cancelled[f] => \A c \in ChunksOf(f) : chunk[f][c] \in {"report", "done"} =>
             c < writer[f].next \/ c \in WithWriter(f)
    BY <1>1 DEF DownloadInv, FileInv, WriterInv
  <2>4. queue[f].closed => epilogue[f] \notin {"none", "start"}
    BY DEF DownloadInv, FileInv, WriterInv
  <2> QED BY <1>1, <1>3, <1>5, <1>10, <2>1, <2>2, <2>3, <2>4 DEF WriterInv
<1>12. DiskInv(f)'
  BY <1>1, <1>2, DiskStays DEF DownloadInv, Writes
<1>13. RamMoves(f)
  <2>1. InFlight(f)' = InFlight(f) /\ (Undisturbed(f)' <=> Undisturbed(f))
    BY <1>1, <1>5, InFlightStays DEF Undisturbed
  <2> QED BY <1>1, <2>1 DEF RamMoves
<1>14. \A g \in Files \ {f} : SameFile(g)
  BY <1>1, <1>2 DEF SameFile, Writes
<1> QED BY <1>4, <1>5, <1>6, <1>11, <1>12, <1>13, <1>14, StepOfAFile DEF FileInv

LEMMA SeeCancelledKeeps ==
  ASSUME DownloadInv, NEW f \in Files, SeeCancelled(f)
  PROVE  DownloadInv'
<1>1. /\ writer[f].pc = "select" /\ cancelled[f]
      /\ writer' = [writer EXCEPT ![f].pc = "clean up", ![f].failed = TRUE]
      /\ UNCHANGED <<cancelled, status, init, chunk, chunksDone, queue, reserved, ram, epilogue, disk>>
  BY DEF SeeCancelled
<1>2. Writes(f, "clean up", writer[f].unsaved, writer[f].next, TRUE)
  BY <1>1, WritesPcFailed DEF WriterPcs
<1>3. ~writer[f].failed /\ epilogue[f] \in Early /\ status[f] # "success"
  BY <1>1, WriterAtWork
<1>4. TypesOK'
  BY <1>1, <1>2 DEF DownloadInv, TypesOK, FileTypeOK, Writes
<1>5. QueueInv(f)' /\ WithWriter(f)' = WithWriter(f) /\ Queued(f)' = Queued(f)
  BY <1>1, <1>2, QueueStays DEF DownloadInv, Writes
<1>6. ChunksInv(f)'
  BY <1>1, ChunksStay DEF DownloadInv
<1>8. WriterInv(f)'
  <2>1. writer'[f].pc = "clean up"
    BY <1>2 DEF Writes
  <2>2. queue[f].closed => epilogue[f] \notin {"none", "start"}
    BY DEF DownloadInv, FileInv, WriterInv
  <2> QED BY <1>1, <1>3, <2>1, <2>2 DEF WriterInv, Early
<1>9. DiskInv(f)'
  BY <1>1, <1>2, DiskStays DEF DownloadInv, Writes
<1>10. RamMoves(f)
  <2>1. ~Undisturbed(f)'
    BY <1>1, <1>3 DEF Undisturbed, Early
  <2> QED BY <1>1, <2>1 DEF RamMoves
<1>11. \A g \in Files \ {f} : SameFile(g)
  BY <1>1, <1>2 DEF SameFile, Writes
<1> QED BY <1>4, <1>5, <1>6, <1>8, <1>9, <1>10, <1>11, StepOfAFile DEF FileInv

(* The writer saves the next chunk, or fails to: the chunk is with it no    *)
(* longer.                                                                  *)
LEMMA NextIsSaved ==
  ASSUME DownloadInv, NEW f \in Files, NEW n, n = writer[f].next + 1,
         writer[f].next \in writer[f].unsaved,
         UNCHANGED <<chunk, queue>>,
         writer'[f].unsaved = writer[f].unsaved \ {writer[f].next}, writer'[f].next = n
  PROVE  /\ QueueInv(f)'
         /\ WithWriter(f)' = WithWriter(f) \ {writer[f].next}
         /\ writer[f].next \in InFlight(f)
         /\ InFlight(f)' = InFlight(f) \ {writer[f].next}
         /\ n \in Nat /\ \A c \in ChunksOf(f) : c < n <=> (c < writer[f].next \/ c = writer[f].next)
<1> DEFINE o == writer[f].next
<1>1. /\ WithWriter(f) \subseteq ChunksOf(f)
      /\ \A c \in WithWriter(f) : chunk[f][c] \in {"report", "done"} /\ c >= o
      /\ \A i, j \in DOMAIN queue[f].chunks : queue[f].chunks[i] = queue[f].chunks[j] => i = j
      /\ Queued(f) \cap writer[f].unsaved = {}
      /\ \A c \in ChunksOf(f) : c < o => chunk[f][c] \in {"report", "done"}
  BY DEF DownloadInv, FileInv, QueueInv
<1>2. o \in Nat /\ NumChunks[f] \in Nat /\ o \in WithWriter(f) /\ o \notin Queued(f)
  BY <1>1, Values DEF DownloadInv, WithWriter
<1>3. o \in ChunksOf(f) /\ chunk[f][o] \in {"report", "done"}
  BY <1>1, <1>2
<1>4. /\ n \in Nat /\ n \in 1..(NumChunks[f] + 1)
      /\ \A c \in ChunksOf(f) : c < n <=> (c < o \/ c = o)
      /\ \A c \in ChunksOf(f) : c >= o /\ c # o => c >= n
  BY <1>2, <1>3 DEF ChunksOf
<1>5. Queued(f)' = Queued(f) /\ WithWriter(f)' = WithWriter(f) \ {o}
  <2>1. Queued(f)' = Queued(f)
    BY DEF Queued
  <2> QED BY <1>2, <2>1 DEF WithWriter
<1> HIDE DEF o
<1>6. \A c \in WithWriter(f)' : chunk'[f][c] \in {"report", "done"} /\ c >= n
  BY <1>1, <1>4, <1>5
<1>7. \A c \in ChunksOf(f) : c < n => chunk'[f][c] \in {"report", "done"}
  BY <1>1, <1>3, <1>4
<1>8. QueueInv(f)'
  BY <1>1, <1>4, <1>5, <1>6, <1>7 DEF QueueInv
<1>9. o \in InFlight(f) /\ InFlight(f)' = InFlight(f) \ {o}
  BY <1>2, <1>3, <1>5 DEF InFlight, WithWriter, Queued
<1> QED BY <1>4, <1>5, <1>8, <1>9 DEF o

(* Some RAM is given back.                                                 *)
LEMMA RamIsGivenBack ==
  ASSUME DownloadInv, NEW f \in Files, NEW k \in Nat, ram' = ram - k,
         reserved' = [reserved EXCEPT ![f] = @ - k]
  PROVE  /\ ram' \in Int /\ reserved' \in [Files -> Int] /\ reserved'[f] = reserved[f] - k
         /\ \A g \in Files \ {f} : reserved'[g] = reserved[g]
  BY DEF DownloadInv, TypesOK

LEMMA SaveNextKeeps ==
  ASSUME DownloadInv, NEW f \in Files, SaveNext(f)
  PROVE  DownloadInv'
<1> DEFINE o == writer[f].next
           n == o + 1
           u == writer[f].unsaved \ {o}
<1>1. /\ writer[f].pc = "process"
      /\ UNCHANGED <<cancelled, status, init, chunk, chunksDone, queue, epilogue>>
  BY DEF SaveNext
<1>2. ~writer[f].failed /\ epilogue[f] \in Early /\ status[f] # "success"
  BY <1>1, WriterAtWork
<1>3. ChunksInv(f)'
  BY <1>1, ChunksStay DEF DownloadInv
<1>4. o \in Nat /\ n \in Nat /\ u \in SUBSET Nat
  BY WriterIs
<1>5. queue[f].closed => epilogue[f] \notin {"none", "start"}
  BY DEF DownloadInv, FileInv, WriterInv
<1>6. CASE /\ cancelled[f] \/ o \notin writer[f].unsaved
           /\ writer' = [writer EXCEPT ![f].pc = "select"]
           /\ UNCHANGED <<reserved, ram, disk>>
  <2>1. Writes(f, "select", writer[f].unsaved, writer[f].next, writer[f].failed)
    BY <1>6, WritesPc DEF WriterPcs
  <2>2. TypesOK'
    BY <1>1, <1>6, <2>1 DEF DownloadInv, TypesOK, FileTypeOK, Writes
  <2>3. QueueInv(f)' /\ WithWriter(f)' = WithWriter(f)
    BY <1>1, <2>1, QueueStays DEF DownloadInv, Writes
  <2>4. WriterInv(f)'
    <3>1. /\ ~writer'[f].failed /\ writer'[f].pc = "select" /\ writer'[f].next = o
          /\ writer'[f].unsaved = writer[f].unsaved
      BY <1>2, <2>1 DEF Writes
    <3>2. ~cancelled[f] => \A c \in ChunksOf(f) : chunk[f][c] \in {"report", "done"} =>
               c < o \/ c \in WithWriter(f)
      BY <1>1 DEF DownloadInv, FileInv, WriterInv
    <3> QED BY <1>1, <1>2, <1>5, <1>6, <2>3, <3>1, <3>2 DEF WriterInv, Early
  <2>5. DiskInv(f)'
    BY <1>1, <1>6, <2>1, DiskStays DEF DownloadInv, Writes
  <2>6. RamMoves(f)
    <3>1. InFlight(f)' = InFlight(f) /\ (Undisturbed(f)' <=> Undisturbed(f))
      BY <1>1, <2>3, InFlightStays DEF Undisturbed
    <3> QED BY <1>6, <3>1 DEF RamMoves
  <2>7. \A g \in Files \ {f} : SameFile(g)
    BY <1>1, <1>6, <2>1 DEF SameFile, Writes
  <2> QED BY <1>3, <2>2, <2>3, <2>4, <2>5, <2>6, <2>7, StepOfAFile DEF FileInv
<1>7. ASSUME ~cancelled[f], o \in writer[f].unsaved,
             reserved' = [reserved EXCEPT ![f] = @ - 1], ram' = ram - 1,
             NEW pc \in WriterPcs, NEW failed \in BOOLEAN,
             Writes(f, pc, u, n, failed),
             disk' \in [Files -> DiskRecord],
             \A g \in Files \ {f} : disk'[g] = disk[g],
             failed => pc = "clean up", ~failed => pc = "process",
             DiskInv(f)'
      PROVE  DownloadInv'
  <2>1. /\ writer'[f].unsaved = u /\ writer'[f].next = n
        /\ writer'[f].pc = pc /\ writer'[f].failed = failed
    BY <1>7 DEF Writes
  <2>2. /\ QueueInv(f)' /\ WithWriter(f)' = WithWriter(f) \ {o}
        /\ o \in InFlight(f) /\ InFlight(f)' = InFlight(f) \ {o}
        /\ \A c \in ChunksOf(f) : c < n <=> (c < o \/ c = o)
    BY <1>1, <1>7, <2>1, NextIsSaved
  <2>3. /\ ram' \in Int /\ reserved' \in [Files -> Int] /\ reserved'[f] = reserved[f] - 1
        /\ \A g \in Files \ {f} : reserved'[g] = reserved[g]
    BY <1>7, RamIsGivenBack
  <2>4. TypesOK'
    BY <1>1, <1>7, <2>3 DEF DownloadInv, TypesOK, FileTypeOK, Writes
  <2>5. WriterInv(f)'
    <3>1. \A c \in ChunksOf(f) : chunk[f][c] \in {"report", "done"} =>
               c < o \/ c \in WithWriter(f)
      BY <1>1, <1>7 DEF DownloadInv, FileInv, WriterInv
    <3> HIDE DEF n, o
    <3>2. \A c \in ChunksOf(f) : chunk'[f][c] \in {"report", "done"} =>
               c < n \/ c \in WithWriter(f)'
      BY <1>1, <2>2, <3>1
    <3> QED BY <1>1, <1>2, <1>5, <1>7, <2>1, <3>2 DEF WriterInv, Early
  <2>6. RamMoves(f)
    <3>1. o \in ChunksOf(f) /\ (Undisturbed(f)' <=> Undisturbed(f))
      BY <1>1, <2>2 DEF Undisturbed, InFlight
    <3> QED BY <1>7, <2>2, <2>3, <3>1 DEF RamMoves
  <2>7. \A g \in Files \ {f} : SameFile(g)
    BY <1>1, <1>7 DEF SameFile, Writes
  <2> QED BY <1>3, <1>7, <2>2, <2>4, <2>5, <2>6, <2>7, StepOfAFile DEF FileInv
<1>8. CASE /\ ~cancelled[f] /\ o \in writer[f].unsaved
           /\ reserved' = [reserved EXCEPT ![f] = @ - 1] /\ ram' = ram - 1
           /\ disk' = IF TempPath THEN [disk EXCEPT ![f].temp = o]
                      ELSE [disk EXCEPT ![f].final = o]
           /\ writer' = [writer EXCEPT ![f].unsaved = u, ![f].next = n]
  <2>1. Writes(f, writer[f].pc, u, n, writer[f].failed)
    <3> HIDE DEF u, n
    <3> QED BY <1>4, <1>8, WritesUnsavedNext
  <2>2. /\ disk' \in [Files -> DiskRecord]
        /\ \A g \in Files \ {f} : disk'[g] = disk[g]
        /\ TempPath => disk'[f].temp = o /\ disk'[f].final = disk[f].final
        /\ ~TempPath => disk'[f].final = o /\ disk'[f].temp = disk[f].temp
        /\ disk'[f].logged = disk[f].logged
    <3>1. disk \in [Files -> DiskRecord]
      BY DEF DownloadInv, TypesOK
    <3> HIDE DEF o
    <3>2. CASE TempPath
      <4>1. disk' = [disk EXCEPT ![f].temp = o]
        BY <1>8, <3>2
      <4> QED BY <1>4, <3>1, <3>2, <4>1 DEF DiskRecord
    <3>3. CASE ~TempPath
      <4>1. disk' = [disk EXCEPT ![f].final = o]
        BY <1>8, <3>3
      <4> QED BY <1>4, <3>1, <3>3, <4>1 DEF DiskRecord
    <3> QED BY <3>2, <3>3
  <2>3. DiskInv(f)'
    <3>1. Written(f)' = writer'[f].next - 1 /\ ~writer'[f].failed
      BY <1>2, <1>4, <2>1, <2>2 DEF Written, Writes
    <3>2. /\ ~TempPath => disk'[f].temp = 0
          /\ TempPath => disk'[f].final = 0
          /\ disk'[f].logged = "none"
      BY <1>2, <2>2 DEF DownloadInv, FileInv, DiskInv, BeforeRename
    <3>3. status[f] \in {"failed", "cancelled"} => cancelled[f]
      BY DEF DownloadInv, FileInv, DiskInv
    <3> QED BY <1>1, <1>2, <3>1, <3>2, <3>3 DEF DiskInv, Early
  <2> QED BY <1>1, <1>2, <1>7, <1>8, <2>1, <2>2, <2>3, WriterIs
<1>9. CASE /\ ~cancelled[f] /\ o \in writer[f].unsaved
           /\ reserved' = [reserved EXCEPT ![f] = @ - 1] /\ ram' = ram - 1
           /\ writer' = [writer EXCEPT ![f].pc = "clean up", ![f].failed = TRUE,
                                       ![f].unsaved = u, ![f].next = n]
           /\ UNCHANGED disk
  <2>1. Writes(f, "clean up", u, n, TRUE)
    <3> HIDE DEF u, n
    <3> QED BY <1>4, <1>9, WritesEach DEF WriterPcs
  <2>2. disk' \in [Files -> DiskRecord]
    BY <1>9 DEF DownloadInv, TypesOK
  <2>3. DiskInv(f)'
    <3>1. writer'[f].failed
      BY <2>1 DEF Writes
    <3> QED BY <1>1, <1>9, <3>1 DEF DownloadInv, FileInv, DiskInv, Written, WholeUnderAName
  <2> QED BY <1>7, <1>9, <2>1, <2>2, <2>3 DEF WriterPcs
<1>10. \/ /\ cancelled[f] \/ o \notin writer[f].unsaved
          /\ writer' = [writer EXCEPT ![f].pc = "select"]
          /\ UNCHANGED <<reserved, ram, disk>>
       \/ /\ ~cancelled[f] /\ o \in writer[f].unsaved
          /\ reserved' = [reserved EXCEPT ![f] = @ - 1] /\ ram' = ram - 1
          /\ \/ /\ disk' = IF TempPath THEN [disk EXCEPT ![f].temp = o]
                           ELSE [disk EXCEPT ![f].final = o]
                /\ writer' = [writer EXCEPT ![f].unsaved = u, ![f].next = n]
             \/ /\ writer' = [writer EXCEPT ![f].pc = "clean up", ![f].failed = TRUE,
                                            ![f].unsaved = u, ![f].next = n]
                /\ UNCHANGED disk
  BY Zenon DEF SaveNext
<1> HIDE DEF o, n, u
<1> QED BY <1>6, <1>8, <1>9, <1>10

LEMMA WriterCleansUpKeeps ==
  ASSUME DownloadInv, NEW f \in Files, WriterCleansUp(f)
  PROVE  DownloadInv'
<1> DEFINE S == writer[f].unsaved
           k == Cardinality(S)
<1>1. /\ writer[f].pc = "clean up"
      /\ ram' = ram - k /\ reserved' = [reserved EXCEPT ![f] = @ - k]
      /\ writer' = [writer EXCEPT ![f].pc = "gone", ![f].unsaved = {}]
      /\ UNCHANGED <<cancelled, status, init, chunk, chunksDone, queue, epilogue, disk>>
  BY DEF WriterCleansUp
<1>2. /\ WithWriter(f) \subseteq ChunksOf(f)
      /\ \A c \in WithWriter(f) : chunk[f][c] \in {"report", "done"} /\ c >= writer[f].next
      /\ Queued(f) \cap S = {}
  BY DEF DownloadInv, FileInv, QueueInv
<1>3. k \in Nat
  BY <1>2, InFlightIsFinite DEF WithWriter
<1>4. Writes(f, "gone", {}, writer[f].next, writer[f].failed)
  BY <1>1, WritesPcUnsaved DEF WriterPcs
<1>5. /\ writer'[f].pc = "gone" /\ writer'[f].unsaved = {}
      /\ writer'[f].next = writer[f].next /\ writer'[f].failed = writer[f].failed
  BY <1>4 DEF Writes
<1>6. Queued(f)' = Queued(f) /\ WithWriter(f)' = Queued(f)
  BY <1>1, <1>5 DEF Queued, WithWriter
<1>7. S \subseteq InFlight(f) /\ InFlight(f)' = InFlight(f) \ S
  BY <1>1, <1>2, <1>5, <1>6 DEF InFlight, WithWriter, Queued
<1> HIDE DEF k
<1>8. /\ ram' \in Int /\ reserved' \in [Files -> Int] /\ reserved'[f] = reserved[f] - k
      /\ \A g \in Files \ {f} : reserved'[g] = reserved[g]
  BY <1>1, <1>3, RamIsGivenBack
<1>9. TypesOK'
  BY <1>1, <1>4, <1>8 DEF DownloadInv, TypesOK, FileTypeOK, Writes
<1>10. ChunksInv(f)'
  BY <1>1, ChunksStay DEF DownloadInv
<1>11. QueueInv(f)'
  BY <1>1, <1>5, <1>6 DEF DownloadInv, FileInv, QueueInv, WithWriter
<1>12. WriterInv(f)'
  <2>1. Settled(f) => Settled(f)'
    BY <1>1, <1>5 DEF Settled, Done
  <2> QED BY <1>1, <1>5, <2>1 DEF DownloadInv, FileInv, WriterInv
<1>13. DiskInv(f)'
  BY <1>1, <1>5, DiskStays DEF DownloadInv
<1>14. RamMoves(f)
  <2>1. Undisturbed(f)' <=> Undisturbed(f)
    BY <1>1 DEF Undisturbed
  <2> QED BY <1>1, <1>7, <1>8, <2>1 DEF RamMoves, k
<1>15. \A g \in Files \ {f} : SameFile(g)
  BY <1>1, <1>4 DEF SameFile, Writes
<1> QED BY <1>9, <1>10, <1>11, <1>12, <1>13, <1>14, <1>15, StepOfAFile DEF FileInv

-----------------------------------------------------------------------------
(* The epilogue.                                                           *)

(* The epilogue goes on to pc; what TypesOK and the other files need.      *)
LEMMA EpilogueGoes ==
  ASSUME DownloadInv, NEW f \in Files, NEW pc \in Epilogues, To(f, pc)
  PROVE  /\ epilogue' \in [Files -> Epilogues] /\ epilogue'[f] = pc
         /\ \A g \in Files \ {f} : epilogue'[g] = epilogue[g]
  BY DEF To, DownloadInv, TypesOK

LEMMA EpilogueStartsKeeps ==
  ASSUME DownloadInv, NEW f \in Files, EpilogueStarts(f)
  PROVE  DownloadInv'
<1> DEFINE s == IF cancelled[f] /\ status[f] = "started" THEN "cancelled" ELSE status[f]
<1>1. /\ epilogue[f] = "start" /\ To(f, "flush")
      /\ status' = [status EXCEPT ![f] = s]
      /\ queue' = [queue EXCEPT ![f].closed = TRUE]
      /\ UNCHANGED <<cancelled, init, chunk, chunksDone, writer, reserved, ram, disk>>
  BY DEF EpilogueStarts
<1>2. /\ epilogue' \in [Files -> Epilogues] /\ epilogue'[f] = "flush"
      /\ \A g \in Files \ {f} : epilogue'[g] = epilogue[g]
  BY <1>1, EpilogueGoes DEF Epilogues, BeforeRename, Early
<1>3. status[f] # "success" /\ (status[f] \in {"failed", "cancelled"} => cancelled[f])
  BY <1>1 DEF DownloadInv, FileInv, DiskInv
<1>4. /\ status' \in [Files -> {"started", "success", "failed", "cancelled"}]
      /\ \A g \in Files \ {f} : status'[g] = status[g]
      /\ status'[f] # "success" /\ (status'[f] \in {"failed", "cancelled"} => cancelled[f])
  BY <1>1, <1>3 DEF DownloadInv, TypesOK
<1>5. /\ queue' \in [Files -> [chunks : Seq(Nat), closed : BOOLEAN]]
      /\ queue'[f].chunks = queue[f].chunks
      /\ \A g \in Files \ {f} : queue'[g] = queue[g]
  BY <1>1 DEF DownloadInv, TypesOK
<1>6. TypesOK'
  BY <1>1, <1>2, <1>4, <1>5 DEF DownloadInv, TypesOK, FileTypeOK
<1>7. ChunksInv(f)'
  BY <1>1, <1>2, ChunksStay DEF DownloadInv
<1>8. QueueInv(f)' /\ Queued(f)' = Queued(f) /\ WithWriter(f)' = WithWriter(f)
  BY <1>1, <1>5, QueueStays DEF DownloadInv
<1>9. WriterInv(f)'
  <2>1. Settled(f)' <=> Settled(f)
    BY <1>1, <1>5 DEF Settled, Done
  <2>2. /\ epilogue'[f] = "flush" /\ status'[f] # "success" /\ status[f] # "success"
        /\ epilogue'[f] \notin {"none", "start", "succeed"} /\ epilogue'[f] \in Early
    BY <1>2, <1>3, <1>4 DEF Early
  <2>3. WriterInv(f) /\ chunk' = chunk /\ writer' = writer /\ cancelled' = cancelled
    BY <1>1 DEF DownloadInv, FileInv
  <2> QED BY <1>8, <2>1, <2>2, <2>3 DEF WriterInv
<1>10. DiskInv(f)'
  BY <1>1, <1>2, <1>4 DEF DownloadInv, FileInv, DiskInv, Written, BeforeRename, Early
<1>11. RamMoves(f)
  <2>1. InFlight(f)' = InFlight(f)
    BY <1>1, <1>8, InFlightStays
  <2>2. Undisturbed(f)' => Undisturbed(f)
    BY <1>1, <1>2, <1>4 DEF Undisturbed
  <2> QED BY <1>1, <2>1, <2>2 DEF RamMoves
<1>12. \A g \in Files \ {f} : SameFile(g)
  BY <1>1, <1>2, <1>4, <1>5 DEF SameFile
<1> QED BY <1>6, <1>7, <1>8, <1>9, <1>10, <1>11, <1>12, StepOfAFile DEF FileInv

LEMMA FlushSucceedsKeeps ==
  ASSUME DownloadInv, NEW f \in Files, FlushSucceeds(f)
  PROVE  DownloadInv'
<1>1. /\ epilogue[f] = "flush" /\ writer[f].pc = "offer md5" /\ To(f, "flushed")
      /\ writer' = [writer EXCEPT ![f].pc = "clean up"]
      /\ UNCHANGED <<cancelled, status, init, chunk, chunksDone, queue, reserved, ram, disk>>
  BY DEF FlushSucceeds
<1>2. /\ epilogue' \in [Files -> Epilogues] /\ epilogue'[f] = "flushed"
      /\ \A g \in Files \ {f} : epilogue'[g] = epilogue[g]
  BY <1>1, EpilogueGoes DEF Epilogues, BeforeRename
<1>3. Writes(f, "clean up", writer[f].unsaved, writer[f].next, writer[f].failed)
  BY <1>1, WritesPc DEF WriterPcs
<1>4. /\ writer'[f].pc = "clean up" /\ writer'[f].unsaved = writer[f].unsaved
      /\ writer'[f].next = writer[f].next /\ writer'[f].failed = writer[f].failed
  BY <1>3 DEF Writes
<1>5. status[f] # "success"
  BY <1>1, WriterAtWork
<1>6. TypesOK'
  BY <1>1, <1>2, <1>3 DEF DownloadInv, TypesOK, FileTypeOK, Writes
<1>7. ChunksInv(f)'
  BY <1>1, <1>2, ChunksStay DEF DownloadInv
<1>8. QueueInv(f)' /\ Queued(f)' = Queued(f) /\ WithWriter(f)' = WithWriter(f)
  BY <1>1, <1>4, QueueStays DEF DownloadInv
<1>9. WriterInv(f)'
  <2>1. ~cancelled[f] => Settled(f)'
    BY <1>1, <1>4 DEF Settled, Done, DownloadInv, FileInv, WriterInv
  <2> QED BY <1>1, <1>2, <1>4, <1>5, <2>1 DEF WriterInv, Early
<1>10. DiskInv(f)'
  BY <1>1, <1>2, <1>4, <1>5 DEF DownloadInv, FileInv, DiskInv, Written, BeforeRename, Early
<1>11. RamMoves(f)
  <2>1. InFlight(f)' = InFlight(f)
    BY <1>1, <1>8, InFlightStays
  <2>2. Undisturbed(f)' => Undisturbed(f)
    BY <1>1, <1>2, <1>5 DEF Undisturbed
  <2> QED BY <1>1, <2>1, <2>2 DEF RamMoves
<1>12. \A g \in Files \ {f} : SameFile(g)
  BY <1>1, <1>2, <1>3 DEF SameFile, Writes
<1> QED BY <1>6, <1>7, <1>8, <1>9, <1>10, <1>11, <1>12, StepOfAFile DEF FileInv

LEMMA FlushFailsKeeps ==
  ASSUME DownloadInv, NEW f \in Files, FlushFails(f)
  PROVE  DownloadInv'
<1>1. /\ epilogue[f] = "flush" /\ writer[f].pc = "gone" /\ To(f, "not flushed")
      /\ UNCHANGED <<cancelled, status, init, chunk, chunksDone, queue, writer, reserved, ram, disk>>
  BY DEF FlushFails
<1>2. /\ epilogue' \in [Files -> Epilogues] /\ epilogue'[f] = "not flushed"
      /\ \A g \in Files \ {f} : epilogue'[g] = epilogue[g]
  BY <1>1, EpilogueGoes DEF Epilogues, BeforeRename
<1>3. status[f] # "success"
  BY <1>1 DEF DownloadInv, FileInv, DiskInv
<1>4. TypesOK'
  BY <1>1, <1>2 DEF DownloadInv, TypesOK, FileTypeOK
<1>5. ChunksInv(f)'
  BY <1>1, <1>2, ChunksStay DEF DownloadInv
<1>6. QueueInv(f)' /\ WithWriter(f)' = WithWriter(f)
  BY <1>1, QueueStays DEF DownloadInv
<1>7. WriterInv(f)'
  BY <1>1, <1>2, <1>3 DEF WriterInv, DownloadInv, FileInv
<1>8. DiskInv(f)'
  BY <1>1, <1>2, <1>3 DEF DownloadInv, FileInv, DiskInv, Written, BeforeRename, Early
<1>9. RamMoves(f)
  <2>1. InFlight(f)' = InFlight(f)
    BY <1>1, <1>6, InFlightStays
  <2>2. Undisturbed(f)' => Undisturbed(f)
    BY <1>1, <1>2, <1>3 DEF Undisturbed
  <2> QED BY <1>1, <2>1, <2>2 DEF RamMoves
<1>10. \A g \in Files \ {f} : SameFile(g)
  BY <1>1, <1>2 DEF SameFile
<1> QED BY <1>4, <1>5, <1>6, <1>7, <1>8, <1>9, <1>10, StepOfAFile DEF FileInv

LEMMA NothingInFlight ==
  ASSUME NEW f \in Files, Settled(f)
  PROVE  InFlight(f) = {}
<1>1. DOMAIN << >> = {}
  OBVIOUS
<1>2. \A x : x \notin Range(queue[f].chunks)
  BY <1>1 DEF Settled, Range
<1> QED BY <1>2 DEF Settled, InFlight, Done

LEMMA Difference == \A a, b \in Int : a - b \in Int
  OBVIOUS

(* A step of the epilogue after the flush: the writer is done, and nothing *)
(* of the chunks changes any more.                                         *)
LEMMA LateStep ==
  ASSUME DownloadInv, NEW f \in Files, NEW pc \in Epilogues \ Early,
         epilogue[f] \notin Early, To(f, pc),
         UNCHANGED <<init, chunk, chunksDone, queue, writer, reserved>>,
         cancelled' \in [Files -> BOOLEAN],
         status' \in [Files -> {"started", "success", "failed", "cancelled"}],
         disk' \in [Files -> DiskRecord],
         \A g \in Files \ {f} : /\ cancelled'[g] = cancelled[g]
                                /\ status'[g] = status[g] /\ disk'[g] = disk[g],
         Undisturbed(f)' => Undisturbed(f),
         \/ ram' = ram
         \/ ram' = ram - reserved[f] /\ (Undisturbed(f)' => Settled(f)),
         \/ ~cancelled'[f] /\ pc \in {"flushed", "check", "complete", "assert live"}
         \/ pc = "succeed" \/ status'[f] = "success"
         => Settled(f),
         DiskInv(f)'
  PROVE  DownloadInv'
<1>1. /\ epilogue' \in [Files -> Epilogues] /\ epilogue'[f] = pc
      /\ \A g \in Files \ {f} : epilogue'[g] = epilogue[g]
  BY EpilogueGoes
<1>2. ram' \in Int
  <2>1. ram \in Int /\ reserved[f] \in Int
    BY DEF DownloadInv, TypesOK
  <2>2. ram - reserved[f] \in Int
    BY <2>1, Difference, Zenon
  <2> QED BY <2>1, <2>2, Zenon
<1>3. TypesOK'
  BY <1>1, <1>2 DEF DownloadInv, TypesOK, FileTypeOK
<1>4. ChunksInv(f)'
  BY <1>1, ChunksStay DEF DownloadInv, Early
<1>5. QueueInv(f)' /\ WithWriter(f)' = WithWriter(f)
  BY QueueStays DEF DownloadInv
<1>6. WriterInv(f)'
  <2>1. /\ writer[f].pc \in {"clean up", "gone"}
        /\ epilogue'[f] = pc /\ pc \notin {"none", "start"}
    BY <1>1 DEF DownloadInv, FileInv, WriterInv, Early
  <2>2. Settled(f)' <=> Settled(f)
    BY DEF Settled, Done
  <2> QED BY <1>5, <2>1, <2>2 DEF WriterInv
<1>7. InFlight(f)' = InFlight(f)
  BY <1>5, InFlightStays
<1>8. Settled(f) => InFlight(f) = {}
  BY NothingInFlight
<1>9. RamMoves(f)
  BY <1>7, <1>8 DEF RamMoves
<1>10. \A g \in Files \ {f} : SameFile(g)
  BY <1>1 DEF SameFile
<1> QED BY <1>3, <1>4, <1>5, <1>6, <1>9, <1>10, StepOfAFile DEF FileInv

(* What a live transfer has, before and after its renaming.                *)
LEMMA LateFacts ==
  ASSUME DownloadInv, NEW f \in Files
  PROVE  /\ cancelled \in [Files -> BOOLEAN]
         /\ status \in [Files -> {"started", "success", "failed", "cancelled"}]
         /\ disk \in [Files -> DiskRecord]
         /\ status[f] = "success" => epilogue[f] \in {"report", "reported"}
         /\ ~cancelled[f] /\ epilogue[f] \in {"flushed", "check", "complete", "assert live"}
              => Settled(f)
         /\ epilogue[f] = "succeed" \/ status[f] = "success" => Settled(f)
         /\ Settled(f) /\ epilogue[f] \in BeforeRename => Written(f) = NumChunks[f]
<1>1. /\ cancelled \in [Files -> BOOLEAN]
      /\ status \in [Files -> {"started", "success", "failed", "cancelled"}]
      /\ disk \in [Files -> DiskRecord]
  BY DEF DownloadInv, TypesOK
<1>2. status[f] = "success" => epilogue[f] \in {"report", "reported"}
  BY DEF DownloadInv, FileInv, DiskInv
<1>3. /\ ~cancelled[f] /\ epilogue[f] \in {"flushed", "check", "complete", "assert live"}
           => Settled(f)
      /\ epilogue[f] = "succeed" \/ status[f] = "success" => Settled(f)
  BY DEF DownloadInv, FileInv, WriterInv
<1>4. ASSUME Settled(f), epilogue[f] \in BeforeRename PROVE Written(f) = NumChunks[f]
  <2>1. NumChunks[f] \in Nat /\ writer[f].next = NumChunks[f] + 1
    BY <1>4, Values DEF DownloadInv, Settled
  <2>2. Written(f) = writer[f].next - 1
    BY <1>4 DEF DownloadInv, FileInv, DiskInv, Settled
  <2> QED BY <2>1, <2>2
<1> QED BY <1>1, <1>2, <1>3, <1>4

LEMMA FlushReturnsKeeps ==
  ASSUME DownloadInv, NEW f \in Files, FlushReturns(f)
  PROVE  DownloadInv'
<1>1. /\ epilogue[f] \in {"flushed", "not flushed"} /\ ram' = ram - reserved[f] /\ To(f, "check")
      /\ UNCHANGED <<init, chunk, chunksDone, queue, writer, reserved, disk>>
  BY DEF FlushReturns
<1>2. epilogue'[f] = "check" /\ "check" \in Epilogues \ Early /\ epilogue[f] \notin Early
  BY <1>1, EpilogueGoes DEF Epilogues, BeforeRename, Early
<1>3. status[f] # "success"
  BY <1>1, LateFacts
<1>4. /\ cancelled' \in [Files -> BOOLEAN]
      /\ status' \in [Files -> {"started", "success", "failed", "cancelled"}]
      /\ \A g \in Files \ {f} : cancelled'[g] = cancelled[g] /\ status'[g] = status[g]
      /\ cancelled'[f] \/ (~cancelled[f] /\ epilogue[f] = "flushed")
      /\ status'[f] = "failed" \/ status'[f] = status[f]
      /\ status'[f] = "failed" => cancelled'[f] \/ status[f] = "failed"
      /\ cancelled[f] => cancelled'[f]
  <2>1. CASE epilogue[f] = "flushed" /\ UNCHANGED <<cancelled, status>>
    BY <2>1, LateFacts
  <2>2. CASE FailActive(f)
    BY <2>2, FailActiveDoes
  <2> QED BY <2>1, <2>2 DEF FlushReturns
<1>5. ~cancelled'[f] => Settled(f)
  BY <1>4, LateFacts
<1>6. status'[f] # "success" /\ (Undisturbed(f)' => ~cancelled'[f])
  BY <1>2, <1>3, <1>4 DEF Undisturbed
<1>7. DiskInv(f)'
  BY <1>1, <1>2, <1>4, <1>6 DEF DownloadInv, FileInv, DiskInv, Written, BeforeRename, Early
<1>8. /\ disk' \in [Files -> DiskRecord]
      /\ \A g \in Files \ {f} : disk'[g] = disk[g]
  BY <1>1, LateFacts
<1>9. Undisturbed(f)' => Undisturbed(f)
  BY <1>4, <1>6 DEF Undisturbed
<1> QED BY <1>1, <1>2, <1>4, <1>5, <1>6, <1>7, <1>8, <1>9, LateStep

(* The file gets another place on the disk.                                *)
LEMMA DiskGets ==
  ASSUME DownloadInv, NEW f \in Files, NEW d \in DiskRecord, disk' = [disk EXCEPT ![f] = d]
  PROVE  /\ disk' \in [Files -> DiskRecord] /\ disk'[f] = d
         /\ \A g \in Files \ {f} : disk'[g] = disk[g]
  BY LateFacts

(* Either name, and what the log says.                                     *)
LEMMA RenamingsAre ==
  ASSUME NEW d \in DiskRecord, NEW e \in Renamings(d)
  PROVE  /\ e \in DiskRecord
         /\ \/ TempPath /\ e.temp = 0 /\ e.final = d.temp /\ e.logged = d.logged
            \/ TempPath /\ e.temp = d.temp /\ e.final = d.final /\ e.logged = "not renamed"
            \/ ~TempPath /\ e = d
<1>1. CASE ~TempPath
  BY <1>1 DEF Renamings
<1>2. CASE TempPath /\ e = [d EXCEPT !.temp = 0, !.final = d.temp]
  BY <1>2 DEF DiskRecord
<1>3. CASE TempPath /\ e = [d EXCEPT !.logged = "not renamed"]
  BY <1>3 DEF DiskRecord
<1> QED BY <1>1, <1>2, <1>3 DEF Renamings, Renamed

LEMMA CheckAndRenameKeeps ==
  ASSUME DownloadInv, NEW f \in Files, CheckAndRename(f)
  PROVE  DownloadInv'
<1>1. /\ epilogue[f] = "check" /\ To(f, "complete")
      /\ UNCHANGED <<init, chunk, chunksDone, queue, writer, reserved, ram>>
  BY DEF CheckAndRename
<1>2. epilogue'[f] = "complete" /\ "complete" \in Epilogues \ Early /\ epilogue[f] \notin Early
  BY <1>1, EpilogueGoes DEF Epilogues, BeforeRename, Early
<1>3. status[f] # "success" /\ (status[f] \in {"failed", "cancelled"} => cancelled[f])
  BY <1>1 DEF DownloadInv, FileInv, DiskInv
<1>4. IsDead(f) <=> cancelled[f]
  BY <1>3 DEF IsDead
<1>5. ~cancelled[f] => Settled(f) /\ Written(f) = NumChunks[f]
  BY <1>1, LateFacts DEF BeforeRename
<1>6. /\ ~TempPath => disk[f].temp = 0
      /\ TempPath => disk[f].final = 0
      /\ disk[f].logged = "none"
      /\ disk \in [Files -> DiskRecord] /\ disk[f] \in DiskRecord
  BY <1>1, LateFacts DEF DownloadInv, FileInv, DiskInv, BeforeRename
<1>7. ASSUME ~cancelled[f], NEW e \in Renamings(disk[f]), disk' = [disk EXCEPT ![f] = e]
      PROVE  /\ disk' \in [Files -> DiskRecord]
             /\ \A g \in Files \ {f} : disk'[g] = disk[g]
             /\ ~TempPath => disk'[f].temp = 0
             /\ TempPath => disk'[f].final \in {0, NumChunks[f]}
             /\ WholeUnderAName(f)'
  <2>1. e \in DiskRecord
    BY <1>6, RenamingsAre
  <2>2. /\ disk' \in [Files -> DiskRecord] /\ disk'[f] = e
        /\ \A g \in Files \ {f} : disk'[g] = disk[g]
    BY <1>7, <2>1, DiskGets
  <2>3. \/ TempPath /\ e.temp = 0 /\ e.final = disk[f].temp /\ e.logged = disk[f].logged
        \/ TempPath /\ e.temp = disk[f].temp /\ e.final = disk[f].final /\ e.logged = "not renamed"
        \/ ~TempPath /\ e = disk[f]
    BY <1>6, RenamingsAre
  <2> QED BY <1>5, <1>6, <1>7, <2>2, <2>3 DEF Written, WholeUnderAName
<1>8. /\ cancelled' \in [Files -> BOOLEAN]
      /\ status' \in [Files -> {"started", "success", "failed", "cancelled"}]
      /\ \A g \in Files \ {f} : cancelled'[g] = cancelled[g] /\ status'[g] = status[g]
      /\ status'[f] # "success" /\ (status'[f] \in {"failed", "cancelled"} => cancelled'[f])
      /\ cancelled[f] => cancelled'[f]
      /\ disk' = disk \/ (~cancelled[f] /\ \E e \in Renamings(disk[f]) : disk' = [disk EXCEPT ![f] = e])
      /\ ~cancelled'[f] => \E e \in Renamings(disk[f]) : disk' = [disk EXCEPT ![f] = e]
  <2>1. CASE IsDead(f) /\ UNCHANGED <<cancelled, status, disk>>
    BY <1>3, <1>4, <2>1, LateFacts
  <2>2. CASE ~IsDead(f) /\ FailActive(f) /\ UNCHANGED disk
    BY <1>3, <1>4, <2>2, FailActiveDoes
  <2>3. CASE /\ ~IsDead(f) /\ UNCHANGED <<cancelled, status>>
             /\ \E e \in Renamings(disk[f]) : disk' = [disk EXCEPT ![f] = e]
    BY <1>3, <1>4, <2>3, LateFacts
  <2>4. CASE /\ ~IsDead(f) /\ FailActive(f)
             /\ \E e \in Renamings(disk[f]) : disk' = [disk EXCEPT ![f] = e]
    BY <1>3, <1>4, <2>4, FailActiveDoes
  <2> QED BY <2>1, <2>2, <2>3, <2>4 DEF CheckAndRename
<1>9. /\ disk' \in [Files -> DiskRecord]
      /\ \A g \in Files \ {f} : disk'[g] = disk[g]
      /\ ~TempPath => disk'[f].temp = 0
      /\ TempPath => disk'[f].final \in {0, NumChunks[f]}
      /\ ~cancelled'[f] => WholeUnderAName(f)'
  BY <1>6, <1>7, <1>8
<1>10. DiskInv(f)'
  BY <1>2, <1>8, <1>9 DEF DiskInv, BeforeRename, Early
<1>11. (Undisturbed(f)' => Undisturbed(f)) /\ (~cancelled'[f] => Settled(f))
  BY <1>2, <1>5, <1>8 DEF Undisturbed
<1> QED BY <1>1, <1>2, <1>8, <1>9, <1>10, <1>11, LateStep

(* The deletion, done or logged.                                           *)
LEMMA DeletionIs ==
  ASSUME NEW d \in DiskRecord, NEW e \in TryDeleteFile(d)
  PROVE  /\ e \in DiskRecord
         /\ \/ e.logged = "not deleted" /\ e.temp = d.temp /\ e.final = d.final
            \/ TempPath /\ e.temp = 0 /\ e.final = d.final
            \/ ~TempPath /\ e.final = 0 /\ e.temp = d.temp
<1>1. CASE e = [d EXCEPT !.logged = "not deleted"]
  BY <1>1 DEF DiskRecord
<1>2. CASE TempPath /\ e = [d EXCEPT !.temp = 0]
  BY <1>2 DEF DiskRecord
<1>3. CASE ~TempPath /\ e = [d EXCEPT !.final = 0]
  BY <1>3 DEF DiskRecord
<1> QED BY <1>1, <1>2, <1>3 DEF TryDeleteFile

LEMMA CompleteKeeps ==
  ASSUME DownloadInv, NEW f \in Files, Complete(f)
  PROVE  DownloadInv'
<1>1. /\ epilogue[f] = "complete"
      /\ UNCHANGED <<cancelled, status, init, chunk, chunksDone, queue, writer, reserved, ram>>
  BY DEF Complete
<1>2. epilogue[f] \notin Early /\ {"report", "assert live"} \subseteq Epilogues \ Early
  BY <1>1 DEF Epilogues, BeforeRename, Early
<1>3. status[f] # "success" /\ (status[f] \in {"failed", "cancelled"} => cancelled[f])
      /\ (~TempPath => disk[f].temp = 0)
      /\ (TempPath => disk[f].final \in {0, NumChunks[f]})
      /\ (~cancelled[f] => WholeUnderAName(f))
  BY <1>1 DEF DownloadInv, FileInv, DiskInv
<1>4. IsDead(f) <=> cancelled[f]
  BY <1>3 DEF IsDead
<1>5. cancelled' = cancelled /\ status' = status /\ (~cancelled[f] => Settled(f))
  BY <1>1, LateFacts
<1>6. ASSUME NEW pc \in {"report", "assert live"}, To(f, pc)
      PROVE  (Undisturbed(f)' => Undisturbed(f)) /\ epilogue'[f] = pc
  BY <1>1, <1>2, <1>3, <1>6, EpilogueGoes DEF Undisturbed
<1>7. CASE cancelled[f]
  <2>1. To(f, "report") /\ \E e \in TryDeleteFile(disk[f]) : disk' = [disk EXCEPT ![f] = e]
    BY <1>4, <1>7 DEF Complete
  <2>2. PICK e \in TryDeleteFile(disk[f]) : disk' = [disk EXCEPT ![f] = e]
    BY <2>1
  <2>3. /\ disk' \in [Files -> DiskRecord]
        /\ \A g \in Files \ {f} : disk'[g] = disk[g]
        /\ \/ /\ disk'[f].logged = "not deleted"
              /\ disk'[f].temp = disk[f].temp /\ disk'[f].final = disk[f].final
           \/ TempPath /\ disk'[f].temp = 0 /\ disk'[f].final = disk[f].final
           \/ ~TempPath /\ disk'[f].final = 0 /\ disk'[f].temp = disk[f].temp
    <3>1. disk[f] \in DiskRecord
      BY LateFacts
    <3>2. /\ e \in DiskRecord
          /\ \/ e.logged = "not deleted" /\ e.temp = disk[f].temp /\ e.final = disk[f].final
             \/ TempPath /\ e.temp = 0 /\ e.final = disk[f].final
             \/ ~TempPath /\ e.final = 0 /\ e.temp = disk[f].temp
      BY <2>2, <3>1, DeletionIs
    <3> QED BY <2>2, <3>2, DiskGets
  <2>4. DiskInv(f)'
    BY <1>1, <1>3, <1>6, <1>7, <2>1, <2>3 DEF DiskInv, Written, BeforeRename, Early
  <2> QED BY <1>1, <1>2, <1>3, <1>5, <1>6, <1>7, <2>1, <2>3, <2>4, LateFacts, LateStep
<1>8. CASE ~cancelled[f]
  <2>1. To(f, "assert live") /\ disk' = disk
    BY <1>4, <1>8 DEF Complete
  <2>2. DiskInv(f)'
    BY <1>1, <1>3, <1>6, <1>8, <2>1 DEF DiskInv, Written, WholeUnderAName, BeforeRename, Early
  <2> QED BY <1>1, <1>2, <1>3, <1>5, <1>6, <1>8, <2>1, <2>2, LateFacts, LateStep
<1> QED BY <1>7, <1>8

LEMMA AssertLiveKeeps ==
  ASSUME DownloadInv, NEW f \in Files, AssertLive(f)
  PROVE  DownloadInv'
<1>1. /\ epilogue[f] = "assert live"
      /\ UNCHANGED <<cancelled, status, init, chunk, chunksDone, queue, writer, reserved, ram, disk>>
  BY DEF AssertLive
<1>2. epilogue[f] \notin Early /\ {"panic", "succeed"} \subseteq Epilogues \ Early
  BY <1>1 DEF Epilogues, BeforeRename, Early
<1>3. status[f] # "success" /\ (status[f] \in {"failed", "cancelled"} => cancelled[f])
      /\ (~TempPath => disk[f].temp = 0)
      /\ (TempPath => disk[f].final \in {0, NumChunks[f]})
      /\ (~cancelled[f] => WholeUnderAName(f))
  BY <1>1 DEF DownloadInv, FileInv, DiskInv
<1>4. PICK pc \in {"panic", "succeed"} : To(f, pc) /\ (pc = "succeed" => ~cancelled[f])
  BY DEF AssertLive, IsDead
<1>5. cancelled' = cancelled /\ status' = status /\ disk' = disk /\ (~cancelled[f] => Settled(f))
  BY <1>1, LateFacts
<1>6. epilogue'[f] = pc /\ (Undisturbed(f)' => Undisturbed(f))
  BY <1>1, <1>2, <1>3, <1>4, EpilogueGoes DEF Undisturbed
<1>7. DiskInv(f)'
  BY <1>3, <1>4, <1>5, <1>6 DEF DiskInv, WholeUnderAName, BeforeRename, Early
<1> QED BY <1>1, <1>2, <1>3, <1>4, <1>5, <1>6, <1>7, LateFacts, LateStep

LEMMA SucceedKeeps ==
  ASSUME DownloadInv, NEW f \in Files, Succeed(f)
  PROVE  DownloadInv'
<1>1. /\ epilogue[f] = "succeed" /\ status' = [status EXCEPT ![f] = "success"] /\ To(f, "report")
      /\ UNCHANGED <<cancelled, init, chunk, chunksDone, queue, writer, reserved, ram, disk>>
  BY DEF Succeed
<1>2. epilogue[f] \notin Early /\ "report" \in Epilogues \ Early
  BY <1>1 DEF Epilogues, BeforeRename, Early
<1>3. /\ ~TempPath => disk[f].temp = 0
      /\ TempPath => disk[f].final \in {0, NumChunks[f]}
      /\ WholeUnderAName(f)
  BY <1>1 DEF DownloadInv, FileInv, DiskInv
<1>4. /\ status' \in [Files -> {"started", "success", "failed", "cancelled"}]
      /\ status'[f] = "success"
      /\ \A g \in Files \ {f} : status'[g] = status[g]
  BY <1>1, LateFacts
<1>5. cancelled' = cancelled /\ disk' = disk /\ Settled(f) /\ Undisturbed(f)
  BY <1>1, LateFacts DEF Undisturbed
<1>6. epilogue'[f] = "report"
  BY <1>1, <1>2, EpilogueGoes
<1>7. DiskInv(f)'
  BY <1>3, <1>4, <1>5, <1>6 DEF DiskInv, WholeUnderAName, BeforeRename, Early
<1> QED BY <1>1, <1>2, <1>4, <1>5, <1>7, LateFacts, LateStep

LEMMA ReportKeeps ==
  ASSUME DownloadInv, NEW f \in Files, Report(f)
  PROVE  DownloadInv'
<1>1. /\ epilogue[f] = "report" /\ To(f, "reported") /\ cancelled' = [cancelled EXCEPT ![f] = TRUE]
      /\ UNCHANGED <<status, init, chunk, chunksDone, queue, writer, reserved, ram, disk>>
  BY DEF Report
<1>2. epilogue[f] \notin Early /\ "reported" \in Epilogues \ Early
  BY <1>1 DEF Epilogues, BeforeRename, Early
<1>3. /\ cancelled' \in [Files -> BOOLEAN] /\ cancelled'[f]
      /\ \A g \in Files \ {f} : cancelled'[g] = cancelled[g]
  BY <1>1, LateFacts
<1>4. status' = status /\ disk' = disk /\ (status[f] = "success" => Settled(f))
  BY <1>1, LateFacts
<1>5. epilogue'[f] = "reported"
  BY <1>1, <1>2, EpilogueGoes
<1>6. Undisturbed(f)' => Undisturbed(f)
  BY <1>3, <1>4, <1>5 DEF Undisturbed
<1>7. DiskInv(f)'
  BY <1>1, <1>3, <1>4, <1>5
     DEF DownloadInv, FileInv, DiskInv, Written, WholeUnderAName, BeforeRename, Early
<1> QED BY <1>1, <1>2, <1>3, <1>4, <1>6, <1>7, LateFacts, LateStep

-----------------------------------------------------------------------------

LEMMA DownloadStutter ==
  DownloadInv /\ UNCHANGED downloadVars => DownloadInv'
<1> SUFFICES ASSUME DownloadInv, UNCHANGED downloadVars PROVE DownloadInv'
  OBVIOUS
<1>1. UNCHANGED <<cancelled, status, init, chunk, chunksDone, queue, writer,
                  reserved, ram, epilogue, disk>>
  BY DEF downloadVars
<1>2. TypesOK'
  BY <1>1 DEF DownloadInv, TypesOK, FileTypeOK
<1>3. \A f \in Files : FileInv(f)' /\ InFlight(f)' = InFlight(f)
                       /\ (Undisturbed(f)' <=> Undisturbed(f))
  BY <1>1, OthersKeep DEF DownloadInv, SameFile
<1>4. ChunksInFlight' = ChunksInFlight
  BY <1>3, WhatIsInFlight, WhatIsInFlightNext
<1>5. RamInv'
  BY <1>1, <1>3, <1>4 DEF DownloadInv, RamInv
<1> QED BY <1>2, <1>3, <1>5 DEF DownloadInv

LEMMA DownloadStarts == DownloadInit => DownloadInv
<1> SUFFICES ASSUME DownloadInit PROVE DownloadInv
  OBVIOUS
<1>1. DOMAIN << >> = {} /\ << >> \in Seq(Nat)
  OBVIOUS
<1>2. ASSUME NEW f \in Files
      PROVE  /\ ~cancelled[f] /\ status[f] = "started" /\ init[f] = 0
             /\ chunksDone[f] = 0 /\ queue[f].chunks = << >> /\ ~queue[f].closed
             /\ writer[f].pc = "select" /\ writer[f].unsaved = {} /\ writer[f].next = 1
             /\ ~writer[f].failed
             /\ reserved[f] = 0 /\ epilogue[f] = "none"
             /\ disk[f].temp = 0 /\ disk[f].final = 0 /\ disk[f].logged = "none"
  BY DEF DownloadInit
<1>3. ASSUME NEW f \in Files
       PROVE  /\ chunk[f] \in [ChunksOf(f) -> ChunkPcs]
              /\ \A c \in ChunksOf(f) : chunk[f][c] = "unscheduled"
  BY DEF DownloadInit, ChunkPcs
<1>4. ASSUME NEW f \in Files
       PROVE  /\ NumChunks[f] \in Nat /\ NumChunks[f] # 0
              /\ 0 \in 0..NumChunks[f] /\ 1 \in 1..(NumChunks[f] + 1) /\ 1 \in ChunksOf(f)
              /\ \A c \in ChunksOf(f) : c \in Nat /\ c > 0 /\ ~(c < 1)
  <2>1. NumChunks[f] \in Nat /\ NumChunks[f] # 0
    BY DownloadAssumption
  <2> QED BY <2>1 DEF ChunksOf
<1>5. TypesOK
  <2>1. ASSUME NEW f \in Files PROVE FileTypeOK(f)
    <3>1. init[f] = 0 /\ 0 \in 0..NumChunks[f] /\ epilogue[f] = "none"
      BY <1>2, <1>4, Zenon
    <3>2. "none" \in Epilogues
      BY DEF Epilogues, BeforeRename, Early
    <3> QED BY <1>3, <3>1, <3>2, Zenon DEF FileTypeOK
  <2>2. /\ writer \in [Files -> WriterRecord]
        /\ queue \in [Files -> [chunks : Seq(Nat), closed : BOOLEAN]]
        /\ disk \in [Files -> DiskRecord]
    <3>1. /\ [pc |-> "select", unsaved |-> {}, next |-> 1, failed |-> FALSE] \in WriterRecord
          /\ [chunks |-> << >>, closed |-> FALSE] \in [chunks : Seq(Nat), closed : BOOLEAN]
          /\ [temp |-> 0, final |-> 0, logged |-> "none"] \in DiskRecord
      BY <1>1 DEF DiskRecord, WriterRecord, WriterPcs
    <3> QED BY <3>1 DEF DownloadInit
  <2>3. /\ cancelled \in [Files -> BOOLEAN]
        /\ status \in [Files -> {"started", "success", "failed", "cancelled"}]
        /\ init \in [Files -> Nat] /\ chunksDone \in [Files -> Nat]
        /\ DOMAIN chunk = Files /\ reserved \in [Files -> Int] /\ ram \in Int
        /\ epilogue \in [Files -> Epilogues]
    BY DEF DownloadInit, Epilogues, BeforeRename, Early
  <2> QED BY <2>1, <2>2, <2>3 DEF TypesOK
<1>6. ASSUME NEW f \in Files PROVE Queued(f) = {} /\ WithWriter(f) = {} /\ InFlight(f) = {}
  <2>1. queue[f].chunks = << >> /\ writer[f].unsaved = {}
    BY <1>2
  <2>2. \A x : x \notin Range(queue[f].chunks)
    BY <1>1, <2>1 DEF Range
  <2>3. \A c \in ChunksOf(f) : chunk[f][c] \notin {"scheduled", "read"}
    BY <1>3
  <2> QED BY <2>1, <2>2, <2>3 DEF Queued, WithWriter, InFlight
<1>7. ASSUME NEW f \in Files PROVE FileInv(f)
  <2>1. 1 \in ChunksOf(f) /\ \A c \in ChunksOf(f) : c \in Nat /\ c > 0 /\ ~(c < 1)
    BY <1>4
  <2>2. Done(f) = {} /\ Done(f) # ChunksOf(f)
    <3>1. \A c \in ChunksOf(f) : chunk[f][c] # "done"
      BY <1>3
    <3> QED BY <2>1, <3>1 DEF Done
  <2>3. ChunksInv(f)
    <3>1. \A c \in ChunksOf(f) : chunk[f][c] = "unscheduled"
      BY <1>3, Zenon
    <3>2. init[f] = 0 /\ chunksDone[f] = 0 /\ epilogue[f] = "none"
      BY <1>2, Zenon
    <3> QED BY <2>1, <2>2, <3>1, <3>2, FS_EmptySet DEF ChunksInv
  <2>4. QueueInv(f)
    <3>1. /\ writer[f].next = 1 /\ queue[f].chunks = << >> /\ writer[f].unsaved = {}
          /\ 1 \in 1..(NumChunks[f] + 1)
      BY <1>2, <1>4
    <3> QED BY <1>1, <1>6, <2>1, <3>1 DEF QueueInv
  <2>5. WriterInv(f)
    <3>1. /\ writer[f].pc = "select" /\ writer[f].unsaved = {} /\ ~writer[f].failed
          /\ ~queue[f].closed
          /\ writer[f].next = 1 /\ 1 \notin {}
          /\ epilogue[f] = "none" /\ status[f] = "started"
      BY <1>2, Zenon
    <3>2. \A c \in ChunksOf(f) : chunk[f][c] = "unscheduled"
      BY <1>3, Zenon
    <3> QED BY <3>1, <3>2 DEF WriterInv, Early
  <2>6. DiskInv(f)
    <3>1. /\ disk[f].temp = 0 /\ disk[f].final = 0 /\ writer[f].next = 1
          /\ epilogue[f] = "none" /\ status[f] = "started" /\ disk[f].logged = "none"
      BY <1>2, Zenon
    <3> QED BY <3>1 DEF DiskInv, Written, WholeUnderAName
  <2> QED BY <2>3, <2>4, <2>5, <2>6 DEF FileInv
<1>8. RamInv
  <2>1. ChunksInFlight = {}
    BY <1>6, WhatIsInFlight
  <2>2. ram = 0
    BY DEF DownloadInit
  <2>3. \A f \in Files : reserved[f] = 0 /\ InFlight(f) = {}
    BY <1>2, <1>6, Zenon
  <2> QED BY <2>1, <2>2, <2>3, FS_EmptySet DEF RamInv
<1> QED BY <1>5, <1>7, <1>8 DEF DownloadInv

LEMMA DownloadInvKept == DownloadInv /\ [DownloadNext]_downloadVars => DownloadInv'
<1> SUFFICES ASSUME DownloadInv, [DownloadNext]_downloadVars PROVE DownloadInv'
  OBVIOUS
<1>1. CASE UNCHANGED downloadVars
  BY <1>1, DownloadStutter
<1>2. ASSUME NEW f \in Files, CancelTransfer(f) \/ ScheduleNext(f) PROVE DownloadInv'
  BY <1>2, CancelTransferKeeps, ScheduleNextKeeps
<1>3. ASSUME NEW f \in Files, WriterStep(f) PROVE DownloadInv'
  BY <1>3, TakeChunkKeeps, SeeClosedKeeps, SeeCancelledKeeps, SaveNextKeeps,
     WriterCleansUpKeeps DEF WriterStep
<1>4. ASSUME NEW f \in Files, EpilogueStep(f) PROVE DownloadInv'
  BY <1>4, EpilogueStartsKeeps, FlushSucceedsKeeps, FlushFailsKeeps, FlushReturnsKeeps,
     CheckAndRenameKeeps, CompleteKeeps, AssertLiveKeeps, SucceedKeeps, ReportKeeps
     DEF EpilogueStep
<1>5. ASSUME NEW f \in Files, NEW c \in ChunksOf(f), ChunkStep(f, c) PROVE DownloadInv'
  BY <1>5, StartChunkFuncKeeps, EnqueueChunkKeeps, ReportChunkDoneKeeps DEF ChunkStep
<1> QED BY <1>1, <1>2, <1>3, <1>4, <1>5, Zenon DEF DownloadNext

(* A download is a success only when every chunk of it was written, in     *)
(* file order, and stands under the final name (or the temporary one, if   *)
(* the log tells of a failed rename); one reported without success leaves  *)
(* nothing under the name it was downloaded to, unless the log tells of a  *)
(* failed deletion; a part never stands under the final name; and while    *)
(* nobody has cancelled, what is reserved is what is in flight, for any    *)
(* number of files and chunks, any limit, with or without temporary names. *)
THEOREM DownloadIsWhole == DownloadSpec => []DownloadedWhole
<1>1. DownloadInv => DownloadedWhole
  <2> SUFFICES ASSUME DownloadInv PROVE DownloadedWhole
    OBVIOUS
  <2>1. ASSUME NEW f \in Files
        PROVE  /\ init[f] \in 0..NumChunks[f] /\ chunksDone[f] \in 0..NumChunks[f]
               /\ \A c \in ChunksOf(f) :
                     chunk[f][c] \in {"unscheduled", "scheduled", "read", "report", "done"}
    <3>1. chunk[f] \in [ChunksOf(f) -> ChunkPcs] /\ init[f] \in 0..NumChunks[f]
      BY DEF DownloadInv, TypesOK, FileTypeOK
    <3>2. chunksDone[f] = Cardinality(Done(f)) /\ Done(f) \subseteq ChunksOf(f)
      BY DEF DownloadInv, FileInv, ChunksInv, Done
    <3>3. IsFiniteSet(ChunksOf(f)) /\ Cardinality(ChunksOf(f)) = NumChunks[f]
          /\ NumChunks[f] \in Nat
      <4>1. NumChunks[f] \in Nat /\ NumChunks[f] # 0
        BY Values DEF DownloadInv
      <4>2. Cardinality(1..NumChunks[f]) = IF 1 > NumChunks[f] THEN 0 ELSE NumChunks[f] - 1 + 1
        BY <4>1, FS_Interval
      <4> QED BY <4>1, <4>2, InFlightIsFinite DEF ChunksOf
    <3>4. Cardinality(Done(f)) <= NumChunks[f] /\ Cardinality(Done(f)) \in Nat
      BY <3>2, <3>3, FS_Subset, InFlightIsFinite
    <3>5. chunksDone[f] \in 0..NumChunks[f]
      BY <3>2, <3>3, <3>4
    <3> QED BY <3>1, <3>5 DEF ChunkPcs
  <2>2. DownloadTypeOK
    BY <2>1 DEF DownloadInv, TypesOK, DownloadTypeOK
  <2>3. ASSUME NEW f \in Files
        PROVE  /\ status[f] = "success" => WholeUnderAName(f)
               /\ epilogue[f] = "reported" /\ status[f] # "success"
                     => Written(f) = 0 \/ disk[f].logged = "not deleted"
               /\ TempPath => disk[f].final \in {0, NumChunks[f]}
    BY DEF DownloadInv, FileInv, DiskInv
  <2>4. (\A f \in Files : ~cancelled[f] \/ status[f] = "success") =>
            /\ ram = Cardinality(ChunksInFlight)
            /\ \A f \in Files : reserved[f] = Cardinality(InFlight(f))
    BY DEF DownloadInv, RamInv, Undisturbed
  <2> QED BY <2>2, <2>3, <2>4 DEF DownloadedWhole
<1> QED BY <1>1, DownloadStarts, DownloadInvKept, PTL DEF DownloadSpec

=============================================================================
