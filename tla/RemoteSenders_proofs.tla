------------------------ MODULE RemoteSenders_proofs ------------------------
(***************************************************************************)
(* Proofs that a file whose destination is built in place arrives whole or *)
(* leaves nothing behind, and that the folders created on the way are      *)
(* remembered as created by the job.                                       *)
(***************************************************************************)
EXTENDS RemoteSenders, FolderCreation, SequenceTheorems, FiniteSetTheorems, TLAPS

InPlace == {"page", "disk", "file"}
CellPcs == {"unscheduled", "body", "bad", "noop", "send", "report", "done"}
EndingPcs == {"none", "start", "service", "flush", "length", "cleanup", "finish", "over"}
BlobRecord == [exists : BOOLEAN, cells : Seq({"zero", "old", "new"})]
Statuses == {"started", "success", "failed", "cancelled"}
Initiator == [pc : {"prologue", "schedule", "done"}, try : Nat, next : Nat, unread : BOOLEAN]

TransferTypes ==
    /\ kind \in InPlace \cup {"append", "adls"} /\ local \in BOOLEAN
    /\ source \in Seq({"zero", "new"})
    /\ sendStatus \in Statuses /\ sendCancelled \in BOOLEAN
    /\ modified \in BOOLEAN /\ undeleted \in BOOLEAN

ActorTypes ==
    /\ sending \in Initiator
    /\ sole \in 0..Size + 1
    /\ cell \in [Cells -> [pc : CellPcs, try : Nat]]
    /\ ending \in [pc : EndingPcs, try : Nat, at : 0..Size]

ServiceTypes ==
    /\ blob \in BlobRecord
    /\ staged \subseteq 1..Size /\ destData \subseteq 1..Size

(* A disk is there all the time, and page lists are fetched where there    *)
(* are pages to list.                                                      *)
ListsInv ==
    /\ kind \notin {"page", "disk"} \/ local => "source" \notin lists
    /\ IF kind = "disk" THEN blob.exists ELSE destData = {}

(* Chunks are scheduled in turn, after the prologue, and the epilogue runs *)
(* when all of them are done.                                              *)
TurnsInv ==
    /\ sending.pc = "prologue" => sending.next = 1
    /\ sending.pc # "done" =>
          /\ sending.next \in Cells
          /\ \A c \in Cells : c >= sending.next => cell[c].pc = "unscheduled"
    /\ ending.pc # "none" => \A c \in Cells : cell[c].pc = "done"
    /\ ending.pc = "flush" => kind = "adls"

(* A chunk on its way has content, and a destination of the right size.    *)
SendingInv ==
    \A c \in Cells :
        /\ cell[c].pc = "send" =>
              /\ c \in 1..Size /\ modified
              /\ kind \in InPlace => Len(blob.cells) = Size
        /\ cell[c].pc = "noop" => sendCancelled

(* New content is only at a destination that is marked as modified.        *)
MarkedInv ==
    /\ kind \in {"file", "adls"} /\ sending.pc # "prologue" => modified
    /\ ~modified /\ kind # "disk" => "new" \notin ToSet(blob.cells)

Reported(c) == cell[c].pc \in {"report", "done"}

(* A live transfer's chunks are at the destination when they are reported, *)
(* in an append blob as a prefix of the source, otherwise in their places; *)
(* and where there is neither a chunk nor data of before there are zeros.  *)
ArrivingInv ==
    ~sendCancelled /\ sending.pc # "prologue" =>
        /\ blob.exists
        /\ kind = "append" =>
              /\ Len(blob.cells) <= Size
              /\ \A c \in 1..Len(blob.cells) : blob.cells[c] = source[c]
              /\ \A c \in 1..Size : Reported(c) => c <= Len(blob.cells)
        /\ kind \in InPlace =>
              /\ Len(blob.cells) = Size
              /\ \A c \in 1..Size : /\ c \notin destData => blob.cells[c] \in {"zero", source[c]}
                                    /\ Reported(c) => blob.cells[c] = source[c]

(* A transfer that is still alive when its length is to be compared has    *)
(* arrived; one that is not has been cleaned up before it is over.         *)
SettledInv ==
    /\ ~sendCancelled /\ ending.pc \in {"length", "cleanup", "finish"} => Whole
    /\ sendStatus \in {"failed", "cancelled"} => sendCancelled
    /\ sendStatus = "success" => ending.pc = "over" /\ Whole
    /\ ending.pc \in {"finish", "over"} /\ kind # "disk" /\ ~undeleted =>
          "new" \notin ToSet(blob.cells) \/ Whole

SendTypes == TransferTypes /\ ActorTypes /\ ServiceTypes
SenderInv ==
    /\ SendTypes /\ ListsInv /\ TurnsInv /\ SendingInv /\ MarkedInv /\ ArrivingInv /\ SettledInv

(***************************************************************************)
(* The data.                                                               *)
(***************************************************************************)
LEMMA CellsShape ==
  ASSUME TransferTypes
  PROVE  /\ Size \in Nat /\ source \in [1..Size -> {"zero", "new"}]
         /\ Cells \subseteq 1..(Size + 1) /\ 1..Size \subseteq Cells /\ 1 \in Cells
         /\ Size # 0 => Cells = 1..Size
         /\ Size = 0 => Cells = {1}
         /\ Cells = 1..Cardinality(Cells) /\ Cardinality(Cells) \in Nat
<1>1. Size \in Nat /\ source \in [1..Size -> {"zero", "new"}]
  BY LenProperties DEF TransferTypes, Size
<1>2. Cardinality(Cells) = IF Size = 0 THEN 1 ELSE Size
  BY <1>1, FS_Interval DEF Cells
<1> QED BY <1>1, <1>2 DEF Cells

LEMMA FixedStay ==
  ASSUME UNCHANGED fixed
  PROVE  /\ kind' = kind /\ local' = local /\ source' = source /\ lists' = lists
         /\ Size' = Size /\ Cells' = Cells /\ Zeros' = Zeros
BY DEF fixed, Size, Cells, Zeros

\* What can be relied on in an answer: an effect was acceptable, a good answer
\* had one, and only a live transfer tries again.
LEMMA AnswersShape ==
  ASSUME NEW try, NEW accepted \in BOOLEAN, NEW a \in Answers(try, accepted)
  PROVE  /\ a.effect \in BOOLEAN /\ (a.effect => accepted)
         /\ a.then \in {"ok", "again", "failed"}
         /\ a.then = "again" => ~sendCancelled
         /\ a.then = "ok" => a.effect
<1> DEFINE later == IF try < MaxTries /\ ~sendCancelled THEN "again" ELSE "failed"
<1>0. later \in {"again", "failed"} /\ (later = "again" => ~sendCancelled)
  OBVIOUS
<1> HIDE DEF later
<1>1. ASSUME NEW e \in {FALSE, accepted}, a = [effect |-> e, then |-> later]
      PROVE  /\ a.effect \in BOOLEAN /\ (a.effect => accepted)
             /\ a.then \in {"again", "failed"} /\ (a.then = "again" => ~sendCancelled)
  <2>1. a.effect = e /\ a.then = later
    BY <1>1
  <2>2. e \in BOOLEAN /\ (e => accepted)
    <3>1. CASE e = FALSE
      BY <3>1
    <3>2. CASE e = accepted
      BY <3>2
    <3> QED BY <3>1, <3>2
  <2>3. a.effect \in BOOLEAN /\ (a.effect => accepted)
    BY <2>1, <2>2, Zenon
  <2> QED BY <1>0, <2>1, <2>3
<1>2. CASE a = [effect |-> FALSE, then |-> "failed"]
  BY <1>2
<1>3. ASSUME NEW e \in {accepted} \ {FALSE}, a = [effect |-> e, then |-> "ok"]
      PROVE  a.effect = TRUE /\ a.then = "ok" /\ accepted
  <2>1. e = TRUE /\ accepted
    BY <1>3, Zenon
  <2> QED BY <1>3, <2>1
<1>4. \/ \E e \in {FALSE, accepted} : a = [effect |-> e, then |-> later]
      \/ a = [effect |-> FALSE, then |-> "failed"]
      \/ \E e \in {accepted} \ {FALSE} : a = [effect |-> e, then |-> "ok"]
  BY Zenon DEF Answers, later
<1>5. CASE \E e \in {FALSE, accepted} : a = [effect |-> e, then |-> later]
  BY <1>1, <1>5
<1>6. CASE \E e \in {accepted} \ {FALSE} : a = [effect |-> e, then |-> "ok"]
  BY <1>3, <1>6
<1> QED BY <1>2, <1>4, <1>5, <1>6

LEMMA NothingSent ==
  ASSUME TransferTypes, ListsInv, NEW c \in Cells, NothingToSend(c), c \in 1..Size
  PROVE  /\ source[c] = "zero" /\ kind \in InPlace /\ c \notin destData
<1>1. Size # 0 /\ Size \in Nat
  BY CellsShape
<1>2. c \in Zeros /\ source[c] = "zero"
  BY <1>1 DEF NothingToSend, Zeros
<1> QED BY <1>1, <1>2 DEF NothingToSend, ListsInv, InPlace

(***************************************************************************)
(* The initial states.                                                     *)
(***************************************************************************)
LEMMA InitSends == SenderInit => SenderInv
<1> SUFFICES ASSUME SenderInit PROVE SenderInv
  OBVIOUS
<1>1. source \in Seq({"zero", "new"})
  BY SeqDef, SenderAssumption DEF SenderInit, Upto
<1>2. TransferTypes
  BY <1>1, SenderAssumption DEF SenderInit, TransferTypes, InPlace, Statuses
<1> USE CellsShape, <1>2
<1>3. ActorTypes
  BY DEF SenderInit, ActorTypes, Initiator, CellPcs, EndingPcs
<1>4. blob \in BlobRecord /\ (kind # "disk" => "new" \notin ToSet(blob.cells))
  <2>1. CASE kind = "disk"
    <3>1. PICK k \in 0..MaxCells : \E s \in [1..k -> {"zero", "old"}] :
              blob = [exists |-> TRUE, cells |-> s]
      BY <2>1 DEF SenderInit
    <3>2. PICK s \in [1..k -> {"zero", "old"}] : blob = [exists |-> TRUE, cells |-> s]
      BY <3>1
    <3>3. s \in [1..k -> {"zero", "old", "new"}] /\ k \in Nat
      BY SenderAssumption
    <3>4. s \in Seq({"zero", "old", "new"})
      BY <3>3, SeqDef
    <3> QED BY <2>1, <3>2, <3>4 DEF BlobRecord
  <2>2. CASE kind # "disk"
    <3>1. blob = Absent \/ blob = [exists |-> TRUE, cells |-> <<"old">>]
      BY <2>2 DEF SenderInit
    <3>2. << >> \in Seq({"zero", "old", "new"}) /\ <<"old">> \in Seq({"zero", "old", "new"})
      OBVIOUS
    <3>3. ToSet(<< >>) = {} /\ ToSet(<<"old">>) = {"old"}
      BY DEF ToSet
    <3>4. "new" \notin {"old"}
      OBVIOUS
    <3>5. CASE blob = Absent
      <4>1. blob.exists = FALSE /\ blob.cells = << >> /\ blob \in BlobRecord
        BY <3>2, <3>5 DEF BlobRecord, Absent
      <4> QED BY <3>3, <4>1
    <3>6. CASE blob = [exists |-> TRUE, cells |-> <<"old">>]
      <4>1. blob.cells = <<"old">> /\ blob \in BlobRecord
        BY <3>2, <3>6 DEF BlobRecord
      <4>2. ToSet(blob.cells) = {"old"}
        BY <3>3, <4>1, Zenon
      <4> QED BY <3>4, <4>1, <4>2
    <3> QED BY <3>1, <3>5, <3>6
  <2> QED BY <2>1, <2>2
<1>5. ServiceTypes
  BY <1>4 DEF SenderInit, ServiceTypes
<1>6. ListsInv /\ TurnsInv /\ SendingInv
  BY DEF SenderInit, ListsInv, TurnsInv, SendingInv, Absent
<1>7. MarkedInv
  BY <1>4 DEF SenderInit, MarkedInv
<1>8. ArrivingInv /\ SettledInv
  BY DEF SenderInit, ArrivingInv, SettledInv
<1> QED BY <1>2, <1>3, <1>5, <1>6, <1>7, <1>8 DEF SenderInv, SendTypes

(***************************************************************************)
(* The epilogue.                                                           *)
(***************************************************************************)
LEMMA InitiatorIsDone ==
  ASSUME SenderInv, ending.pc # "none"
  PROVE  sending.pc = "done" /\ \A c \in Cells : cell[c].pc = "done"
<1>1. \A c \in Cells : cell[c].pc = "done"
  BY DEF SenderInv, TurnsInv
<1>2. sending.pc # "done" => sending.next \in Cells /\ cell[sending.next].pc = "unscheduled"
  BY CellsShape DEF SenderInv, TurnsInv, SendTypes
<1> QED BY <1>1, <1>2 DEF SenderInv

\* Everything but Data Lake files, which have to be flushed.
LEMMA DoneIsWhole ==
  ASSUME SenderInv, ~sendCancelled, ending.pc # "none", kind # "adls"
  PROVE  Whole
<1>1. sending.pc = "done" /\ \A c \in Cells : cell[c].pc = "done"
  BY InitiatorIsDone
<1>2. /\ Size \in Nat /\ source \in Seq({"zero", "old", "new"}) /\ Len(source) = Size
      /\ 1..Size \subseteq Cells
  BY CellsShape, SeqMonotonic, {"zero", "new"} \subseteq {"zero", "old", "new"}
     DEF SenderInv, SendTypes, TransferTypes, Size
<1>3. blob.exists /\ blob.cells \in Seq({"zero", "old", "new"}) /\ Len(blob.cells) \in Nat
  BY <1>1, LenProperties DEF SenderInv, SendTypes, ServiceTypes, BlobRecord, ArrivingInv
<1>4. CASE kind = "append"
  <2>1. /\ Len(blob.cells) <= Size
        /\ \A c \in 1..Len(blob.cells) : blob.cells[c] = source[c]
        /\ \A c \in 1..Size : c <= Len(blob.cells)
    BY <1>1, <1>2, <1>4 DEF SenderInv, ArrivingInv, Reported
  <2>2. Len(blob.cells) = Size
    BY <1>2, <1>3, <2>1
  <2> QED BY <1>2, <1>3, <2>1, <2>2, SeqEqual DEF Whole
<1>5. CASE kind \in InPlace
  <2>1. Len(blob.cells) = Size /\ \A c \in 1..Size : blob.cells[c] = source[c]
    BY <1>1, <1>2, <1>5 DEF SenderInv, ArrivingInv, Reported
  <2> QED BY <1>2, <1>3, <2>1, SeqEqual DEF Whole
<1> QED BY <1>4, <1>5 DEF SenderInv, SendTypes, TransferTypes

\* Steps that change the status and the place in the epilogue only.
LEMMA SameContent ==
  ASSUME SenderInv,
         UNCHANGED <<fixed, blob, staged, destData, modified, sending, sole, cell, undeleted>>,
         sendCancelled' \in BOOLEAN, sendCancelled => sendCancelled',
         sendStatus' \in Statuses, ending' \in [pc : EndingPcs, try : Nat, at : 0..Size],
         ending.pc # "none" \/ ending'.pc = "none", ending'.pc = "flush" => kind = "adls",
         SettledInv'
  PROVE  SenderInv'
<1> USE FixedStay DEF SenderInv, SendTypes
<1>1. TransferTypes'
  BY DEF TransferTypes
<1>2. ActorTypes'
  BY DEF ActorTypes
<1>3. ServiceTypes'
  BY DEF ServiceTypes
<1>4. ListsInv' /\ MarkedInv'
  BY DEF ListsInv, MarkedInv
<1>5. TurnsInv'
  BY DEF TurnsInv
<1>6. SendingInv'
  BY DEF SendingInv
<1>7. ArrivingInv'
  BY DEF ArrivingInv, Reported
<1> QED BY <1>1, <1>2, <1>3, <1>4, <1>5, <1>6, <1>7

LEMMA CancelKeeps == ASSUME SenderInv, CancelSend PROVE SenderInv'
<1>1. /\ UNCHANGED <<fixed, blob, staged, destData, modified, sending, sole, cell, undeleted,
                     sendStatus, ending>>
      /\ sendCancelled' = TRUE
  BY DEF CancelSend
<1>2. SettledInv'
  BY <1>1, FixedStay DEF SenderInv, SettledInv, Whole
<1> QED BY <1>1, <1>2, SameContent DEF SenderInv, SendTypes, TransferTypes, ActorTypes, TurnsInv

LEMMA BeginEpilogueKeeps == ASSUME SenderInv, BeginEpilogue PROVE SenderInv'
<1>1. /\ UNCHANGED <<fixed, blob, staged, destData, modified, sending, sole, cell, undeleted>>
      /\ ending.pc = "start" /\ ending' = [ending EXCEPT !.pc = "service"]
      /\ IF sendCancelled
         THEN sendStatus' \in {sendStatus, "cancelled"} /\ sendCancelled' = TRUE
         ELSE \/ sendStatus' = "failed" /\ sendCancelled' = TRUE
              \/ UNCHANGED <<sendStatus, sendCancelled>>
  BY DEF BeginEpilogue, EndTo, FailSend, SenderInv, SendTypes, TransferTypes
<1>2. /\ ending.pc = "start" /\ ending'.pc = "service"
      /\ ending' \in [pc : EndingPcs, try : Nat, at : 0..Size]
  BY <1>1 DEF SenderInv, SendTypes, ActorTypes, EndingPcs
<1>3. sendStatus # "success" /\ sendStatus \in Statuses
  BY <1>2 DEF SenderInv, SettledInv, SendTypes, TransferTypes
<1>4. sendCancelled' \in BOOLEAN /\ (sendCancelled => sendCancelled') /\ sendStatus' \in Statuses
      /\ (sendStatus' \in {"failed", "cancelled"} => sendCancelled') /\ sendStatus' # "success"
  BY <1>1, <1>3 DEF SenderInv, SendTypes, TransferTypes, SettledInv, Statuses
<1>5. SettledInv'
  BY <1>2, <1>4 DEF SettledInv
<1> QED BY <1>1, <1>2, <1>4, <1>5, SameContent

LEMMA DeadIsCancelled == ASSUME SenderInv PROVE SendDead <=> sendCancelled
BY DEF SenderInv, SettledInv, SendDead

LEMMA ServiceEpilogueKeeps == ASSUME SenderInv, ServiceEpilogue, SenderAssumption PROVE SenderInv'
<1>1. /\ UNCHANGED <<fixed, blob, staged, destData, modified, sending, sole, cell, undeleted>>
      /\ ending.pc = "service"
      /\ IF kind = "adls" /\ ~sendCancelled
         THEN ending' = [ending EXCEPT !.pc = "flush",
                               !.at = IF Size < FlushThreshold THEN Size ELSE FlushThreshold]
         ELSE ending' = [ending EXCEPT !.pc = "length"]
      /\ \/ ~sendCancelled /\ sendCancelled' = TRUE /\ sendStatus' = "failed"
         \/ UNCHANGED <<sendStatus, sendCancelled>>
  BY DeadIsCancelled DEF ServiceEpilogue, EndTo, FailSend
<1>2. /\ ending' \in [pc : EndingPcs, try : Nat, at : 0..Size]
      /\ ending'.pc = (IF kind = "adls" /\ ~sendCancelled THEN "flush" ELSE "length")
  <2>1. (IF Size < FlushThreshold THEN Size ELSE FlushThreshold) \in 0..Size
    BY CellsShape, SenderAssumption DEF SenderInv, SendTypes
  <2> QED BY <1>1, <2>1 DEF SenderInv, SendTypes, ActorTypes, EndingPcs
<1>3. sendStatus # "success" /\ sendStatus \in Statuses
  BY <1>1 DEF SenderInv, SettledInv, SendTypes, TransferTypes
<1>4. sendCancelled' \in BOOLEAN /\ (sendCancelled => sendCancelled') /\ sendStatus' \in Statuses
      /\ (sendStatus' \in {"failed", "cancelled"} => sendCancelled') /\ sendStatus' # "success"
  <2>1. sendCancelled \in BOOLEAN /\ (sendStatus \in {"failed", "cancelled"} => sendCancelled)
    BY DEF SenderInv, SendTypes, TransferTypes, SettledInv
  <2> QED BY <1>1, <1>3, <2>1 DEF Statuses
<1>5. ~sendCancelled' /\ ending'.pc = "length" => Whole'
  <2>1. ~sendCancelled /\ kind # "adls" /\ ending.pc # "none" => Whole
    BY DoneIsWhole
  <2> QED BY <1>1, <1>2, <1>4, <2>1 DEF Whole, fixed
<1>6. SettledInv'
  BY <1>2, <1>4, <1>5 DEF SettledInv
<1> QED BY <1>1, <1>2, <1>4, <1>6, SameContent

LEMMA CheckLengthKeeps == ASSUME SenderInv, CheckLength PROVE SenderInv'
<1>1. /\ UNCHANGED <<fixed, blob, staged, destData, modified, sending, sole, cell, undeleted>>
      /\ ending.pc = "length" /\ ending' = [ending EXCEPT !.pc = "cleanup"]
      /\ \/ ~sendCancelled /\ sendCancelled' = TRUE /\ sendStatus' = "failed"
         \/ UNCHANGED <<sendStatus, sendCancelled>>
  BY DeadIsCancelled DEF CheckLength, EndTo, FailSend
<1>2. ending'.pc = "cleanup" /\ ending' \in [pc : EndingPcs, try : Nat, at : 0..Size]
  BY <1>1 DEF SenderInv, SendTypes, ActorTypes, EndingPcs
<1>3. sendStatus # "success" /\ sendStatus \in Statuses
  BY <1>1 DEF SenderInv, SettledInv, SendTypes, TransferTypes
<1>4. sendCancelled' \in BOOLEAN /\ (sendCancelled => sendCancelled') /\ sendStatus' \in Statuses
      /\ (sendStatus' \in {"failed", "cancelled"} => sendCancelled') /\ sendStatus' # "success"
  <2>1. sendCancelled \in BOOLEAN /\ (sendStatus \in {"failed", "cancelled"} => sendCancelled)
    BY DEF SenderInv, SendTypes, TransferTypes, SettledInv
  <2> QED BY <1>1, <1>3, <2>1 DEF Statuses
<1>5. ~sendCancelled' => Whole'
  BY <1>1, <1>4 DEF SenderInv, SettledInv, Whole, fixed
<1>6. SettledInv'
  BY <1>2, <1>4, <1>5 DEF SettledInv
<1> QED BY <1>1, <1>2, <1>4, <1>6, SameContent

LEMMA ConcludeKeeps == ASSUME SenderInv, Conclude PROVE SenderInv'
<1>1. /\ UNCHANGED <<fixed, blob, staged, destData, modified, sending, sole, cell, undeleted,
                     sendCancelled>>
      /\ ending.pc = "finish" /\ ending' = [ending EXCEPT !.pc = "over"]
      /\ sendStatus' = IF sendCancelled THEN sendStatus ELSE "success"
  BY DeadIsCancelled DEF Conclude, EndTo
<1>2. ending'.pc = "over" /\ ending' \in [pc : EndingPcs, try : Nat, at : 0..Size]
  BY <1>1 DEF SenderInv, SendTypes, ActorTypes, EndingPcs
<1>3. sendStatus # "success" /\ sendStatus' \in Statuses /\ sendCancelled' \in BOOLEAN
  BY <1>1 DEF SenderInv, SettledInv, SendTypes, TransferTypes, Statuses
<1>4. Whole' <=> Whole
  BY <1>1 DEF Whole, fixed
<1>5. SettledInv'
  BY <1>1, <1>2, <1>3, <1>4, FixedStay DEF SenderInv, SettledInv
<1> QED BY <1>1, <1>2, <1>3, <1>5, SameContent

LEMMA CleanupKeeps == ASSUME SenderInv, Cleanup PROVE SenderInv'
<1>1. /\ UNCHANGED <<fixed, destData, sendStatus, sendCancelled, modified, sending, sole, cell>>
      /\ ending.pc = "cleanup" /\ ending' = [ending EXCEPT !.pc = "finish"]
      /\ IF sendCancelled /\ modified /\ kind # "disk"
         THEN \/ blob' = Absent /\ staged' = {} /\ UNCHANGED undeleted
              \/ undeleted' = TRUE /\ UNCHANGED <<blob, staged>>
         ELSE UNCHANGED <<blob, staged, undeleted>>
  BY DeadIsCancelled DEF Cleanup, EndTo
<1>2. ending'.pc = "finish" /\ ending' \in [pc : EndingPcs, try : Nat, at : 0..Size]
  BY <1>1 DEF SenderInv, SendTypes, ActorTypes, EndingPcs
<1>3. sending.pc = "done" /\ \A c \in Cells : cell[c].pc = "done"
  BY <1>1, InitiatorIsDone
<1>4. Absent.exists = FALSE /\ Absent.cells = << >> /\ Absent \in BlobRecord
      /\ ToSet(Absent.cells) = {}
  BY EmptySeq DEF Absent, BlobRecord, ToSet
<1>5. sendStatus # "success"
  BY <1>1 DEF SenderInv, SettledInv
<1> USE FixedStay DEF SenderInv, SendTypes
<1>6. TransferTypes' /\ ActorTypes'
  BY <1>1, <1>2 DEF TransferTypes, ActorTypes
<1>7. ServiceTypes'
  BY <1>1, <1>4 DEF ServiceTypes
<1>8. ListsInv' /\ TurnsInv'
  BY <1>1, <1>2, <1>3 DEF ListsInv, TurnsInv
<1>9. SendingInv'
  BY <1>1, <1>3 DEF SendingInv
<1>10. MarkedInv'
  BY <1>1, <1>4 DEF MarkedInv
<1>11. ArrivingInv'
  <2>1. ~sendCancelled' => UNCHANGED <<blob, staged, undeleted>>
    BY <1>1
  <2> QED BY <1>1, <2>1 DEF ArrivingInv, Reported
<1>12. SettledInv'
  <2>1. ~sendCancelled => Whole /\ Whole'
    BY <1>1 DEF SettledInv, Whole
  <2>2. sendCancelled /\ kind # "disk" /\ ~undeleted' => "new" \notin ToSet(blob'.cells)
    BY <1>1, <1>4 DEF MarkedInv, TransferTypes
  <2>3. ToSet(blob.cells)' = ToSet(blob'.cells)
    OBVIOUS
  <2> QED BY <1>1, <1>2, <1>5, <2>1, <2>2, <2>3 DEF SettledInv
<1> QED BY <1>6, <1>7, <1>8, <1>9, <1>10, <1>11, <1>12

\* A step of the initiator or of a chunk leaves an epilogue that has not begun.
LEMMA NotSettled ==
  ASSUME SenderInv, UNCHANGED ending, ending.pc = "none",
         sendStatus' \in {sendStatus, "failed"}, sendStatus' = "failed" => sendCancelled',
         sendCancelled => sendCancelled'
  PROVE  SettledInv'
BY DEF SenderInv, SettledInv

LEMMA FlushKeeps == ASSUME SenderInv, Flush, SenderAssumption PROVE SenderInv'
<1> DEFINE at == ending.at
           there == blob.exists /\ 1..at \subseteq staged \cup DOMAIN blob.cells
<1>1. /\ UNCHANGED <<fixed, destData, modified, sending, sole, cell, undeleted>>
      /\ ending.pc = "flush" /\ kind = "adls"
  BY DEF Flush, SenderInv, TurnsInv
<1>2. PICK a \in Answers(ending.try, there) :
          /\ blob' = IF a.effect THEN [blob EXCEPT !.cells = SubSeq(source, 1, at)] ELSE blob
          /\ staged' = IF a.effect THEN (IF at = Size THEN {} ELSE staged \ (1..at)) ELSE staged
          /\ ending' =
                CASE a.then = "again" -> [ending EXCEPT !.try = @ + 1]
                  [] a.then = "failed" \/ (a.then = "ok" /\ at = Size) ->
                        [ending EXCEPT !.pc = "length", !.try = 1]
                  [] OTHER -> [ending EXCEPT !.try = 1,
                                   !.at = IF Size < at + FlushThreshold THEN Size
                                          ELSE at + FlushThreshold]
          /\ IF a.then = "failed" THEN FailSend ELSE UNCHANGED <<sendStatus, sendCancelled>>
  BY DEF Flush
<1>3. /\ sending.pc = "done" /\ \A c \in Cells : cell[c].pc = "done"
      /\ modified /\ sendStatus # "success"
  BY <1>1, InitiatorIsDone DEF SenderInv, MarkedInv, SettledInv
<1>4. /\ Size \in Nat /\ at \in 0..Size /\ source \in Seq({"zero", "new"}) /\ Size = Len(source)
      /\ blob \in BlobRecord /\ sendCancelled \in BOOLEAN /\ sendStatus \in Statuses
  BY CellsShape
     DEF SenderInv, SendTypes, ActorTypes, TransferTypes, ServiceTypes, Size
<1>5. /\ a.effect \in BOOLEAN /\ (a.effect => blob.exists)
      /\ a.then \in {"ok", "again", "failed"} /\ (a.then = "again" => ~sendCancelled)
      /\ (a.then = "ok" => a.effect)
  BY <1>4, AnswersShape DEF BlobRecord
<1>6. /\ ending' \in [pc : EndingPcs, try : Nat, at : 0..Size]
      /\ ending'.pc \in {"flush", "length"}
      /\ ending'.pc = "length" => a.then = "failed" \/ (a.then = "ok" /\ at = Size)
  <2>0. ending \in [pc : EndingPcs, try : Nat, at : 0..Size] /\ ending.try + 1 \in Nat
        /\ {"flush", "length"} \subseteq EndingPcs
    BY DEF SenderInv, SendTypes, ActorTypes, EndingPcs
  <2>1. (IF Size < at + FlushThreshold THEN Size ELSE at + FlushThreshold) \in 0..Size
    BY <1>4, SenderAssumption
  <2>2. CASE a.then = "again"
    <3>1. ending' = [ending EXCEPT !.try = @ + 1]
      BY <1>2, <2>2
    <3> QED BY <1>1, <2>0, <3>1
  <2>3. CASE a.then = "failed" \/ (a.then = "ok" /\ at = Size)
    <3>1. ending' = [ending EXCEPT !.pc = "length", !.try = 1]
      BY <1>2, <2>3
    <3> QED BY <2>0, <2>3, <3>1
  <2>4. CASE a.then = "ok" /\ at # Size
    <3>1. ending' = [ending EXCEPT !.try = 1, !.at = IF Size < at + FlushThreshold THEN Size
                                                      ELSE at + FlushThreshold]
      BY <1>2, <2>4
    <3> QED BY <1>1, <2>0, <2>1, <3>1
  <2> QED BY <1>5, <2>2, <2>3, <2>4
<1>7. /\ sendCancelled' \in BOOLEAN /\ (sendCancelled => sendCancelled')
      /\ sendStatus' \in Statuses /\ sendStatus' # "success"
      /\ (sendStatus' \in {"failed", "cancelled"} => sendCancelled')
      /\ (~sendCancelled' => ~sendCancelled /\ a.then # "failed")
  BY <1>2, <1>3, <1>4 DEF SenderInv, SettledInv, FailSend, Statuses
<1>8. /\ SubSeq(source, 1, at) \in Seq({"zero", "old", "new"})
      /\ at = Size => SubSeq(source, 1, at) = source
  <2>1. \A i \in 1..at : source[i] \in {"zero", "old", "new"}
    BY <1>4, CellsShape DEF SenderInv, SendTypes
  <2> QED BY <1>4, <2>1, SubSeqProperties, SubSeqFull
<1>9. blob' \in BlobRecord /\ (a.effect => blob'.cells = SubSeq(source, 1, at))
      /\ blob'.exists = blob.exists
  BY <1>2, <1>4, <1>5, <1>8 DEF BlobRecord
<1> HIDE DEF at, there
<1> USE FixedStay DEF SenderInv, SendTypes
<1>10. TransferTypes' /\ ActorTypes'
  BY <1>1, <1>6, <1>7 DEF TransferTypes, ActorTypes
<1>11. ServiceTypes'
  BY <1>1, <1>2, <1>9 DEF ServiceTypes
<1>12. ListsInv' /\ TurnsInv' /\ SendingInv' /\ MarkedInv'
  BY <1>1, <1>3, <1>6 DEF ListsInv, TurnsInv, SendingInv, MarkedInv
<1>13. ArrivingInv'
  BY <1>1, <1>3, <1>7, <1>9 DEF ArrivingInv, InPlace
<1>14. SettledInv'
  <2>1. ~sendCancelled' /\ ending'.pc = "length" => Whole'
    <3>1. ~sendCancelled' /\ ending'.pc = "length" => at = Size /\ a.effect
      BY <1>5, <1>6, <1>7
    <3> QED BY <1>1, <1>5, <1>8, <1>9, <3>1 DEF Whole
  <2> QED BY <1>6, <1>7, <2>1 DEF SettledInv
<1> QED BY <1>10, <1>11, <1>12, <1>13, <1>14

(***************************************************************************)
(* The initiator.                                                          *)
(***************************************************************************)
LEMMA CreateKeeps == ASSUME SenderInv, CreateDestination PROVE SenderInv'
<1>1. PICK a \in Answers(sending.try, TRUE) :
          /\ blob' = IF a.effect THEN NewlyCreated ELSE blob
          /\ sending' = IF a.then = "again" THEN [sending EXCEPT !.try = @ + 1] ELSE Scheduling
          /\ modified' = (modified \/ a.then = "ok"
                             \/ (a.then = "failed" /\ kind \in {"file", "adls"}))
          /\ IF a.then = "failed" THEN FailSend ELSE UNCHANGED <<sendStatus, sendCancelled>>
  BY DEF CreateDestination
<1>2. /\ UNCHANGED <<fixed, staged, destData, sole, cell, ending, undeleted>>
      /\ sending.pc = "prologue" /\ kind # "disk"
  BY DEF CreateDestination
<1>3. /\ a.effect \in BOOLEAN /\ a.then \in {"ok", "again", "failed"}
      /\ a.then = "again" => ~sendCancelled
      /\ a.then = "ok" => a.effect
  BY AnswersShape
<1>4. ending.pc = "none" /\ sending.next \in Cells /\ \A c \in Cells : cell[c].pc = "unscheduled"
  <2>1. sending.next = 1 /\ \A c \in Cells : cell[c].pc = "unscheduled"
    BY <1>2, CellsShape DEF SenderInv, TurnsInv, SendTypes
  <2> QED BY <1>2, <2>1, CellsShape DEF SenderInv, TurnsInv, SendTypes
<1>5. Size \in Nat /\ source \in [1..Size -> {"zero", "new"}] /\ 1..Size \subseteq Cells
  BY CellsShape DEF SenderInv, SendTypes
<1>6. /\ NewlyCreated \in BlobRecord /\ NewlyCreated.exists
      /\ "new" \notin ToSet(NewlyCreated.cells)
      /\ kind \in InPlace => /\ Len(NewlyCreated.cells) = Size
                             /\ \A c \in 1..Size : NewlyCreated.cells[c] = "zero"
      /\ kind = "append" => Len(NewlyCreated.cells) = 0
  <2>1. CASE kind \in {"append", "adls"}
    <3>1. NewlyCreated = [exists |-> TRUE, cells |-> << >>]
      BY <2>1 DEF NewlyCreated
    <3>2. << >> \in Seq({"zero", "old", "new"}) /\ Len(<< >>) = 0 /\ ToSet(<< >>) = {}
      BY DEF ToSet
    <3> QED BY <2>1, <3>1, <3>2 DEF BlobRecord, InPlace
  <2>2. CASE kind \notin {"append", "adls"}
    <3> DEFINE zeros == [c \in 1..Size |-> "zero"]
    <3>1. NewlyCreated = [exists |-> TRUE, cells |-> zeros]
      BY <2>2 DEF NewlyCreated
    <3>2. zeros \in [1..Size -> {"zero", "old", "new"}]
      OBVIOUS
    <3>3. zeros \in Seq({"zero", "old", "new"})
      BY <1>5, <3>2, SeqDef
    <3>4. Len(zeros) = Size /\ DOMAIN zeros = 1..Size
      BY <1>5, <3>3, LenProperties
    <3>5. \A c \in 1..Size : zeros[c] = "zero"
      OBVIOUS
    <3>6. "new" \notin ToSet(zeros)
      BY <3>4, <3>5 DEF ToSet
    <3> HIDE DEF zeros
    <3> QED BY <2>2, <3>1, <3>3, <3>4, <3>5, <3>6 DEF BlobRecord
  <2> QED BY <2>1, <2>2
<1>7. /\ sending' \in Initiator
      /\ sending'.next = sending.next /\ sending'.next = 1
      /\ sending'.pc = IF a.then = "again" THEN "prologue" ELSE "schedule"
  <2>1. sending \in Initiator
        /\ sending.next = 1 /\ sending.try + 1 \in Nat
    BY <1>2 DEF SenderInv, SendTypes, ActorTypes, Initiator, TurnsInv
  <2>2. CASE a.then = "again"
    BY <1>1, <1>2, <2>1, <2>2 DEF Initiator
  <2>3. CASE a.then # "again"
    BY <1>1, <2>1, <2>3 DEF Scheduling, Initiator
  <2> QED BY <2>2, <2>3
<1>8. /\ sendCancelled' \in BOOLEAN /\ (sendCancelled => sendCancelled')
      /\ sendStatus' \in {sendStatus, "failed"} /\ (sendStatus' = "failed" => sendCancelled')
      /\ ~sendCancelled' => ~sendCancelled /\ a.then # "failed"
  BY <1>1, Zenon DEF SenderInv, SendTypes, TransferTypes, SettledInv, FailSend
<1>9. modified' \in BOOLEAN /\ (kind \in {"file", "adls"} /\ a.then # "again" => modified')
      /\ (modified => modified')
  BY <1>1, <1>3 DEF SenderInv, SendTypes, TransferTypes
<1>10. a.effect => blob' = NewlyCreated
  BY <1>1
<1>11. ~a.effect => blob' = blob
  BY <1>1
<1> USE FixedStay, <1>2 DEF SenderInv, SendTypes
<1>12. TransferTypes'
  BY <1>8, <1>9 DEF TransferTypes, Statuses
<1>13. ActorTypes'
  BY <1>7 DEF ActorTypes
<1>14. ServiceTypes'
  BY <1>3, <1>6, <1>10, <1>11 DEF ServiceTypes
<1>15. ListsInv' /\ TurnsInv'
  BY <1>4, <1>7 DEF ListsInv, TurnsInv
<1>16. SendingInv'
  BY <1>4 DEF SendingInv
<1>17. MarkedInv'
  <2>1. ToSet(blob.cells)' = ToSet(blob'.cells)
    OBVIOUS
  <2>2. ~modified' => "new" \notin ToSet(blob'.cells)
    BY <1>3, <1>6, <1>9, <1>10, <1>11 DEF MarkedInv
  <2> QED BY <1>3, <1>7, <1>9, <2>1, <2>2 DEF MarkedInv
<1>18. ArrivingInv'
  <2> SUFFICES ASSUME ~sendCancelled', sending'.pc # "prologue"
               PROVE  /\ blob'.exists
                      /\ kind = "append" => Len(blob'.cells) = 0
                      /\ kind \in InPlace => /\ Len(blob'.cells) = Size
                                             /\ \A c \in 1..Size : blob'.cells[c] = "zero"
    <3>1. \A c \in 1..Size : ~Reported(c)'
      BY <1>4, <1>5 DEF Reported
    <3> QED BY <1>5, <3>1 DEF ArrivingInv
  <2>1. a.then = "ok" /\ blob' = NewlyCreated
    BY <1>3, <1>7, <1>8, <1>10
  <2> QED BY <1>6, <2>1
<1>19. SettledInv'
  BY <1>4, <1>8, NotSettled
<1> QED BY <1>12, <1>13, <1>14, <1>15, <1>16, <1>17, <1>18, <1>19

LEMMA CheckDiskKeeps == ASSUME SenderInv, CheckDisk PROVE SenderInv'
<1>1. /\ UNCHANGED <<fixed, blob, staged, modified, sole, cell, ending, undeleted>>
      /\ sending.pc = "prologue" /\ kind = "disk" /\ sending' = [sending EXCEPT !.pc = "schedule"]
  BY DEF CheckDisk, Scheduling
<1>2. \/ FailSend /\ UNCHANGED destData
      \/ /\ Len(blob.cells) = Size
         /\ destData' = {c \in 1..Size : "dest" \in lists => blob.cells[c] # "zero"}
         /\ UNCHANGED <<sendStatus, sendCancelled>>
  BY DEF CheckDisk
<1>3. ending.pc = "none" /\ sending.next \in Cells /\ \A c \in Cells : cell[c].pc = "unscheduled"
  <2>1. sending.next = 1 /\ \A c \in Cells : cell[c].pc = "unscheduled"
    BY <1>1, CellsShape DEF SenderInv, TurnsInv, SendTypes
  <2> QED BY <1>1, <2>1, CellsShape DEF SenderInv, TurnsInv, SendTypes
<1>4. /\ sending' \in Initiator
      /\ sending'.next = sending.next /\ sending'.pc = "schedule"
  BY <1>1 DEF SenderInv, SendTypes, ActorTypes, Initiator
<1>5. /\ sendCancelled' \in BOOLEAN /\ (sendCancelled => sendCancelled')
      /\ sendStatus' \in {sendStatus, "failed"} /\ (sendStatus' = "failed" => sendCancelled')
  BY <1>2, Zenon DEF SenderInv, SendTypes, TransferTypes, SettledInv, FailSend
<1> USE FixedStay, <1>1 DEF SenderInv, SendTypes
<1>6. TransferTypes'
  BY <1>5 DEF TransferTypes, Statuses
<1>7. ActorTypes'
  BY <1>4 DEF ActorTypes
<1>8. ServiceTypes'
  BY <1>2 DEF ServiceTypes
<1>9. ListsInv' /\ TurnsInv'
  BY <1>3, <1>4 DEF ListsInv, TurnsInv
<1>10. SendingInv' /\ MarkedInv'
  BY <1>3 DEF SendingInv, MarkedInv
<1>11. ArrivingInv'
  <2> SUFFICES ASSUME ~sendCancelled' PROVE ArrivingInv'
    BY DEF ArrivingInv
  <2>1. /\ Len(blob.cells) = Size
        /\ destData' = {c \in 1..Size : "dest" \in lists => blob.cells[c] # "zero"}
    BY <1>2 DEF FailSend
  <2>2. \A c \in 1..Size : ~Reported(c)'
    BY <1>3, CellsShape DEF Reported
  <2>3. blob.exists /\ \A c \in 1..Size : c \notin destData' => blob.cells[c] = "zero"
    BY <2>1 DEF ListsInv
  <2> QED BY <2>1, <2>2, <2>3 DEF ArrivingInv
<1>12. SettledInv'
  BY <1>3, <1>5, NotSettled
<1> QED BY <1>6, <1>7, <1>8, <1>9, <1>10, <1>11, <1>12

LEMMA ScheduleKeeps == ASSUME SenderInv, ScheduleCell PROVE SenderInv'
<1> DEFINE c == sending.next
<1>1. PICK unread \in {sending.unread, local}, pc \in {"bad", "body", "noop"} :
          /\ sending' = [sending EXCEPT !.unread = unread, !.next = @ + 1,
                                        !.pc = IF c = Cardinality(Cells) THEN "done" ELSE @]
          /\ cell' = [cell EXCEPT ![c].pc = pc]
          /\ sole' \in {sole, c}
          /\ pc = "noop" => sendCancelled
  BY DEF ScheduleCell, AcquireFails
<1>2. /\ UNCHANGED <<fixed, blob, staged, destData, sendStatus, sendCancelled, modified, ending,
                     undeleted>>
      /\ sending.pc = "schedule"
  BY DEF ScheduleCell
<1>3. /\ c \in Cells /\ \A d \in Cells : d >= c => cell[d].pc = "unscheduled"
      /\ ending.pc = "none" /\ c \in Nat
  <2>1. c \in Cells /\ \A d \in Cells : d >= c => cell[d].pc = "unscheduled"
    BY <1>2 DEF SenderInv, TurnsInv
  <2> QED BY <2>1, CellsShape DEF SenderInv, SendTypes, TurnsInv
<1>4. /\ sending' \in Initiator
      /\ sending'.next = c + 1
      /\ sending'.pc = IF c = Cardinality(Cells) THEN "done" ELSE "schedule"
  <2>1. /\ sending \in Initiator
        /\ c + 1 \in Nat /\ unread \in BOOLEAN
    BY <1>1, <1>3 DEF SenderInv, SendTypes, ActorTypes, Initiator, TransferTypes
  <2> HIDE DEF c
  <2>2. /\ sending'.try = sending.try /\ sending'.unread = unread
        /\ sending' = [sending EXCEPT !.unread = unread, !.next = c + 1,
                           !.pc = IF c = Cardinality(Cells) THEN "done" ELSE "schedule"]
    BY <1>1, <1>2, <2>1 DEF c
  <2> QED BY <2>1, <2>2 DEF Initiator
<1>5. /\ cell' \in [Cells -> [pc : CellPcs, try : Nat]]
      /\ cell'[c].pc = pc /\ \A d \in Cells \ {c} : cell'[d] = cell[d]
  <2>1. cell \in [Cells -> [pc : CellPcs, try : Nat]] /\ {"bad", "body", "noop"} \subseteq CellPcs
    BY DEF SenderInv, SendTypes, ActorTypes, CellPcs
  <2> HIDE DEF c
  <2> QED BY <1>1, <1>3, <2>1
<1>6. c = Cardinality(Cells) \/ c + 1 \in Cells
  BY <1>3, CellsShape DEF SenderInv, SendTypes
<1>7. sole' \in 0..Size + 1
  BY <1>1, <1>3, CellsShape DEF SenderInv, SendTypes, ActorTypes
<1> HIDE DEF c
<1> USE FixedStay, <1>2 DEF SenderInv, SendTypes
<1>8. TransferTypes' /\ ServiceTypes'
  BY DEF TransferTypes, ServiceTypes
<1>9. ActorTypes'
  BY <1>4, <1>5, <1>7 DEF ActorTypes
<1>10. ListsInv'
  BY DEF ListsInv
<1>11. TurnsInv'
  <2>1. \A d \in Cells : d >= c + 1 => cell'[d].pc = "unscheduled"
    <3> SUFFICES ASSUME NEW d \in Cells, d >= c + 1 PROVE cell'[d].pc = "unscheduled"
      OBVIOUS
    <3>1. d # c /\ d >= c
      BY <1>3, CellsShape
    <3> QED BY <1>3, <1>5, <3>1
  <2> QED BY <1>3, <1>4, <1>6, <2>1 DEF TurnsInv
<1>12. SendingInv' /\ MarkedInv'
  <2>1. \A d \in Cells : (cell'[d].pc = "send" => cell[d].pc = "send")
                         /\ (cell'[d].pc = "noop" => cell[d].pc = "noop" \/ sendCancelled)
    BY <1>1, <1>3, <1>5
  <2> QED BY <1>4, <2>1 DEF SendingInv, MarkedInv
<1>13. ArrivingInv'
  <2>1. \A d \in 1..Size : Reported(d)' => Reported(d)
    BY <1>1, <1>3, <1>5, CellsShape DEF Reported
  <2> QED BY <2>1 DEF ArrivingInv
<1>14. SettledInv'
  BY <1>3, NotSettled DEF SettledInv
<1> QED BY <1>8, <1>9, <1>10, <1>11, <1>12, <1>13, <1>14

(***************************************************************************)
(* The chunk functions.                                                    *)
(***************************************************************************)
LEMMA ChunkIsOnItsWay ==
  ASSUME SenderInv, NEW c \in Cells, cell[c].pc \notin {"unscheduled", "done"}
  PROVE  sending.pc # "prologue" /\ ending.pc = "none"
<1>1. sending.pc = "prologue" => \A d \in Cells : cell[d].pc = "unscheduled"
  BY CellsShape DEF SenderInv, TurnsInv, SendTypes
<1>2. ending.pc # "none" => cell[c].pc = "done"
  BY DEF SenderInv, TurnsInv
<1> QED BY <1>1, <1>2

LEMMA ReleaseShape ==
  ASSUME NEW c, SendTypes, sole' \in {sole, 0}
  PROVE  sole' \in 0..Size + 1
BY CellsShape DEF SendTypes, ActorTypes

\* A chunk function that goes from one place to a later one.
LEMMA MovesOn ==
  ASSUME SenderInv, NEW c \in Cells, NEW pc \in {"send", "report", "done"}, NEW try \in Nat,
         cell[c].pc \notin {"unscheduled", "done"},
         cell' = [cell EXCEPT ![c] = [pc |-> pc, try |-> try]], Cells' = Cells
  PROVE  /\ cell' \in [Cells -> [pc : CellPcs, try : Nat]]
         /\ cell'[c].pc = pc /\ \A d \in Cells \ {c} : cell'[d] = cell[d]
         /\ sending.pc # "done" => \A d \in Cells : d >= sending.next => cell'[d].pc = "unscheduled"
<1>1. cell \in [Cells -> [pc : CellPcs, try : Nat]] /\ {"send", "report", "done"} \subseteq CellPcs
  BY DEF SenderInv, SendTypes, ActorTypes, CellPcs
<1>2. [pc |-> pc, try |-> try] \in [pc : CellPcs, try : Nat]
  BY <1>1
<1>3. /\ cell' \in [Cells -> [pc : CellPcs, try : Nat]]
      /\ cell'[c] = [pc |-> pc, try |-> try] /\ \A d \in Cells \ {c} : cell'[d] = cell[d]
  BY <1>1, <1>2
<1>4. sending.pc # "done" => ~(c >= sending.next)
  BY DEF SenderInv, TurnsInv
<1> QED BY <1>3, <1>4 DEF SenderInv, TurnsInv

LEMMA StartKeeps == ASSUME SenderInv, NEW c \in Cells, StartCell(c) PROVE SenderInv'
<1>1. PICK pc \in {"send", "report"} :
          /\ cell' = [cell EXCEPT ![c] = [pc |-> pc, try |-> 1]]
          /\ sole' \in {sole, 0}
          /\ \/ sendCancelled /\ pc = "report" /\ UNCHANGED <<sendStatus, sendCancelled, modified>>
             \/ ~sendCancelled /\ modified' = TRUE /\ pc = "report" /\ FailSend
             \/ /\ ~sendCancelled /\ modified' = TRUE /\ UNCHANGED <<sendStatus, sendCancelled>>
                /\ IF cell[c].pc = "noop" \/ NothingToSend(c) THEN pc = "report" ELSE pc = "send"
  BY DEF StartCell, Release
<1>2. /\ UNCHANGED <<fixed, blob, staged, destData, sending, ending, undeleted>>
      /\ cell[c].pc \in {"body", "bad", "noop"}
  BY DEF StartCell
<1>3. sending.pc # "prologue" /\ ending.pc = "none"
  BY <1>2, ChunkIsOnItsWay
<1>4. /\ cell' \in [Cells -> [pc : CellPcs, try : Nat]]
      /\ cell'[c].pc = pc /\ \A d \in Cells \ {c} : cell'[d] = cell[d]
      /\ sending.pc # "done" => \A d \in Cells : d >= sending.next => cell'[d].pc = "unscheduled"
      /\ sole' \in 0..Size + 1
  BY <1>1, <1>2, MovesOn, ReleaseShape, FixedStay DEF SenderInv
<1>5. /\ sendCancelled' \in BOOLEAN /\ (sendCancelled => sendCancelled') /\ modified' \in BOOLEAN
      /\ sendStatus' \in {sendStatus, "failed"} /\ (sendStatus' = "failed" => sendCancelled')
      /\ (modified => modified') /\ (modified' \/ sendCancelled)
      /\ ~sendCancelled' => IF cell[c].pc = "noop" \/ NothingToSend(c) THEN pc = "report"
                                                                      ELSE pc = "send"
      /\ pc = "send" => modified' /\ ~sendCancelled /\ ~NothingToSend(c)
  <2>0. sendCancelled \in BOOLEAN /\ modified \in BOOLEAN /\ (sendStatus = "failed" => sendCancelled)
    BY DEF SenderInv, SendTypes, TransferTypes, SettledInv
  <2>1. CASE sendCancelled /\ pc = "report" /\ UNCHANGED <<sendStatus, sendCancelled, modified>>
    BY <2>0, <2>1
  <2>2. CASE ~sendCancelled /\ modified' = TRUE /\ pc = "report" /\ FailSend
    BY <2>0, <2>2 DEF FailSend
  <2>3. CASE /\ ~sendCancelled /\ modified' = TRUE /\ UNCHANGED <<sendStatus, sendCancelled>>
             /\ IF cell[c].pc = "noop" \/ NothingToSend(c) THEN pc = "report" ELSE pc = "send"
    BY <2>0, <2>3
  <2> QED BY <1>1, <2>1, <2>2, <2>3
<1> USE FixedStay, <1>2, <1>3 DEF SenderInv, SendTypes
<1>6. TransferTypes' /\ ServiceTypes'
  BY <1>5 DEF TransferTypes, ServiceTypes, Statuses
<1>7. ActorTypes' /\ ListsInv' /\ TurnsInv'
  BY <1>4 DEF ActorTypes, ListsInv, TurnsInv
<1>8. SendingInv'
  <2>1. pc = "send" => c \in 1..Size /\ (kind \in InPlace => Len(blob.cells) = Size)
    BY <1>5, CellsShape DEF NothingToSend, ArrivingInv
  <2> QED BY <1>1, <1>4, <1>5, <2>1 DEF SendingInv
<1>9. MarkedInv'
  BY <1>5 DEF MarkedInv
<1>10. ArrivingInv'
  <2> SUFFICES ASSUME ~sendCancelled' PROVE ArrivingInv'
    BY DEF ArrivingInv
  <2>1. ~sendCancelled /\ cell[c].pc # "noop"
    BY <1>5 DEF SendingInv
  <2>2. ASSUME NEW d \in 1..Size, Reported(d)' PROVE Reported(d) \/ (d = c /\ NothingToSend(c))
    BY <1>4, <1>5, <2>1, <2>2, CellsShape DEF Reported
  <2>3. ASSUME c \in 1..Size, NothingToSend(c)
        PROVE  kind \in InPlace /\ blob.cells[c] = source[c]
    BY <2>1, <2>3, NothingSent DEF ArrivingInv
  <2> QED BY <2>1, <2>2, <2>3 DEF ArrivingInv, InPlace
<1>11. SettledInv'
  BY <1>5, NotSettled
<1> QED BY <1>6, <1>7, <1>8, <1>9, <1>10, <1>11

\* A chunk put in its place, or at the end of an append blob.
LEMMA SentShape ==
  ASSUME SenderInv, NEW c \in 1..Size, Accepts(c),
         kind \in InPlace => Len(blob.cells) = Size
  PROVE  /\ Sent(c) \in BlobRecord /\ Sent(c).exists = blob.exists
         /\ kind \in InPlace =>
               /\ Len(Sent(c).cells) = Size /\ Sent(c).cells[c] = source[c]
               /\ \A d \in 1..Size \ {c} : Sent(c).cells[d] = blob.cells[d]
         /\ kind = "append" =>
               /\ Len(blob.cells) = c - 1 /\ Len(Sent(c).cells) = c
               /\ Sent(c).cells[c] = source[c]
               /\ \A d \in 1..(c - 1) : Sent(c).cells[d] = blob.cells[d]
         /\ kind = "adls" => Sent(c) = blob
<1>1. /\ blob \in BlobRecord /\ blob.cells \in Seq({"zero", "old", "new"})
      /\ source[c] \in {"zero", "old", "new"} /\ Size \in Nat
      /\ Len(blob.cells) \in Nat
      /\ kind \in InPlace \cup {"append", "adls"}
  BY CellsShape, LenProperties
     DEF SenderInv, SendTypes, ServiceTypes, TransferTypes, BlobRecord
<1>2. CASE kind = "append"
  <2>1. Sent(c) = [blob EXCEPT !.cells = Append(@, source[c])] /\ Len(blob.cells) = c - 1
    BY <1>2 DEF Sent, Accepts
  <2> DEFINE longer == Append(blob.cells, source[c])
  <2>2. longer \in Seq({"zero", "old", "new"}) /\ Len(longer) = Len(blob.cells) + 1
    BY <1>1
  <2>3. \A d \in 1..Len(blob.cells) + 1 :
           longer[d] = IF d = Len(blob.cells) + 1 THEN source[c] ELSE blob.cells[d]
    BY <1>1
  <2> HIDE DEF longer
  <2>4. Sent(c) = [exists |-> blob.exists, cells |-> longer] /\ Sent(c) \in BlobRecord
        /\ Sent(c).exists = blob.exists /\ Sent(c).cells = longer
    BY <1>1, <2>1, <2>2 DEF BlobRecord, longer
  <2> DEFINE n == Len(blob.cells)
  <2>5. n \in Nat /\ n = c - 1 /\ c = n + 1
    BY <1>1, <2>1
  <2> HIDE DEF n
  <2>6. /\ Len(longer) = c /\ longer[c] = source[c]
        /\ \A d \in 1..(c - 1) : longer[d] = blob.cells[d]
    BY <2>2, <2>3, <2>5 DEF n
  <2> QED BY <1>2, <2>1, <2>4, <2>6 DEF InPlace
<1>3. CASE kind = "adls"
  BY <1>1, <1>3 DEF Sent, InPlace
<1>4. CASE kind \in InPlace
  <2> DEFINE put == [blob.cells EXCEPT ![c] = source[c]]
  <2>1. Sent(c) = [blob EXCEPT !.cells = put]
    BY <1>1, <1>4 DEF Sent, InPlace, BlobRecord
  <2>2. /\ put \in Seq({"zero", "old", "new"}) /\ Len(put) = Size
        /\ \A d \in 1..Size : put[d] = IF d = c THEN source[c] ELSE blob.cells[d]
    BY <1>1, <1>4, ExceptSeq
  <2> HIDE DEF put
  <2>3. Sent(c) \in BlobRecord /\ Sent(c).exists = blob.exists /\ Sent(c).cells = put
    BY <1>1, <2>1, <2>2 DEF BlobRecord
  <2> QED BY <1>4, <2>2, <2>3 DEF InPlace
<1> QED BY <1>1, <1>2, <1>3, <1>4

LEMMA SendKeeps == ASSUME SenderInv, NEW c \in Cells, SendCell(c) PROVE SenderInv'
<1>1. PICK a \in Answers(cell[c].try, Accepts(c)) :
          /\ blob' = IF a.effect THEN Sent(c) ELSE blob
          /\ staged' = IF a.effect /\ kind = "adls" THEN staged \cup {c} ELSE staged
          /\ cell' = IF a.then = "again" THEN [cell EXCEPT ![c].try = @ + 1]
                     ELSE [cell EXCEPT ![c] = [pc |-> "report", try |-> 1]]
          /\ IF a.then = "failed" THEN FailSend ELSE UNCHANGED <<sendStatus, sendCancelled>>
          /\ sole' \in {sole, 0}
  BY DEF SendCell, Release
<1>2. /\ UNCHANGED <<fixed, destData, modified, sending, ending, undeleted>>
      /\ cell[c].pc = "send"
  BY DEF SendCell
<1>3. sending.pc # "prologue" /\ ending.pc = "none"
  BY <1>2, ChunkIsOnItsWay
<1>4. /\ c \in 1..Size /\ modified
      /\ kind \in InPlace => Len(blob.cells) = Size
      /\ Size \in Nat /\ 1..Size \subseteq Cells
  BY <1>2, CellsShape DEF SenderInv, SendTypes, SendingInv
<1>5. /\ a.effect \in BOOLEAN /\ (a.effect => Accepts(c))
      /\ a.then \in {"ok", "again", "failed"} /\ (a.then = "ok" => a.effect)
  <2>1. blob.exists \in BOOLEAN
    BY DEF SenderInv, SendTypes, ServiceTypes, BlobRecord
  <2>2. Accepts(c) \in BOOLEAN
    BY <2>1 DEF Accepts
  <2> QED BY <2>2, AnswersShape
<1> DEFINE pc == IF a.then = "again" THEN "send" ELSE "report"
<1>6. /\ cell' \in [Cells -> [pc : CellPcs, try : Nat]]
      /\ cell'[c].pc = pc /\ \A d \in Cells \ {c} : cell'[d] = cell[d]
      /\ sending.pc # "done" => \A d \in Cells : d >= sending.next => cell'[d].pc = "unscheduled"
      /\ sole' \in 0..Size + 1
  <2>1. /\ cell[c] \in [pc : CellPcs, try : Nat] /\ cell[c].try + 1 \in Nat
        /\ [cell[c] EXCEPT !.try = @ + 1] = [pc |-> "send", try |-> cell[c].try + 1]
    BY <1>2 DEF SenderInv, SendTypes, ActorTypes
  <2>2. \E try \in Nat : cell' = [cell EXCEPT ![c] = [pc |-> pc, try |-> try]]
    <3>1. CASE a.then = "again"
      <4>1. cell' = [cell EXCEPT ![c] = [cell[c] EXCEPT !.try = @ + 1]] /\ pc = "send"
        BY <1>1, <3>1
      <4>2. cell' = [cell EXCEPT ![c] = [pc |-> pc, try |-> cell[c].try + 1]]
        BY <2>1, <4>1
      <4> QED BY <2>1, <4>2
    <3>2. CASE a.then # "again"
      BY <1>1, <3>2
    <3> QED BY <3>1, <3>2
  <2>3. sole' \in 0..Size + 1
    BY <1>1, ReleaseShape DEF SenderInv
  <2> QED BY <1>2, <2>2, <2>3, MovesOn, FixedStay
<1>7. /\ sendCancelled' \in BOOLEAN /\ (sendCancelled => sendCancelled')
      /\ sendStatus' \in {sendStatus, "failed"} /\ (sendStatus' = "failed" => sendCancelled')
      /\ ~sendCancelled' => ~sendCancelled /\ a.then # "failed"
  BY <1>1, Zenon DEF SenderInv, SendTypes, TransferTypes, SettledInv, FailSend
<1>8. /\ blob' \in BlobRecord /\ blob'.exists = blob.exists
      /\ a.effect => blob' = Sent(c)
      /\ ~a.effect => blob' = blob
      /\ kind \in InPlace => /\ Len(blob'.cells) = Size
                             /\ \A d \in 1..Size \ {c} : blob'.cells[d] = blob.cells[d]
                             /\ blob'.cells[c] \in {blob.cells[c], source[c]}
      /\ kind = "adls" => blob' = blob
  BY <1>1, <1>4, <1>5, SentShape DEF SenderInv, SendTypes, ServiceTypes
<1> HIDE DEF pc
<1> USE FixedStay, <1>2, <1>3 DEF SenderInv, SendTypes
<1>9. TransferTypes'
  BY <1>7 DEF TransferTypes, Statuses
<1>10. ServiceTypes'
  BY <1>1, <1>4, <1>8 DEF ServiceTypes
<1>11. ActorTypes' /\ ListsInv' /\ TurnsInv'
  BY <1>6, <1>8 DEF ActorTypes, ListsInv, TurnsInv
<1>12. SendingInv'
  <2>1. ASSUME NEW d \in Cells
        PROVE  /\ cell'[d].pc = "send" => cell[d].pc = "send"
               /\ cell'[d].pc = "noop" => cell[d].pc = "noop"
    BY <1>2, <1>6 DEF pc
  <2>2. (kind \in InPlace => Len(blob.cells)' = Size) /\ modified'
    BY <1>4, <1>8
  <2> QED BY <1>7, <2>1, <2>2 DEF SendingInv
<1>13. MarkedInv'
  BY <1>4 DEF MarkedInv
<1>14. ArrivingInv'
  <2> SUFFICES ASSUME ~sendCancelled' PROVE ArrivingInv'
    BY DEF ArrivingInv
  <2>1. ~sendCancelled /\ (pc = "report" => a.effect /\ blob' = Sent(c) /\ Accepts(c))
    BY <1>5, <1>7, <1>8 DEF pc
  <2>2. ASSUME NEW d \in 1..Size, Reported(d)' PROVE Reported(d) \/ (d = c /\ pc = "report")
    BY <1>4, <1>6, <2>2 DEF Reported, pc
  <2>3. blob'.exists
    BY <1>8, <2>1 DEF ArrivingInv
  <2>4. ASSUME kind = "append"
        PROVE  /\ Len(blob'.cells) <= Size
               /\ \A d \in 1..Len(blob'.cells) : blob'.cells[d] = source[d]
               /\ \A d \in 1..Size : Reported(d)' => d <= Len(blob'.cells)
    <3>1. /\ Len(blob.cells) <= Size
          /\ \A d \in 1..Len(blob.cells) : blob.cells[d] = source[d]
          /\ \A d \in 1..Size : Reported(d) => d <= Len(blob.cells)
      BY <2>1, <2>4 DEF ArrivingInv
    <3>2. CASE a.effect
      <4>1. /\ Len(blob.cells) = c - 1 /\ Len(blob'.cells) = c
            /\ blob'.cells[c] = source[c]
            /\ \A d \in 1..(c - 1) : blob'.cells[d] = blob.cells[d]
        BY <1>4, <1>5, <1>8, <2>4, <3>2, SentShape
      <4>2. \A d \in 1..c : blob'.cells[d] = source[d]
        BY <1>4, <3>1, <4>1
      <4>3. \A d \in 1..Size : Reported(d)' => d <= c
        BY <1>4, <2>2, <3>1, <4>1
      <4> QED BY <1>4, <4>1, <4>2, <4>3
    <3>3. CASE ~a.effect
      BY <1>8, <2>1, <2>2, <3>1, <3>3
    <3> QED BY <3>2, <3>3
  <2>5. ASSUME kind \in InPlace
        PROVE  /\ Len(blob'.cells) = Size
               /\ \A d \in 1..Size : /\ d \notin destData => blob'.cells[d] \in {"zero", source[d]}
                                     /\ Reported(d)' => blob'.cells[d] = source[d]
    <3>1. \A d \in 1..Size : /\ d \notin destData => blob.cells[d] \in {"zero", source[d]}
                             /\ Reported(d) => blob.cells[d] = source[d]
      BY <2>1, <2>5 DEF ArrivingInv
    <3>2. pc = "report" => blob'.cells[c] = source[c]
      BY <1>4, <2>1, <2>5, SentShape
    <3>3. ASSUME NEW d \in 1..Size
          PROVE  /\ d \notin destData => blob'.cells[d] \in {"zero", source[d]}
                 /\ Reported(d)' => blob'.cells[d] = source[d]
      <4>1. blob'.cells[d] \in {blob.cells[d], source[d]} /\ (d # c => blob'.cells[d] = blob.cells[d])
        BY <1>8, <2>5
      <4> QED BY <2>2, <3>1, <3>2, <4>1
    <3> QED BY <1>8, <2>5, <3>3
  <2> QED BY <2>3, <2>4, <2>5 DEF ArrivingInv
<1>15. SettledInv'
  BY <1>7, NotSettled
<1> QED BY <1>9, <1>10, <1>11, <1>12, <1>13, <1>14, <1>15

LEMMA ReportKeeps == ASSUME SenderInv, NEW c \in Cells, ReportCell(c) PROVE SenderInv'
<1>1. /\ UNCHANGED <<fixed, blob, staged, destData, sendStatus, sendCancelled, modified,
                     sending, sole, undeleted>>
      /\ cell[c].pc = "report" /\ cell' = [cell EXCEPT ![c].pc = "done"]
      /\ ending' = [ending EXCEPT !.pc = IF \A d \in Cells \ {c} : cell[d].pc = "done"
                                           THEN "start" ELSE @]
  BY DEF ReportCell
<1>2. sending.pc # "prologue" /\ ending.pc = "none"
  BY <1>1, ChunkIsOnItsWay
<1>3. /\ cell' \in [Cells -> [pc : CellPcs, try : Nat]]
      /\ cell'[c].pc = "done" /\ \A d \in Cells \ {c} : cell'[d] = cell[d]
      /\ sending.pc # "done" => \A d \in Cells : d >= sending.next => cell'[d].pc = "unscheduled"
  <2>1. cell[c] \in [pc : CellPcs, try : Nat] /\ cell[c].try \in Nat
        /\ [cell[c] EXCEPT !.pc = "done"] = [pc |-> "done", try |-> cell[c].try]
    BY DEF SenderInv, SendTypes, ActorTypes
  <2>2. cell' = [cell EXCEPT ![c] = [pc |-> "done", try |-> cell[c].try]]
    BY <1>1, <2>1
  <2> QED BY <1>1, <2>1, <2>2, MovesOn, FixedStay
<1>4. /\ ending' \in [pc : EndingPcs, try : Nat, at : 0..Size]
      /\ ending'.pc \in {"none", "start"}
      /\ ending'.pc = "start" => \A d \in Cells \ {c} : cell[d].pc = "done"
  BY <1>1, <1>2 DEF SenderInv, SendTypes, ActorTypes, EndingPcs
<1> USE FixedStay, <1>1, <1>2 DEF SenderInv, SendTypes
<1>5. TransferTypes' /\ ServiceTypes' /\ ListsInv' /\ MarkedInv'
  BY DEF TransferTypes, ServiceTypes, ListsInv, MarkedInv
<1>6. ActorTypes' /\ TurnsInv'
  BY <1>3, <1>4 DEF ActorTypes, TurnsInv
<1>7. SendingInv'
  BY <1>3 DEF SendingInv
<1>8. ArrivingInv'
  <2>1. \A d \in 1..Size : Reported(d)' => Reported(d)
    BY <1>3, CellsShape DEF Reported
  <2> QED BY <2>1 DEF ArrivingInv
<1>9. SettledInv'
  BY <1>4 DEF SettledInv
<1> QED BY <1>5, <1>6, <1>7, <1>8, <1>9

(***************************************************************************)
(* The theorem.                                                            *)
(***************************************************************************)
LEMMA NextSends == ASSUME SenderInv, [SenderNext]_senderVars, SenderAssumption PROVE SenderInv'
<1>1. CASE EndingStep
  BY <1>1, BeginEpilogueKeeps, ServiceEpilogueKeeps, FlushKeeps, CheckLengthKeeps, CleanupKeeps,
     ConcludeKeeps DEF EndingStep
<1>2. CASE InitiatorStep
  BY <1>2, CreateKeeps, CheckDiskKeeps, ScheduleKeeps DEF InitiatorStep
<1>3. CASE \E c \in Cells : CellStep(c)
  BY <1>3, StartKeeps, SendKeeps, ReportKeeps DEF CellStep
<1>4. CASE UNCHANGED senderVars
  <2>1. UNCHANGED <<fixed, blob, staged, destData, modified, sending, sole, cell, undeleted,
                    sendStatus, sendCancelled, ending>>
    BY <1>4 DEF senderVars, fixed
  <2>2. SettledInv'
    BY <2>1, FixedStay DEF SenderInv, SettledInv, Whole
  <2> QED BY <2>1, <2>2, SameContent DEF SenderInv, SendTypes, TransferTypes, ActorTypes, TurnsInv
<1> QED BY <1>1, <1>2, <1>3, <1>4, CancelKeeps DEF SenderNext

LEMMA SenderInvHolds == SenderSpec => []SenderInv
<1>1. SenderInv /\ [SenderNext]_senderVars => SenderInv'
  BY NextSends, SenderAssumption
<1> QED BY <1>1, InitSends, PTL DEF SenderSpec

LEMMA SenderInvSuffices == SenderInv => AllOrNothing
<1> SUFFICES ASSUME SenderInv PROVE AllOrNothing
  OBVIOUS
<1>1. SenderTypeOK
  BY DEF SenderInv, SendTypes, TransferTypes, ActorTypes, ServiceTypes, BlobRecord, Statuses,
         CellPcs, SenderTypeOK
<1> QED BY <1>1 DEF SenderInv, SettledInv, AllOrNothing

\* A transfer to a destination that is built in place is a success only when the
\* destination has the whole content of the source, and one that is over and was
\* no success leaves no part of it behind, unless the deletion failed.
THEOREM SentWholeOrGone == SenderSpec => []AllOrNothing
<1> QED BY SenderInvHolds, SenderInvSuffices, PTL


----------------------------------------------------------------------------
Places == {"waiting", "ready", "creating", "recording", "ensured", "set", "skip", "stop", "done"}
PlanStatuses == {"started", "created", "success"} \cup Failing

CreationTypeOK ==
    /\ remote \subseteq Folders /\ before \subseteq remote /\ unregistered \subseteq Folders
    /\ plan \in [Transfers -> PlanStatuses]
    /\ contents \in [Folders -> Nat]
    /\ scheduled \in 0..Len(Order)
    /\ act \in [Transfers -> [pc : Places, todo : Seq(Folders)]]

FolderTransfers == {t \in Transfers : IsFolder[t]}

(* A folder is registered from the scheduling of its transfer to its end,  *)
(* and only then; what was created earlier is remembered apart.            *)
Registered ==
    /\ \A t \in FolderTransfers :
          contents[FolderOf(t)] = IF act[t].pc \in {"waiting", "done"} THEN 0 ELSE IndexOf[t]
    /\ \A d \in Folders : contents[d] # 0 => \E t \in FolderTransfers : FolderOf(t) = d
    /\ \A d \in unregistered : contents[d] = 0
    /\ \A t \in Transfers : act[t].pc \in {"set", "skip", "stop"} => IsFolder[t]
    /\ \A i \in 1..Len(Order) : i > scheduled => act[Order[i]].pc = "waiting"

(* A transfer that is the folder's own has failed or skipped once.         *)
GaveUp(t) == IsFolder[t] /\ FolderOf(t) \in gaveUp

(* A creation that counts is remembered, or in the plan.                   *)
Counts(t) == FolderOf(t) \in noted \ lost /\ store # "adlsWithSAS"
Honoured ==
    /\ \A p \in Transfers : plan[p] \in Failing => GaveUp(p)
    /\ \A t \in FolderTransfers : \A p \in Slot(IndexOf[t]) :
          Counts(t) /\ FolderOf(t) \notin unregistered =>
              plan[p] \in {"created", "success"} \/ GaveUp(p)
    /\ \A t \in FolderTransfers :
          act[t].pc \in {"ready", "creating", "recording", "ensured"} => plan[t] # "success"

(* Only folders of this job are recorded as created, and a status in the   *)
(* plan that says so is due to a folder of that index.                     *)
RecordedFor(p) == \E s \in FolderTransfers : IndexOf[s] = IndexOf[p] /\ FolderOf(s) \in noted
OnlyOwn ==
    /\ noted \cap before = {} /\ unregistered \subseteq noted
    /\ \A p \in Transfers : plan[p] = "created" => RecordedFor(p)
    /\ \A t \in Transfers : act[t].pc = "recording" =>
          act[t].todo # << >> /\ Head(act[t].todo) \notin before
    /\ Overwrite = "false" =>
          /\ \A d \in propsSet \cap before : SharesSlot(d)
          /\ \A t \in Transfers :
                act[t].pc = "set" /\ FolderOf(t) \in before => SharesSlot(FolderOf(t))

CreationInv == CreationTypeOK /\ Registered /\ Honoured /\ OnlyOwn

LEMMA CreationShape ==
  /\ \A t \in Transfers : FolderOf(t) \in Folders /\ PathOf[t] \in Seq(Folders)
  /\ \A i \in 1..Len(Order) : Order[i] \in Transfers
  /\ \A i, j \in 1..Len(Order) : Order[i] = Order[j] => i = j
  /\ Len(Order) \in Nat
  /\ \A t \in FolderTransfers : IndexOf[t] \in Nat \ {0}
  /\ \A s, t \in FolderTransfers : FolderOf(s) = FolderOf(t) => s = t
<1>1. ASSUME NEW t \in Transfers PROVE FolderOf(t) \in Folders /\ PathOf[t] \in Seq(Folders)
  <2>1. PathOf[t] \in Seq(Folders) /\ PathOf[t] # << >>
    BY CreationAssumption
  <2>2. Len(PathOf[t]) \in 1..Len(PathOf[t])
    <3>1. Len(PathOf[t]) \in Nat \ {0}
      BY <2>1, EmptySeq
    <3> QED BY <3>1
  <2> QED BY <2>1, <2>2, ElementOfSeq DEF FolderOf, Last
<1>2. Order \in Seq(Transfers)
  BY CreationAssumption
<1>3. DOMAIN Order = 1..Len(Order)
  BY <1>2
<1>4. \A i, j \in 1..Len(Order) : Order[i] = Order[j] => i = j
  BY <1>3, CreationAssumption DEF IsInjective
<1> QED BY <1>1, <1>2, <1>4, CreationAssumption DEF FolderTransfers

LEMMA Marking ==
  ASSUME NEW statuses \in [Transfers -> PlanStatuses], NEW index
  PROVE  /\ MarkCreated(statuses, index) \in [Transfers -> PlanStatuses]
         /\ \A u \in Transfers :
               MarkCreated(statuses, index)[u] =
                   IF u \in Slot(index) /\ statuses[u] \notin Failing
                   THEN "created" ELSE statuses[u]
  BY DEF MarkCreated, PlanStatuses

LEMMA SlotOfIndex ==
  ASSUME NEW t \in FolderTransfers
  PROVE  \E p \in Transfers : Slot(IndexOf[t]) = {p} /\ IndexOf[p] = IndexOf[t] /\ PartOf[p] = 0
<1>1. PICK p \in Transfers : PartOf[p] = 0 /\ IndexOf[p] = IndexOf[t]
  BY CreationAssumption DEF FolderTransfers
<1>2. \A u \in Transfers : PartOf[u] = 0 /\ IndexOf[u] = IndexOf[t] => u = p
  BY <1>1, CreationAssumption
<1> QED BY <1>1, <1>2 DEF Slot

(* What is shared or recorded for stays so: records are not taken back.    *)
LEMMA RecordsStay ==
  ASSUME noted \subseteq noted'
  PROVE  /\ \A d : SharesSlot(d) => SharesSlot(d)'
         /\ \A p : RecordedFor(p) => RecordedFor(p)'
  BY Zenon DEF SharesSlot, RecordedFor

LEMMA HistoryStays ==
  ASSUME UNCHANGED <<store, noted, gaveUp, lost>>
  PROVE  \A t : (GaveUp(t)' <=> GaveUp(t)) /\ (Counts(t)' <=> Counts(t))
  BY DEF GaveUp, Counts

LEMMA CreationInitInv == CreationInit => CreationInv
<1> SUFFICES ASSUME CreationInit PROVE CreationInv
  OBVIOUS
<1>1. CreationTypeOK
  <2>1. << >> \in Seq(Folders)
    BY EmptySeq
  <2>2. [pc |-> "waiting", todo |-> << >>] \in [pc : Places, todo : Seq(Folders)]
    BY <2>1 DEF Places
  <2>3. act \in [Transfers -> [pc : Places, todo : Seq(Folders)]]
    BY <2>2 DEF CreationInit
  <2>4. scheduled \in 0..Len(Order)
    BY CreationShape DEF CreationInit
  <2>5. plan \in [Transfers -> PlanStatuses]
    BY DEF CreationInit, PlanStatuses
  <2> QED BY <2>3, <2>4, <2>5 DEF CreationInit, CreationTypeOK
<1>2. \A t \in Transfers : act[t].pc = "waiting" /\ plan[t] = "started"
  BY DEF CreationInit
<1>3. \A d \in Folders : contents[d] = 0
  BY DEF CreationInit
<1>4. unregistered = {} /\ noted = {} /\ propsSet = {}
  BY DEF CreationInit
<1>5. Registered
  BY <1>2, <1>3, <1>4, CreationShape DEF Registered, FolderTransfers
<1>6. Honoured
  <2>1. \A t \in Transfers : ~Counts(t)
    BY <1>4 DEF Counts
  <2>2. \A t \in FolderTransfers : t \in Transfers
    BY DEF FolderTransfers
  <2> QED BY <1>2, <2>1, <2>2 DEF Honoured, Failing
<1>7. OnlyOwn
  BY <1>2, <1>4 DEF OnlyOwn, FolderTransfers, RecordedFor, SharesSlot
<1> QED BY <1>1, <1>5, <1>6, <1>7 DEF CreationInv

(* A step of one transfer that only moves it on.                           *)
LEMMA Moves ==
  ASSUME CreationTypeOK, NEW t \in Transfers, NEW pc \in Places, NEW todo \in Seq(Folders),
         Goes(t, pc, todo)
  PROVE  /\ act' \in [Transfers -> [pc : Places, todo : Seq(Folders)]]
         /\ act'[t].pc = pc /\ act'[t].todo = todo
         /\ \A u \in Transfers : u # t => act'[u] = act[u]
  BY DEF Goes, CreationTypeOK

LEMMA NoTodo == << >> \in Seq(Folders)
  BY EmptySeq

(* What is registered is so still when nobody starts or ends.              *)
LEMMA StaysRegistered ==
  ASSUME Registered, UNCHANGED <<contents, scheduled>>, \A d \in unregistered' : contents[d] = 0,
         \A u \in Transfers : /\ act'[u].pc = "waiting" <=> act[u].pc = "waiting"
                              /\ IsFolder[u] => (act'[u].pc = "done" <=> act[u].pc = "done")
                              /\ act'[u].pc \in {"set", "skip", "stop"} => IsFolder[u]
  PROVE  Registered'
<1>1. ASSUME NEW u \in FolderTransfers
      PROVE  contents'[FolderOf(u)] = IF act'[u].pc \in {"waiting", "done"} THEN 0 ELSE IndexOf[u]
  <2>1. contents[FolderOf(u)] = IF act[u].pc \in {"waiting", "done"} THEN 0 ELSE IndexOf[u]
    BY DEF Registered
  <2>2. act'[u].pc \in {"waiting", "done"} <=> act[u].pc \in {"waiting", "done"}
    BY DEF FolderTransfers
  <2> QED BY <2>1, <2>2
<1>2. ASSUME NEW i \in 1..Len(Order), i > scheduled'
      PROVE  act'[Order[i]].pc = "waiting"
  <2>1. Order[i] \in Transfers
    BY CreationShape
  <2>2. act[Order[i]].pc = "waiting"
    BY <1>2 DEF Registered
  <2> QED BY <2>1, <2>2
<1>3. \A d \in Folders : contents'[d] # 0 => \E u \in FolderTransfers : FolderOf(u) = d
  BY DEF Registered
<1>4. \A d \in unregistered' : contents'[d] = 0
  OBVIOUS
<1>5. \A u \in Transfers : act'[u].pc \in {"set", "skip", "stop"} => IsFolder[u]
  OBVIOUS
<1> QED BY <1>1, <1>2, <1>3, <1>4, <1>5 DEF Registered, FolderTransfers

LEMMA LookStep ==
  ASSUME CreationInv, NEW t \in Transfers, LookForFolder(t)
  PROVE  CreationInv'
<1>1. PICK pc \in {"ensured", "creating"}, todo \in Seq(Folders) : Goes(t, pc, todo)
  <2>1. PathOf[t] \in Seq(Folders) /\ <<FolderOf(t)>> \in Seq(Folders)
    BY CreationShape
  <2> QED BY <2>1, NoTodo, Zenon DEF LookForFolder
<1>2. /\ act' \in [Transfers -> [pc : Places, todo : Seq(Folders)]]
      /\ act'[t].pc = pc /\ \A u \in Transfers : u # t => act'[u] = act[u]
  BY <1>1, Moves DEF Places, CreationInv
<1>3. act[t].pc = "ready" /\ UNCHANGED <<store, remote, before, plan, contents, unregistered, scheduled,
                   noted, gaveUp, lost, propsSet>>
  BY DEF LookForFolder
<1>4. CreationTypeOK'
  BY <1>2, <1>3 DEF CreationInv, CreationTypeOK
<1>5. Registered'
  <2>1. \A u \in Transfers : /\ act'[u].pc = "waiting" <=> act[u].pc = "waiting"
                             /\ IsFolder[u] => (act'[u].pc = "done" <=> act[u].pc = "done")
                             /\ act'[u].pc \in {"set", "skip", "stop"} => IsFolder[u]
    BY <1>2, <1>3 DEF CreationInv, Registered, FolderTransfers
  <2>2. Registered /\ \A d \in unregistered : contents[d] = 0
    BY DEF CreationInv, Registered
  <2> QED BY <1>3, <2>1, <2>2, StaysRegistered
<1>6. Honoured'
  BY <1>2, <1>3, HistoryStays DEF CreationInv, Honoured, FolderTransfers, Slot
<1>7. OnlyOwn'
  <2>1. /\ \A e : SharesSlot(e) => SharesSlot(e)'
        /\ \A q : RecordedFor(q) => RecordedFor(q)'
    BY <1>3, RecordsStay
  <2> QED BY <1>2, <1>3, <2>1 DEF CreationInv, OnlyOwn
<1> QED BY <1>4, <1>5, <1>6, <1>7 DEF CreationInv

LEMMA RangeOfPath == \A t \in Transfers : ToSet(PathOf[t]) \subseteq Folders
  BY DEF Folders

LEMMA CreateStep ==
  ASSUME CreationInv, NEW t \in Transfers, CreateFolder(t)
  PROVE  CreationInv'
<1>1. act[t].pc = "creating" /\ UNCHANGED <<store, before, plan, contents, unregistered, scheduled,
                   noted, gaveUp, lost, propsSet>>
  BY DEF CreateFolder
<1>2. act[t].todo \in Seq(Folders)
  BY DEF CreationInv, CreationTypeOK
<1>3. act[t].todo # << >> => Head(act[t].todo) \in Folders /\ Tail(act[t].todo) \in Seq(Folders)
  BY <1>2
<1>4. PICK pc \in {"ensured", "creating", "recording"}, todo \in Seq(Folders) :
         /\ Goes(t, pc, todo)
         /\ pc = "recording" => todo # << >> /\ Head(todo) \notin remote
  BY <1>2, <1>3, NoTodo DEF CreateFolder
<1>5. /\ act' \in [Transfers -> [pc : Places, todo : Seq(Folders)]]
      /\ act'[t].pc = pc /\ act'[t].todo = todo /\ \A u \in Transfers : u # t => act'[u] = act[u]
  BY <1>4, Moves DEF Places, CreationInv
<1>6. remote \subseteq remote' /\ remote' \subseteq Folders
  BY <1>3, CreationShape, RangeOfPath DEF CreateFolder, CreationInv, CreationTypeOK
<1>7. CreationTypeOK'
  BY <1>1, <1>5, <1>6 DEF CreationInv, CreationTypeOK
<1>8. Registered'
  <2>1. \A u \in Transfers : /\ act'[u].pc = "waiting" <=> act[u].pc = "waiting"
                             /\ IsFolder[u] => (act'[u].pc = "done" <=> act[u].pc = "done")
                             /\ act'[u].pc \in {"set", "skip", "stop"} => IsFolder[u]
    BY <1>1, <1>5 DEF CreationInv, Registered, FolderTransfers
  <2>2. Registered /\ \A d \in unregistered : contents[d] = 0
    BY DEF CreationInv, Registered
  <2> QED BY <1>1, <2>1, <2>2, StaysRegistered
<1>9. Honoured'
  BY <1>1, <1>5, HistoryStays DEF CreationInv, Honoured, FolderTransfers, Slot
<1>10. OnlyOwn'
  <2>1. /\ \A e : SharesSlot(e) => SharesSlot(e)'
        /\ \A q : RecordedFor(q) => RecordedFor(q)'
    BY <1>1, RecordsStay
  <2> QED BY <1>1, <1>4, <1>5, <2>1 DEF CreationInv, CreationTypeOK, OnlyOwn
<1> QED BY <1>7, <1>8, <1>9, <1>10 DEF CreationInv

(* A record changes nothing but the plan, or what is remembered apart.     *)
LEMMA RecordStep ==
  ASSUME CreationInv, NEW t \in Transfers, RecordCreation(t)
  PROVE  CreationInv'
<1> DEFINE d == Head(act[t].todo)
<1>1. /\ act[t].pc = "recording"
      /\ UNCHANGED <<store, remote, before, contents, scheduled, gaveUp, lost, propsSet>>
  BY DEF RecordCreation
<1>2. act[t].todo \in Seq(Folders) /\ act[t].todo # << >> /\ d \notin before
  BY <1>1 DEF CreationInv, CreationTypeOK, OnlyOwn
<1>3. d \in Folders /\ Tail(act[t].todo) \in Seq(Folders)
  BY <1>2
<1>4. Goes(t, "creating", Tail(act[t].todo)) /\ noted' = noted \cup {d}
  BY DEF RecordCreation
<1>5. /\ act' \in [Transfers -> [pc : Places, todo : Seq(Folders)]]
      /\ act'[t].pc = "creating" /\ \A u \in Transfers : u # t => act'[u] = act[u]
  BY <1>3, <1>4, Moves DEF Places, CreationInv
<1>6. \/ /\ store = "adlsWithSAS" /\ UNCHANGED <<plan, unregistered>>
      \/ /\ contents[d] # 0 /\ plan' = MarkCreated(plan, contents[d]) /\ UNCHANGED unregistered
      \/ /\ contents[d] = 0 /\ unregistered' = unregistered \cup {d} /\ UNCHANGED plan
  BY DEF RecordCreation
<1> HIDE DEF d
<1>7. plan \in [Transfers -> PlanStatuses] /\ noted \subseteq noted'
  BY <1>4 DEF CreationInv, CreationTypeOK
<1>8. \/ UNCHANGED plan
      \/ \E s \in FolderTransfers :
            /\ FolderOf(s) = d /\ UNCHANGED unregistered
            /\ \A u \in Transfers : plan'[u] = IF u \in Slot(IndexOf[s]) /\ plan[u] \notin Failing
                                               THEN "created" ELSE plan[u]
  <2>1. CASE contents[d] # 0 /\ plan' = MarkCreated(plan, contents[d]) /\ UNCHANGED unregistered
    <3>1. PICK s \in FolderTransfers : FolderOf(s) = d
      BY <1>3, <2>1 DEF CreationInv, Registered
    <3>2. contents[d] = IndexOf[s]
      BY <2>1, <3>1 DEF CreationInv, Registered
    <3> QED BY <1>7, <2>1, <3>1, <3>2, Marking
  <2> QED BY <1>6, <2>1
<1>9. plan' \in [Transfers -> PlanStatuses] /\ unregistered \subseteq unregistered'
      /\ unregistered' \subseteq unregistered \cup {d}
  BY <1>6, <1>7, Marking
<1>10. CreationTypeOK'
  BY <1>1, <1>3, <1>5, <1>9 DEF CreationInv, CreationTypeOK
<1>11. Registered'
  <2>1. \A u \in Transfers : /\ act'[u].pc = "waiting" <=> act[u].pc = "waiting"
                             /\ IsFolder[u] => (act'[u].pc = "done" <=> act[u].pc = "done")
                             /\ act'[u].pc \in {"set", "skip", "stop"} => IsFolder[u]
    BY <1>1, <1>5 DEF CreationInv, Registered
  <2>2. Registered /\ \A e \in unregistered' : contents[e] = 0
    BY <1>6 DEF CreationInv, Registered
  <2> QED BY <1>1, <2>1, <2>2, StaysRegistered
<1>12. Honoured'
  <2>1. \A u \in Transfers : plan'[u] \in Failing => plan[u] \in Failing
    BY <1>8 DEF Failing
  <2>2. \A u \in Transfers : GaveUp(u)' <=> GaveUp(u)
    BY <1>1 DEF GaveUp
  <2>3. ASSUME NEW u \in Transfers, plan[u] \in {"created", "success"} \/ GaveUp(u)
        PROVE  plan'[u] \in {"created", "success"} \/ GaveUp(u)
    BY <1>8, <2>3
  <2>4. ASSUME NEW u \in FolderTransfers, NEW q \in Slot(IndexOf[u]),
               Counts(u)', FolderOf(u) \notin unregistered'
        PROVE  plan'[q] \in {"created", "success"} \/ GaveUp(q)
    <3>1. q \in Transfers
      BY DEF Slot
    <3>2. CASE FolderOf(u) \in noted
      <4>1. Counts(u) /\ FolderOf(u) \notin unregistered
        BY <1>1, <1>9, <2>4, <3>2 DEF Counts
      <4> QED BY <2>3, <3>1, <4>1 DEF CreationInv, Honoured
    <3>3. CASE FolderOf(u) \notin noted
      <4>1. FolderOf(u) = d /\ store # "adlsWithSAS"
        BY <1>1, <1>4, <2>4, <3>3 DEF Counts
      <4>2. contents[d] # 0 /\ plan' = MarkCreated(plan, contents[d])
        BY <1>6, <2>4, <4>1
      <4>3. contents[d] = IndexOf[u]
        BY <4>1, <4>2 DEF CreationInv, Registered
      <4>4. plan'[q] = IF plan[q] \notin Failing THEN "created" ELSE plan[q]
        BY <1>7, <3>1, <4>2, <4>3, Marking
      <4>5. plan[q] \in Failing => GaveUp(q)
        BY <3>1 DEF CreationInv, Honoured
      <4> QED BY <4>4, <4>5
    <3> QED BY <3>2, <3>3
  <2>5. ASSUME NEW u \in FolderTransfers,
               act'[u].pc \in {"ready", "creating", "recording", "ensured"}
        PROVE  plan'[u] # "success"
    <3>1. act[u].pc \in {"ready", "creating", "recording", "ensured"} /\ u \in Transfers
      BY <1>1, <1>5, <2>5 DEF FolderTransfers
    <3>2. plan[u] # "success"
      BY <3>1 DEF CreationInv, Honoured
    <3> QED BY <1>8, <3>1, <3>2
  <2>6. \A u \in Transfers : plan'[u] \in Failing => GaveUp(u)'
    BY <2>1, <2>2 DEF CreationInv, Honoured
  <2>7. \A u \in FolderTransfers : \A q \in Slot(IndexOf[u]) :
           Counts(u)' /\ FolderOf(u) \notin unregistered' =>
               plan'[q] \in {"created", "success"} \/ GaveUp(q)'
    <3>1. \A u : \A q \in Slot(u) : q \in Transfers
      BY DEF Slot
    <3> QED BY <2>2, <2>4, <3>1
  <2> QED BY <2>5, <2>6, <2>7 DEF Honoured
<1>13. OnlyOwn'
  <2>1. /\ \A e : SharesSlot(e) => SharesSlot(e)'
        /\ \A q : RecordedFor(q) => RecordedFor(q)'
    BY <1>7, RecordsStay
  <2>2. noted' \cap before = {} /\ unregistered' \subseteq noted'
    BY <1>2, <1>4, <1>9 DEF CreationInv, OnlyOwn
  <2>3. ASSUME NEW q \in Transfers, plan'[q] = "created"
        PROVE  RecordedFor(q)'
    <3>1. CASE plan[q] = "created"
      BY <2>1, <3>1 DEF CreationInv, OnlyOwn
    <3>2. CASE plan[q] # "created"
      <4>1. PICK s \in FolderTransfers : FolderOf(s) = d /\ q \in Slot(IndexOf[s])
        BY <1>8, <2>3, <3>2
      <4> QED BY <1>4, <4>1 DEF RecordedFor, Slot
    <3> QED BY <3>1, <3>2
  <2>4. \A u \in Transfers : act'[u].pc = "recording" =>
           act'[u].todo # << >> /\ Head(act'[u].todo) \notin before
    BY <1>5 DEF CreationInv, OnlyOwn
  <2>5. Overwrite = "false" =>
          /\ \A e \in propsSet \cap before : SharesSlot(e)'
          /\ \A u \in Transfers :
                act'[u].pc = "set" /\ FolderOf(u) \in before => SharesSlot(FolderOf(u))'
    BY <1>5, <2>1 DEF CreationInv, OnlyOwn
  <2> QED BY <1>1, <2>2, <2>3, <2>4, <2>5 DEF OnlyOwn
<1> QED BY <1>10, <1>11, <1>12, <1>13 DEF CreationInv

LEMMA FileStep ==
  ASSUME CreationInv, NEW t \in Transfers, FinishFile(t)
  PROVE  CreationInv'
<1>1. /\ act[t].pc = "ensured" /\ ~IsFolder[t] /\ Goes(t, "done", << >>)
      /\ plan' = [plan EXCEPT ![t] = "success"]
      /\ UNCHANGED <<store, remote, before, contents, unregistered, scheduled, noted, gaveUp, lost, propsSet>>
  BY DEF FinishFile
<1>2. /\ act' \in [Transfers -> [pc : Places, todo : Seq(Folders)]]
      /\ act'[t].pc = "done" /\ \A u \in Transfers : u # t => act'[u] = act[u]
  BY <1>1, NoTodo, Moves DEF Places, CreationInv
<1>3. /\ \A u \in FolderTransfers : u # t
      /\ \A u \in Transfers : plan'[u] = IF u = t THEN "success" ELSE plan[u]
      /\ plan' \in [Transfers -> PlanStatuses]
  BY <1>1 DEF FolderTransfers, CreationInv, CreationTypeOK, PlanStatuses
<1>4. CreationTypeOK'
  BY <1>1, <1>2, <1>3 DEF CreationInv, CreationTypeOK
<1>5. Registered'
  <2>1. \A u \in Transfers : /\ act'[u].pc = "waiting" <=> act[u].pc = "waiting"
                             /\ IsFolder[u] => (act'[u].pc = "done" <=> act[u].pc = "done")
                             /\ act'[u].pc \in {"set", "skip", "stop"} => IsFolder[u]
    BY <1>1, <1>2 DEF CreationInv, Registered, FolderTransfers
  <2>2. Registered /\ \A d \in unregistered : contents[d] = 0
    BY DEF CreationInv, Registered
  <2> QED BY <1>1, <2>1, <2>2, StaysRegistered
<1>6. Honoured'
  <2>1. \A u \in Transfers : /\ GaveUp(u)' <=> GaveUp(u)
                             /\ Counts(u)' <=> Counts(u)
    BY <1>1 DEF GaveUp, Counts
  <2>2. \A u : \A q \in Slot(u) : q \in Transfers
    BY DEF Slot
  <2>3. \A u \in Transfers : plan'[u] \in Failing => GaveUp(u)'
    BY <1>3, <2>1 DEF CreationInv, Honoured, Failing
  <2>4. \A u \in FolderTransfers : \A q \in Slot(IndexOf[u]) :
           Counts(u)' /\ FolderOf(u) \notin unregistered =>
               plan'[q] \in {"created", "success"} \/ GaveUp(q)'
    BY <1>3, <2>1, <2>2 DEF CreationInv, Honoured, FolderTransfers
  <2>5. \A u \in FolderTransfers :
           act'[u].pc \in {"ready", "creating", "recording", "ensured"} => plan'[u] # "success"
    BY <1>2, <1>3 DEF CreationInv, Honoured, FolderTransfers
  <2> QED BY <1>1, <2>3, <2>4, <2>5 DEF Honoured
<1>7. OnlyOwn'
  <2>1. \A q \in Transfers : plan'[q] = "created" => RecordedFor(q)
    BY <1>3 DEF CreationInv, OnlyOwn
  <2>2. \A q : RecordedFor(q) => RecordedFor(q)'
    BY <1>1, RecordsStay
  <2>3. \A e : SharesSlot(e) => SharesSlot(e)'
    BY <1>1, RecordsStay
  <2> QED BY <1>1, <1>2, <2>1, <2>2, <2>3 DEF CreationInv, OnlyOwn
<1> QED BY <1>4, <1>5, <1>6, <1>7 DEF CreationInv

LEMMA DecideStep ==
  ASSUME CreationInv, NEW t \in Transfers, DecideFolder(t)
  PROVE  /\ CreationInv'
         /\ act'[t].pc = "skip" => ~Counts(t) \/ SlotIsTaken(t)
         /\ \A u \in Transfers : u # t => act'[u] = act[u]
<1>1. /\ act[t].pc = "ensured" /\ t \in FolderTransfers
      /\ UNCHANGED <<store, remote, before, plan, contents, unregistered, scheduled, noted, gaveUp, lost, propsSet>>
  BY DEF DecideFolder, FolderTransfers
<1>2. PICK answer \in BOOLEAN :
         Goes(t, IF ShouldSetProperties(FolderOf(t), answer) THEN "set" ELSE "skip", << >>)
  BY DEF DecideFolder
<1>3. contents[FolderOf(t)] = IndexOf[t] /\ IndexOf[t] # 0
  BY <1>1, CreationShape DEF CreationInv, Registered
<1>4. PICK p \in Transfers : Slot(IndexOf[t]) = {p} /\ IndexOf[p] = IndexOf[t]
  BY <1>1, SlotOfIndex
<1>41. Created(FolderOf(t)) <=> plan[p] = "created"
  BY <1>3, <1>4 DEF Created
<1>5. ShouldSetProperties(FolderOf(t), answer) \in BOOLEAN
  BY CreationAssumption DEF ShouldSetProperties, Created
<1>6. /\ act' \in [Transfers -> [pc : Places, todo : Seq(Folders)]]
      /\ act'[t].pc = IF ShouldSetProperties(FolderOf(t), answer) THEN "set" ELSE "skip"
      /\ \A u \in Transfers : u # t => act'[u] = act[u]
  BY <1>2, <1>5, NoTodo, Moves DEF Places, CreationInv
<1>7. act'[t].pc = "skip" => plan[p] # "created"
  BY <1>41, <1>6, CreationAssumption DEF ShouldSetProperties
<1>8. Overwrite = "false" /\ act'[t].pc = "set" /\ FolderOf(t) \in before => SharesSlot(FolderOf(t))
  <2> SUFFICES ASSUME Overwrite = "false", act'[t].pc = "set", FolderOf(t) \in before
               PROVE  SharesSlot(FolderOf(t))
    OBVIOUS
  <2>1. plan[p] = "created"
    BY <1>41, <1>6 DEF ShouldSetProperties
  <2>2. PICK s \in FolderTransfers : IndexOf[s] = IndexOf[p] /\ FolderOf(s) \in noted
    BY <2>1 DEF CreationInv, OnlyOwn, RecordedFor
  <2>3. s # t
    BY <2>2 DEF CreationInv, OnlyOwn
  <2> QED BY <1>1, <1>4, <2>2, <2>3 DEF SharesSlot, FolderTransfers
<1>9. FolderOf(t) \notin unregistered
  BY <1>3 DEF CreationInv, Registered
<1>10. act'[t].pc = "skip" => ~Counts(t) \/ SlotIsTaken(t)
  <2> SUFFICES ASSUME act'[t].pc = "skip", Counts(t) PROVE SlotIsTaken(t)
    OBVIOUS
  <2>1. plan[p] = "success" \/ GaveUp(p)
    BY <1>1, <1>4, <1>7, <1>9 DEF CreationInv, Honoured
  <2>2. plan[t] # "success"
    BY <1>1 DEF CreationInv, Honoured
  <2> QED BY <1>4, <2>1, <2>2 DEF SlotIsTaken, GaveUp
<1>11. act'[t].pc \in {"set", "skip"}
  BY <1>6
<1>12. CreationTypeOK'
  BY <1>1, <1>6 DEF CreationInv, CreationTypeOK
<1>13. Registered'
  <2>1. \A u \in Transfers : /\ act'[u].pc = "waiting" <=> act[u].pc = "waiting"
                             /\ IsFolder[u] => (act'[u].pc = "done" <=> act[u].pc = "done")
                             /\ act'[u].pc \in {"set", "skip", "stop"} => IsFolder[u]
    BY <1>1, <1>6, <1>11 DEF CreationInv, Registered, FolderTransfers
  <2>2. Registered /\ \A d \in unregistered : contents[d] = 0
    BY DEF CreationInv, Registered
  <2> QED BY <1>1, <2>1, <2>2, StaysRegistered
<1>14. Honoured'
  BY <1>1, <1>6, <1>11 DEF CreationInv, Honoured, FolderTransfers, GaveUp, Counts
<1>15. OnlyOwn'
  <2>1. \A e : SharesSlot(e) => SharesSlot(e)'
    BY <1>1, RecordsStay
  <2>2. \A q : RecordedFor(q) => RecordedFor(q)'
    BY <1>1, RecordsStay
  <2> QED BY <1>1, <1>6, <1>8, <1>11, <2>1, <2>2 DEF CreationInv, OnlyOwn
<1> QED BY <1>6, <1>10, <1>12, <1>13, <1>14, <1>15 DEF CreationInv

LEMMA FinishStep ==
  ASSUME CreationInv, NEW t \in Transfers, FinishFolder(t)
  PROVE  CreationInv'
<1>1. /\ act[t].pc \in {"set", "skip"} /\ Goes(t, "stop", << >>)
      /\ UNCHANGED <<store, remote, before, contents, unregistered, scheduled, noted, lost>>
  BY DEF FinishFolder
<1>2. t \in FolderTransfers
  BY <1>1 DEF CreationInv, Registered, FolderTransfers
<1>3. /\ act' \in [Transfers -> [pc : Places, todo : Seq(Folders)]]
      /\ act'[t].pc = "stop" /\ \A u \in Transfers : u # t => act'[u] = act[u]
  BY <1>1, NoTodo, Moves DEF Places, CreationInv
<1>4. PICK status \in {"success", "failed", "skipped"} :
         /\ plan' = [plan EXCEPT ![t] = IF @ \in Failing THEN @ ELSE status]
         /\ status = "success" => act[t].pc = "set" /\ gaveUp' = gaveUp
                                  /\ propsSet' = propsSet \cup {FolderOf(t)}
         /\ status # "success" => gaveUp' = gaveUp \cup {FolderOf(t)} /\ propsSet' = propsSet
  BY DEF FinishFolder
<1>5. /\ \A u \in Transfers : u # t => plan'[u] = plan[u]
      /\ plan'[t] = IF plan[t] \in Failing THEN plan[t] ELSE status
      /\ plan' \in [Transfers -> PlanStatuses]
  BY <1>4 DEF CreationInv, CreationTypeOK, PlanStatuses, Failing
<1>6. CreationTypeOK'
  BY <1>1, <1>3, <1>5 DEF CreationInv, CreationTypeOK
<1>7. Registered'
  <2>1. \A u \in Transfers : /\ act'[u].pc = "waiting" <=> act[u].pc = "waiting"
                             /\ IsFolder[u] => (act'[u].pc = "done" <=> act[u].pc = "done")
                             /\ act'[u].pc \in {"set", "skip", "stop"} => IsFolder[u]
    BY <1>1, <1>2, <1>3 DEF CreationInv, Registered, FolderTransfers
  <2>2. Registered /\ \A d \in unregistered : contents[d] = 0
    BY DEF CreationInv, Registered
  <2> QED BY <1>1, <2>1, <2>2, StaysRegistered
<1>8. Honoured'
  <2>1. gaveUp \subseteq gaveUp'
    BY <1>4
  <2>2. \A u \in Transfers : /\ GaveUp(u) => GaveUp(u)'
                             /\ Counts(u)' <=> Counts(u)
    BY <1>1, <2>1 DEF GaveUp, Counts
  <2>3. plan'[t] = "success" \/ GaveUp(t)'
    <3>1. CASE plan[t] \in Failing
      BY <2>2, <3>1 DEF CreationInv, Honoured
    <3>2. CASE plan[t] \notin Failing /\ status # "success"
      BY <1>2, <1>4, <3>2 DEF GaveUp, FolderTransfers
    <3> QED BY <1>5, <3>1, <3>2
  <2>4. \A u : \A q \in Slot(u) : q \in Transfers
    BY DEF Slot
  <2>5. \A u \in Transfers : plan'[u] \in Failing => GaveUp(u)'
    BY <1>5, <2>2, <2>3 DEF CreationInv, Honoured, Failing
  <2>6. \A u \in FolderTransfers : \A q \in Slot(IndexOf[u]) :
           Counts(u)' /\ FolderOf(u) \notin unregistered =>
               plan'[q] \in {"created", "success"} \/ GaveUp(q)'
    BY <1>5, <2>2, <2>3, <2>4 DEF CreationInv, Honoured, FolderTransfers
  <2>7. \A u \in FolderTransfers :
           act'[u].pc \in {"ready", "creating", "recording", "ensured"} => plan'[u] # "success"
    BY <1>3, <1>5 DEF CreationInv, Honoured, FolderTransfers
  <2> QED BY <1>1, <2>5, <2>6, <2>7 DEF Honoured
<1>9. OnlyOwn'
  <2>1. \A u \in Transfers : plan'[u] = "created" => plan[u] = "created"
    BY <1>5 DEF Failing
  <2>2. \A e : SharesSlot(e) => SharesSlot(e)'
    BY <1>1, RecordsStay
  <2>3. \A q : RecordedFor(q) => RecordedFor(q)'
    BY <1>1, RecordsStay
  <2>4. Overwrite = "false" => \A e \in propsSet' \cap before : SharesSlot(e)
    BY <1>4 DEF CreationInv, OnlyOwn
  <2> QED BY <1>1, <1>3, <2>1, <2>2, <2>3, <2>4 DEF CreationInv, OnlyOwn
<1> QED BY <1>6, <1>7, <1>8, <1>9 DEF CreationInv

LEMMA StopStep ==
  ASSUME CreationInv, NEW t \in Transfers, StopTracking(t)
  PROVE  CreationInv'
<1>1. /\ act[t].pc = "stop" /\ Goes(t, "done", << >>)
      /\ contents' = [contents EXCEPT ![FolderOf(t)] = 0]
      /\ UNCHANGED <<store, remote, before, plan, unregistered, scheduled, noted, gaveUp, lost, propsSet>>
  BY DEF StopTracking
<1>2. t \in FolderTransfers
  BY <1>1 DEF CreationInv, Registered, FolderTransfers
<1>3. /\ act' \in [Transfers -> [pc : Places, todo : Seq(Folders)]]
      /\ act'[t].pc = "done" /\ \A u \in Transfers : u # t => act'[u] = act[u]
  BY <1>1, NoTodo, Moves DEF Places, CreationInv
<1>4. /\ contents' \in [Folders -> Nat] /\ contents'[FolderOf(t)] = 0
      /\ \A d \in Folders : d # FolderOf(t) => contents'[d] = contents[d]
  BY <1>1, CreationShape DEF CreationInv, CreationTypeOK
<1>5. CreationTypeOK'
  BY <1>1, <1>3, <1>4 DEF CreationInv, CreationTypeOK
<1>6. Registered'
  <2>1. ASSUME NEW u \in FolderTransfers
        PROVE  contents'[FolderOf(u)] = IF act'[u].pc \in {"waiting", "done"} THEN 0 ELSE IndexOf[u]
    <3>1. contents[FolderOf(u)] = IF act[u].pc \in {"waiting", "done"} THEN 0 ELSE IndexOf[u]
      BY DEF CreationInv, Registered
    <3>2. CASE u = t
      BY <1>3, <1>4, <3>2
    <3>3. CASE u # t
      <4>1. FolderOf(u) # FolderOf(t) /\ FolderOf(u) \in Folders
        BY <1>2, <3>3, CreationShape DEF FolderTransfers
      <4> QED BY <1>3, <1>4, <3>1, <3>3, <4>1 DEF FolderTransfers
    <3> QED BY <3>2, <3>3
  <2>2. \A d \in Folders : contents'[d] # 0 => \E u \in FolderTransfers : FolderOf(u) = d
    BY <1>4 DEF CreationInv, Registered
  <2>3. \A d \in unregistered' : contents'[d] = 0
    BY <1>1, <1>4 DEF CreationInv, CreationTypeOK, Registered
  <2>4. \A u \in Transfers : act'[u].pc \in {"set", "skip", "stop"} => IsFolder[u]
    BY <1>2, <1>3 DEF CreationInv, Registered
  <2>5. ASSUME NEW i \in 1..Len(Order), i > scheduled'
        PROVE  act'[Order[i]].pc = "waiting"
    <3>1. Order[i] \in Transfers /\ act[Order[i]].pc = "waiting"
      BY <1>1, <2>5, CreationShape DEF CreationInv, Registered
    <3> QED BY <1>1, <1>3, <3>1
  <2> QED BY <2>1, <2>2, <2>3, <2>4, <2>5 DEF Registered, FolderTransfers
<1>7. Honoured'
  BY <1>1, <1>3 DEF CreationInv, Honoured, FolderTransfers, GaveUp, Counts
<1>8. OnlyOwn'
  BY <1>1, <1>3 DEF CreationInv, OnlyOwn, FolderTransfers, RecordedFor, SharesSlot
<1> QED BY <1>5, <1>6, <1>7, <1>8 DEF CreationInv

LEMMA CrashStep ==
  ASSUME CreationInv, CrashAndResume
  PROVE  CreationInv'
<1>1. /\ \A t \in Transfers : act'[t].pc = "waiting"
      /\ \A d \in Folders : contents'[d] = 0
      /\ unregistered' = {} /\ scheduled' = 0 /\ lost' = lost \cup unregistered
      /\ UNCHANGED <<store, remote, before, plan, noted, gaveUp, propsSet>>
  BY DEF CrashAndResume
<1>2. CreationTypeOK'
  <2>1. [pc |-> "waiting", todo |-> << >>] \in [pc : Places, todo : Seq(Folders)]
    BY NoTodo DEF Places
  <2>2. act' \in [Transfers -> [pc : Places, todo : Seq(Folders)]] /\ contents' \in [Folders -> Nat]
    BY <2>1 DEF CrashAndResume
  <2>3. scheduled' \in 0..Len(Order)
    BY <1>1, CreationShape
  <2> QED BY <1>1, <2>2, <2>3 DEF CreationInv, CreationTypeOK
<1>3. Registered'
  BY <1>1, CreationShape DEF Registered, FolderTransfers
<1>4. Honoured'
  BY <1>1 DEF CreationInv, Honoured, FolderTransfers, GaveUp, Counts
<1>5. OnlyOwn'
  BY <1>1 DEF CreationInv, OnlyOwn, FolderTransfers, RecordedFor, SharesSlot
<1> QED BY <1>2, <1>3, <1>4, <1>5 DEF CreationInv

LEMMA ScheduleStep ==
  ASSUME CreationInv, Schedule
  PROVE  CreationInv'
<1> DEFINE t == Order[scheduled + 1]
           d == FolderOf(t)
           started == [plan EXCEPT ![t] = IF @ = "failed" THEN "started" ELSE @]
           goes == plan[t] # "success"
<1>1. /\ scheduled + 1 \in 1..Len(Order) /\ scheduled' = scheduled + 1
      /\ scheduled \in Nat /\ t \in Transfers
      /\ scheduled' \in 0..Len(Order)
      /\ UNCHANGED <<store, remote, before, noted, gaveUp, lost, propsSet>>
  <2>1. scheduled \in 0..Len(Order) /\ Len(Order) \in Nat /\ scheduled < Len(Order)
    BY CreationShape DEF Schedule, CreationInv, CreationTypeOK
  <2>2. scheduled + 1 \in 1..Len(Order) /\ scheduled + 1 \in 0..Len(Order) /\ scheduled \in Nat
    BY <2>1
  <2>3. /\ scheduled' = scheduled + 1
        /\ UNCHANGED <<store, remote, before, noted, gaveUp, lost, propsSet>>
    BY DEF Schedule
  <2> QED BY <2>2, <2>3, CreationShape
<1>2. act[t].pc = "waiting"
  BY <1>1 DEF CreationInv, Registered
<1>3. \A i \in 1..Len(Order) : i > scheduled' => Order[i] # t /\ act[Order[i]].pc = "waiting"
  BY <1>1, CreationShape DEF CreationInv, Registered
<1>4. /\ Goes(t, IF goes THEN "ready" ELSE "done", << >>)
      /\ goes /\ IsFolder[t] => /\ contents' = [contents EXCEPT ![d] = IndexOf[t]]
                                /\ unregistered' = unregistered \ {d}
      /\ ~(goes /\ IsFolder[t]) => UNCHANGED <<contents, unregistered>>
      /\ plan' = IF ~goes THEN plan
                 ELSE IF IsFolder[t] /\ d \in unregistered THEN MarkCreated(started, IndexOf[t])
                 ELSE started
  BY Zenon DEF Schedule
<1>5. /\ started \in [Transfers -> PlanStatuses]
      /\ \A u \in Transfers : started[u] = IF u = t /\ plan[t] = "failed" THEN "started" ELSE plan[u]
  BY <1>1 DEF CreationInv, CreationTypeOK, PlanStatuses
<1> HIDE DEF t, started
<1>6. /\ act' \in [Transfers -> [pc : Places, todo : Seq(Folders)]]
      /\ act'[t].pc = IF goes THEN "ready" ELSE "done"
      /\ \A u \in Transfers : u # t => act'[u] = act[u]
  BY <1>1, <1>4, NoTodo, Moves DEF Places, CreationInv
<1>7. /\ \A i \in 1..Len(Order) : i > scheduled' => act'[Order[i]].pc = "waiting"
      /\ \A u \in Transfers : act'[u].pc \in {"set", "skip", "stop"} => IsFolder[u]
      /\ \A u \in Transfers : act'[u].pc = "recording" =>
            act'[u].todo # << >> /\ Head(act'[u].todo) \notin before
      /\ \A u \in Transfers : act'[u].pc = "set" => u # t /\ act[u].pc = "set"
  BY <1>1, <1>3, <1>6, CreationShape DEF CreationInv, Registered, OnlyOwn
<1>8. \/ \A u \in Transfers :
            plan'[u] = IF u = t /\ plan[t] = "failed" THEN "started" ELSE plan[u]
      \/ /\ goes /\ IsFolder[t] /\ d \in unregistered
         /\ plan' = MarkCreated(started, IndexOf[t])
  BY <1>4, <1>5
<1>9. plan' \in [Transfers -> PlanStatuses]
  BY <1>4, <1>5, Marking DEF CreationInv, CreationTypeOK
<1>10. \A u \in Transfers :
          /\ plan'[u] = "success" => plan[u] = "success"
          /\ plan'[u] \in Failing => plan[u] \in Failing
          /\ plan[u] \in {"created", "success"} =>
                plan'[u] \in {"created", "success"}
  BY <1>5, <1>8, Marking DEF Failing
<1>11. CASE ~(goes /\ IsFolder[t])
  <2>1. UNCHANGED <<contents, unregistered>>
    BY <1>4, <1>11
  <2>2. CreationTypeOK'
    BY <1>1, <1>6, <1>9, <2>1 DEF CreationInv, CreationTypeOK
  <2>3. Registered'
    <3>1. ASSUME NEW u \in FolderTransfers
          PROVE  contents'[FolderOf(u)] = IF act'[u].pc \in {"waiting", "done"} THEN 0 ELSE IndexOf[u]
      <4>1. contents[FolderOf(u)] = IF act[u].pc \in {"waiting", "done"} THEN 0 ELSE IndexOf[u]
        BY DEF CreationInv, Registered
      <4>2. act'[u].pc \in {"waiting", "done"} <=> act[u].pc \in {"waiting", "done"}
        BY <1>2, <1>6, <1>11 DEF FolderTransfers
      <4> QED BY <2>1, <4>1, <4>2
    <3> QED BY <1>7, <2>1, <3>1 DEF CreationInv, Registered, FolderTransfers
  <2>4. Honoured'
    <3>1. \A u \in Transfers : (GaveUp(u)' <=> GaveUp(u)) /\ (Counts(u)' <=> Counts(u))
      BY <1>1 DEF GaveUp, Counts
    <3>2. \A u : \A q \in Slot(u) : q \in Transfers
      BY DEF Slot
    <3>3. \A u \in Transfers : plan'[u] \in Failing => GaveUp(u)'
      BY <1>10, <3>1 DEF CreationInv, Honoured
    <3>4. \A u \in FolderTransfers : \A q \in Slot(IndexOf[u]) :
             Counts(u)' /\ FolderOf(u) \notin unregistered =>
                 plan'[q] \in {"created", "success"} \/ GaveUp(q)'
      BY <1>10, <3>1, <3>2 DEF CreationInv, Honoured, FolderTransfers
    <3>5. \A u \in FolderTransfers :
             act'[u].pc \in {"ready", "creating", "recording", "ensured"} => plan'[u] # "success"
      BY <1>6, <1>10, <1>11 DEF CreationInv, Honoured, FolderTransfers
    <3> QED BY <2>1, <3>3, <3>4, <3>5 DEF Honoured
  <2>5. OnlyOwn'
    <3>1. \A u \in Transfers : plan'[u] = "created" => plan[u] = "created"
      BY <1>8, <1>11
    <3>2. \A e : SharesSlot(e) => SharesSlot(e)'
      BY <1>1, RecordsStay
    <3>3. \A q : RecordedFor(q) => RecordedFor(q)'
      BY <1>1, RecordsStay
    <3> QED BY <1>1, <1>7, <2>1, <3>1, <3>2, <3>3 DEF CreationInv, OnlyOwn
  <2> QED BY <2>2, <2>3, <2>4, <2>5 DEF CreationInv
<1>12. CASE goes /\ IsFolder[t]
  <2>1. t \in FolderTransfers /\ d \in Folders /\ IndexOf[t] \in Nat \ {0}
    BY <1>1, <1>12, CreationShape DEF FolderTransfers
  <2>2. contents' = [contents EXCEPT ![d] = IndexOf[t]] /\ unregistered' = unregistered \ {d}
    BY <1>4, <1>12
  <2>3. /\ contents' \in [Folders -> Nat] /\ contents'[d] = IndexOf[t]
        /\ \A e \in Folders : e # d => contents'[e] = contents[e]
    BY <2>1, <2>2 DEF CreationInv, CreationTypeOK
  <2>4. \A u \in FolderTransfers : u # t => FolderOf(u) # d /\ FolderOf(u) \in Folders
    BY <2>1, CreationShape DEF FolderTransfers
  <2>5. FolderOf(t) = d
    OBVIOUS
  <2> HIDE DEF d
  <2>6. CreationTypeOK'
    BY <1>1, <1>6, <1>9, <2>2, <2>3 DEF CreationInv, CreationTypeOK
  <2>7. Registered'
    <3>1. ASSUME NEW u \in FolderTransfers
          PROVE  contents'[FolderOf(u)] = IF act'[u].pc \in {"waiting", "done"} THEN 0 ELSE IndexOf[u]
      <4>1. contents[FolderOf(u)] = IF act[u].pc \in {"waiting", "done"} THEN 0 ELSE IndexOf[u]
        BY DEF CreationInv, Registered
      <4>2. CASE u = t
        BY <1>6, <1>12, <2>3, <2>5, <4>2
      <4>3. CASE u # t
        BY <1>6, <2>3, <2>4, <4>1, <4>3 DEF FolderTransfers
      <4> QED BY <4>2, <4>3
    <3>2. \A e \in Folders : contents'[e] # 0 => \E u \in FolderTransfers : FolderOf(u) = e
      BY <2>1, <2>3, <2>5 DEF CreationInv, Registered
    <3>3. \A e \in unregistered' : contents'[e] = 0
      BY <2>2, <2>3 DEF CreationInv, CreationTypeOK, Registered
    <3> QED BY <1>7, <3>1, <3>2, <3>3 DEF Registered, FolderTransfers
  <2>8. Honoured'
    <3>1. \A u \in Transfers : (GaveUp(u)' <=> GaveUp(u)) /\ (Counts(u)' <=> Counts(u))
      BY <1>1 DEF GaveUp, Counts
    <3>2. \A u : \A q \in Slot(u) : q \in Transfers
      BY DEF Slot
    <3>3. \A u \in Transfers : plan'[u] \in Failing => GaveUp(u)'
      BY <1>10, <3>1 DEF CreationInv, Honoured
    <3>4. ASSUME NEW u \in FolderTransfers, NEW q \in Slot(IndexOf[u]),
                 Counts(u), FolderOf(u) \notin unregistered'
          PROVE  plan'[q] \in {"created", "success"} \/ GaveUp(q)
      <4>1. CASE FolderOf(u) \notin unregistered
        <5>1. plan[q] \in {"created", "success"} \/ GaveUp(q)
          BY <3>4, <4>1 DEF CreationInv, Honoured
        <5> QED BY <1>10, <3>2, <5>1
      <4>2. CASE FolderOf(u) \in unregistered
        <5>1. u = t
          BY <2>2, <2>4, <3>4, <4>2
        <5>2. plan' = MarkCreated(started, IndexOf[t])
          BY <1>4, <1>12, <2>5, <4>2, <5>1
        <5>3. plan'[q] = IF started[q] \notin Failing THEN "created" ELSE started[q]
          BY <1>5, <3>2, <5>1, <5>2, Marking
        <5>4. plan'[q] \notin Failing => plan'[q] = "created"
          BY <5>3
        <5>5. plan'[q] \in Failing => GaveUp(q)
          BY <1>10, <3>2 DEF CreationInv, Honoured
        <5> QED BY <5>4, <5>5
      <4> QED BY <4>1, <4>2
    <3>5. \A u \in FolderTransfers :
             act'[u].pc \in {"ready", "creating", "recording", "ensured"} => plan'[u] # "success"
      BY <1>6, <1>10, <1>12 DEF CreationInv, Honoured, FolderTransfers
    <3>6. \A u \in FolderTransfers : \A q \in Slot(IndexOf[u]) :
             Counts(u)' /\ FolderOf(u) \notin unregistered' =>
                 plan'[q] \in {"created", "success"} \/ GaveUp(q)'
      BY <3>1, <3>2, <3>4 DEF FolderTransfers
    <3> QED BY <3>3, <3>5, <3>6 DEF Honoured
  <2>9. OnlyOwn'
    <3>1. ASSUME NEW q \in Transfers, plan'[q] = "created"
          PROVE  RecordedFor(q)
      <4>1. CASE plan[q] = "created"
        BY <4>1 DEF CreationInv, OnlyOwn
      <4>2. CASE plan[q] # "created"
        <5>1. d \in unregistered /\ plan' = MarkCreated(started, IndexOf[t])
          BY <1>8, <3>1, <4>2
        <5>2. q \in Slot(IndexOf[t])
          BY <1>5, <3>1, <4>2, <5>1, Marking
        <5>3. d \in noted
          BY <5>1 DEF CreationInv, OnlyOwn
        <5> QED BY <2>1, <2>5, <5>2, <5>3 DEF RecordedFor, Slot
      <4> QED BY <4>1, <4>2
    <3>2. \A e : SharesSlot(e) => SharesSlot(e)'
      BY <1>1, RecordsStay
    <3>3. \A q : RecordedFor(q) => RecordedFor(q)'
      BY <1>1, RecordsStay
    <3> QED BY <1>1, <1>7, <2>2, <3>1, <3>2, <3>3 DEF CreationInv, OnlyOwn
  <2> QED BY <2>6, <2>7, <2>8, <2>9 DEF CreationInv
<1> QED BY <1>11, <1>12

LEMMA CreationInvStep == CreationInv /\ [CreationNext]_creationVars => CreationInv'
<1> SUFFICES ASSUME CreationInv, [CreationNext]_creationVars PROVE CreationInv'
  OBVIOUS
<1>1. CASE Schedule \/ CrashAndResume
  BY <1>1, ScheduleStep, CrashStep
<1>2. ASSUME NEW t \in Transfers,
             LookForFolder(t) \/ CreateFolder(t) \/ RecordCreation(t) \/ FinishFile(t)
               \/ DecideFolder(t) \/ FinishFolder(t) \/ StopTracking(t)
      PROVE  CreationInv'
  BY <1>2, LookStep, CreateStep, RecordStep, FileStep, DecideStep, FinishStep, StopStep
<1>3. CASE UNCHANGED creationVars
  BY <1>3 DEF creationVars, CreationInv, CreationTypeOK, Registered, Honoured, OnlyOwn,
              GaveUp, Counts, RecordedFor, SharesSlot
<1> QED BY <1>1, <1>2, <1>3 DEF CreationNext

(* The one step that skips a folder is its transfer's decision.            *)
LEMMA SkipStep ==
  ASSUME CreationInv, CreationNext,
         NEW t \in Transfers, act[t].pc = "ensured", act'[t].pc = "skip"
  PROVE  ~Counts(t) \/ SlotIsTaken(t)
<1>1. ASSUME NEW u \in Transfers, NEW pc, NEW todo, Goes(u, pc, todo), pc # "skip"
      PROVE  FALSE
  BY <1>1 DEF Goes, CreationInv, CreationTypeOK
<1>2. ~Schedule
  <2> SUFFICES ASSUME Schedule PROVE FALSE
    OBVIOUS
  <2>1. scheduled \in 0..Len(Order) /\ Len(Order) \in Nat /\ scheduled < Len(Order)
    BY CreationShape DEF Schedule, CreationInv, CreationTypeOK
  <2>2. scheduled + 1 \in 1..Len(Order)
    BY <2>1
  <2>3. Order[scheduled + 1] \in Transfers
    BY <2>2, CreationShape
  <2>4. PICK pc \in {"done", "ready"} : Goes(Order[scheduled + 1], pc, << >>)
    BY DEF Schedule
  <2> QED BY <1>1, <2>3, <2>4
<1>3. ~CrashAndResume
  BY DEF CrashAndResume
<1>4. \A u \in Transfers : ~LookForFolder(u) /\ ~CreateFolder(u) /\ ~RecordCreation(u)
                           /\ ~FinishFile(u) /\ ~FinishFolder(u) /\ ~StopTracking(u)
  BY <1>1 DEF LookForFolder, CreateFolder, RecordCreation, FinishFile, FinishFolder, StopTracking
<1>5. PICK u \in Transfers : DecideFolder(u)
  BY <1>2, <1>3, <1>4 DEF CreationNext
<1> QED BY <1>5, DecideStep

(* The tracker never panics, a folder that was there before the job keeps  *)
(* its properties unless they may be overwritten or its index is that of   *)
(* another folder, which the job created, and a recorded creation is       *)
(* honoured by the folder's transfer unless it was lost with the process,  *)
(* recorded with its SAS, or its status in the first part's plan is that   *)
(* of a transfer that has ended: for any folders in any parts, whoever     *)
(* creates them and whenever the process dies.                             *)
THEOREM Honours == CreationSpec => CreationsAreHonoured
<1>1. CreationInv => TrackerNeverPanics /\ OnlySharersLoseTheirs
  <2> SUFFICES ASSUME CreationInv PROVE TrackerNeverPanics /\ OnlySharersLoseTheirs
    OBVIOUS
  <2>1. ASSUME NEW t \in Transfers,
               act[t].pc \in {"stop", "set", "skip"} \/ (act[t].pc = "ensured" /\ IsFolder[t])
        PROVE  contents[FolderOf(t)] # 0
    <3>1. t \in FolderTransfers /\ act[t].pc \notin {"waiting", "done"}
      BY <2>1 DEF CreationInv, Registered, FolderTransfers
    <3> QED BY <3>1, CreationShape DEF CreationInv, Registered
  <2> QED BY <2>1 DEF TrackerNeverPanics, OnlySharersLoseTheirs, CreationInv, OnlyOwn
<1>2. CreationInv /\ [CreationNext]_creationVars =>
        [\A t \in Transfers : act[t].pc = "ensured" /\ act'[t].pc = "skip"
            => \/ FolderOf(t) \notin noted \ lost
               \/ store = "adlsWithSAS" \/ SlotIsTaken(t)]_creationVars
  BY SkipStep DEF Counts
<1>3. CreationInv /\ [CreationNext]_creationVars => CreationInv'
  BY CreationInvStep
<1> QED BY <1>1, <1>2, <1>3, CreationInitInv, PTL DEF CreationSpec, CreationsAreHonoured
=============================================================================
