---------------------------- MODULE Enumeration ----------------------------
(***************************************************************************)
(* What the copy and the sync command do with the objects their traversers *)
(* bring (each as Scan says): compare the two sides by an index of the one *)
(* scanned first, order transfers in parts, delete what is extra at the    *)
(* destination, and exit. An object has a version, its time of last        *)
(* modification; folders, filters and the dry run are left out.            *)
(*   "upload"  sync from the local disk: the source is scanned first;      *)
(*   "other"   any other sync: the destination is scanned first;           *)
(*   "copy"    no destination is scanned.                                  *)
(***************************************************************************)
EXTENDS Integers, Sequences, FiniteSets, Functions

CONSTANTS Names, Versions,
          Ways, Deletions,  \* of DeleteDestination: "true", "false", "prompt"
          PartSize,         \* NumOfFilesPerDispatchJobPart
          Changes           \* bound: how often the source changes meanwhile

ASSUME EnumAssumption == Versions \subseteq Nat \ {0} /\ PartSize \in Nat \ {0}

VARIABLES way, mirror, deletion,
          src, dst,         \* the version of each object, 0 for none
          blind,            \* source objects the traverser cannot see
          tells,            \* whether it ends with an error then
          phase, seen,      \* the traversal at hand, what it has brought
          index,            \* indexMap
          consent,          \* of interactiveDeleteProcessor
          part, parts,      \* copyJobTemplate, the parts ordered so far
          toDo, failed,     \* transfers of ordered parts
          final, outcome,
          deleted, spared,  \* objects deleted, those whose deletion failed
          wasAbsent,        \* history: objects the source was without
          changed           \* history: objects of the source that changed

modeVars == <<way, mirror, deletion, blind, tells>>
partVars == <<part, parts, toDo, final>>
removeVars == <<consent, deleted, spared>>
enumVars == <<modeVars, src, dst, phase, seen, index, partVars, failed, outcome,
              removeVars, wasAbsent, changed>>

EnumInit ==
    /\ way \in Ways /\ mirror \in BOOLEAN
    /\ deletion \in IF way = "copy" THEN {"false"} ELSE Deletions
    /\ src \in [Names -> {0} \cup Versions] /\ dst \in [Names -> {0} \cup Versions]
    /\ blind \in SUBSET {n \in Names : src[n] > 0}
    /\ tells \in BOOLEAN /\ (blind = {} \/ way = "upload" => ~tells)
    /\ phase = IF way = "copy" THEN "second" ELSE "first"
    /\ seen = {} /\ index = [n \in Names |-> 0]
    /\ consent = [ask |-> deletion = "prompt", yes |-> deletion = "true"]
    /\ part = <<>> /\ parts = <<>> /\ toDo = {} /\ failed = {} /\ final = FALSE
    /\ outcome = "none" /\ deleted = {} /\ spared = {}
    /\ wasAbsent = {n \in Names : src[n] = 0} /\ changed = {}

\* Mutant: a part is ordered as soon as it is full.
ScheduleFull(n, version) ==
    LET t == <<n, version>> IN
    IF Len(part) + 1 = PartSize
    THEN /\ parts' = Append(parts, Append(part, t))
         /\ toDo' = toDo \cup {t} \cup Range(part)
         /\ part' = <<>> /\ UNCHANGED final
    ELSE part' = Append(part, t) /\ UNCHANGED <<parts, toDo, final>>

(***************************************************************************)
(* scheduleCopyTransfer and addTransfer: a full part is ordered before the *)
(* transfer is added, so that the final part is not empty.                 *)
(***************************************************************************)
Schedule(n, version) ==
    LET t == <<n, version>> IN
    IF Len(part) = PartSize
    THEN /\ parts' = Append(parts, part) /\ toDo' = toDo \cup Range(part)
         /\ part' = <<t>> /\ UNCHANGED final
    ELSE part' = Append(part, t) /\ UNCHANGED <<parts, toDo, final>>

(***************************************************************************)
(* removeImmediately: an error of the deleter is reported, and no more.    *)
(***************************************************************************)
RemoveImmediately(n) ==
    /\ \/ ~consent.ask /\ UNCHANGED consent
       \/ consent.ask /\ \E yes \in BOOLEAN, again \in BOOLEAN :
                            consent' = [ask |-> again, yes |-> yes]
    /\ \/ consent'.yes /\ deleted' = deleted \cup {n}
          /\ dst' = [dst EXCEPT ![n] = 0] /\ UNCHANGED spared
       \/ consent'.yes /\ spared' = spared \cup {n} /\ UNCHANGED <<dst, deleted>>
       \/ ~consent'.yes /\ UNCHANGED <<dst, deleted, spared>>

\* Mutant: the arguments of After are swapped.
NewerAtDestination(n, theSrc, theDst) == mirror \/ theSrc < theDst

Newer(n, theSrc, theDst) == mirror \/ theSrc > theDst

(***************************************************************************)
(* A traversal brings an object. The first is stored in the index; of the  *)
(* second each is compared with it (processIfNecessary of the two          *)
(* comparators), and what is found is taken from it.                       *)
(***************************************************************************)
SourceIsFirst == way = "upload"
Side == IF SourceIsFirst = (phase = "first") THEN "source" ELSE "destination"
There(n) == IF Side = "source" THEN src[n] > 0 ELSE dst[n] > 0
Hidden == IF Side = "source" THEN blind ELSE {}

Store(n) ==
    /\ phase = "first"
    /\ index' = [index EXCEPT ![n] = IF Side = "source" THEN src[n] ELSE dst[n]]
    /\ UNCHANGED <<dst, partVars, removeVars>>

CompareDestination(n) ==
    /\ phase = "second" /\ Side = "destination"
    /\ IF index[n] = 0
       THEN RemoveImmediately(n) /\ UNCHANGED <<index, partVars>>
       ELSE /\ index' = [index EXCEPT ![n] = 0]
            /\ IF Newer(n, index[n], dst[n]) THEN Schedule(n, index[n])
                                              ELSE UNCHANGED partVars
            /\ UNCHANGED <<dst, removeVars>>

\* Mutant: an object that need not be transferred stays in the index.
CompareSourceKeeping(n) ==
    /\ phase = "second" /\ Side = "source"
    /\ IF index[n] = 0 \/ Newer(n, src[n], index[n])
       THEN index' = [index EXCEPT ![n] = 0] /\ Schedule(n, src[n])
       ELSE UNCHANGED <<index, partVars>>
    /\ UNCHANGED <<dst, removeVars>>

CompareSource(n) ==
    /\ phase = "second" /\ Side = "source"
    /\ index' = [index EXCEPT ![n] = 0]
    /\ IF index[n] = 0 \/ Newer(n, src[n], index[n]) THEN Schedule(n, src[n])
                                                     ELSE UNCHANGED partVars
    /\ UNCHANGED <<dst, removeVars>>

Bring(n) ==
    /\ phase \in {"first", "second"} /\ n \notin seen \cup Hidden /\ There(n)
    /\ seen' = seen \cup {n}
    /\ Store(n) \/ CompareDestination(n) \/ CompareSource(n)
    /\ UNCHANGED <<modeVars, src, phase, failed, outcome, wasAbsent, changed>>

SideIsScanned ==
    /\ phase \in {"first", "second"}
    /\ \A n \in Names : There(n) => n \in seen \cup Hidden
    /\ seen' = {}
    /\ IF Hidden # {} /\ tells
       THEN phase' = "over" /\ outcome' = "error"
       ELSE /\ phase' = IF phase = "first" THEN "second" ELSE "finalize"
            /\ UNCHANGED outcome
    /\ UNCHANGED <<modeVars, src, dst, index, partVars, failed, removeVars, wasAbsent, changed>>

(***************************************************************************)
(* finalize: what is left in the index, and then the final part.           *)
(***************************************************************************)
TraverseIndex(n) ==
    /\ phase = "finalize" /\ index[n] > 0
    /\ index' = [index EXCEPT ![n] = 0]
    /\ IF SourceIsFirst THEN Schedule(n, index[n]) /\ UNCHANGED <<dst, removeVars>>
                        ELSE RemoveImmediately(n) /\ UNCHANGED partVars
    /\ UNCHANGED <<modeVars, src, phase, seen, failed, outcome, wasAbsent, changed>>

(***************************************************************************)
(* dispatchFinalPart: the last part, with the transfers that are left. The *)
(* engine refuses no order: a job without transfers is Completed at once   *)
(* (ScheduleTransfers), so that quitIfInSync has nothing to say.           *)
(***************************************************************************)
DispatchFinalPart ==
    /\ phase = "finalize" /\ \A n \in Names : index[n] = 0
    /\ phase' = "over" /\ final' = TRUE
    /\ parts' = Append(parts, part) /\ toDo' = toDo \cup Range(part) /\ part' = <<>>
    /\ UNCHANGED <<modeVars, src, dst, seen, index, failed, outcome, removeVars,
                   wasAbsent, changed>>

(* The transfer engine, which fails what is not as it was when scanned.    *)
Transfer(n) ==
    /\ \E v \in Versions :
          /\ <<n, v>> \in toDo
          /\ toDo' = toDo \ {<<n, v>>}
          /\ \/ src[n] = v /\ dst' = [dst EXCEPT ![n] = v] /\ UNCHANGED failed
             \/ failed' = failed \cup {n} /\ UNCHANGED dst
    /\ UNCHANGED <<modeVars, src, phase, seen, index, part, parts, final, outcome,
                   removeVars, wasAbsent, changed>>

SyncOrCopyExits ==
    /\ final /\ toDo = {}
    /\ outcome' = IF failed = {} THEN "success" ELSE "error"
    /\ UNCHANGED <<modeVars, src, dst, phase, seen, index, partVars, failed,
                   removeVars, wasAbsent, changed>>

\* Somebody writes or deletes an object of the source (environment).
SourceChanges(n) ==
    /\ Cardinality(changed) < Changes
    /\ \E v \in ({0} \cup Versions) \ {src[n]} : src' = [src EXCEPT ![n] = v]
    /\ changed' = changed \cup {n}
    /\ wasAbsent' = IF src'[n] = 0 THEN wasAbsent \cup {n} ELSE wasAbsent
    /\ UNCHANGED <<modeVars, dst, phase, seen, index, partVars, failed, outcome,
                   removeVars>>

EnumNext ==
    /\ outcome = "none"
    /\ \/ \E n \in Names : Bring(n) \/ TraverseIndex(n) \/ Transfer(n) \/ SourceChanges(n)
       \/ SideIsScanned \/ DispatchFinalPart \/ SyncOrCopyExits

EnumSpec == EnumInit /\ [][EnumNext]_enumVars
----------------------------------------------------------------------------
(***************************************************************************)
(* A command that exits well has done what it says: whatever the source    *)
(* had all along, and could be seen, the destination has in that version   *)
(* or, if it was not to be overwritten, in a newer one; and nothing is     *)
(* left that is extra, if that was to be deleted and could be.             *)
(***************************************************************************)
SuccessIsInSync ==
    outcome = "success" =>
        \A n \in Names \ (changed \cup blind) :
            /\ src[n] > 0 => IF way = "copy" \/ mirror THEN dst[n] = src[n]
                             ELSE dst[n] >= src[n]
            /\ src[n] = 0 /\ deletion = "true" => dst[n] = 0 \/ n \in spared

(***************************************************************************)
(* Nothing is deleted at the destination that the source had all along and *)
(* the traversal could see, though objects come and go while both sides    *)
(* are scanned.                                                            *)
(***************************************************************************)
SeenIsNotDeleted == deleted \subseteq wasAbsent \cup blind

(***************************************************************************)
(* The parts are full but for the last, the last is empty only if it is    *)
(* the only one (ScheduleTransfers completes an empty part 0 itself; an    *)
(* empty part after others would never be done), no object is ordered      *)
(* twice, and a traversal that does not fail ends with the final part.     *)
(***************************************************************************)
PartsAreWhole ==
    LET IsLast(i) == final /\ i = Len(parts)
    IN  /\ \A i \in DOMAIN parts :
              IF IsLast(i) THEN Len(parts[i]) \in (IF i = 1 THEN 0 ELSE 1)..PartSize
                           ELSE Len(parts[i]) = PartSize
        /\ phase = "over" => final \/ outcome = "error"
        /\ \A i, j \in DOMAIN parts : \A k \in DOMAIN parts[i], l \in DOMAIN parts[j] :
              parts[i][k][1] = parts[j][l][1] => i = j /\ k = l

(***************************************************************************)
(* "We ALREADY have available a complete map of everything that exists     *)
(* locally, so as soon as we see a remote destination object we can know   *)
(* whether it exists in the local source": what is deleted at the          *)
(* destination the source did not have.                                    *)
(***************************************************************************)
OnlyExtrasAreDeleted == deleted \subseteq wasAbsent
============================================================================
