------------------------------ MODULE LocalWalk ------------------------------
(***************************************************************************)
(* The local traverser (cmd/zc_traverser_local.go): a directory is walked, *)
(* and the directories that symbolic links lead to are queued and walked   *)
(* after it, under the name of the link; what was seen is remembered, so   *)
(* that links which lead back, or to the same place, are not walked again. *)
(* The parallel walk of one directory (common/parallel) is Crawler's: here *)
(* it brings the directory itself and then all that is below, in any order.*)
(***************************************************************************)
EXTENDS Naturals, Sequences, FiniteSets, SequencesExt

CONSTANTS Folders, Leaves, Links,  \* what the file system holds
          PathTo,                  \* the path of each of them from the top
          Nowhere,
          Start,                   \* the folder to be copied
          LinkTargets,             \* what a link may lead to; Nowhere: it is broken
          Rejected                 \* sets of entries the filters may reject

Entries == Folders \cup Leaves \cup Links

ASSUME LocalWalkAssumption ==
    /\ Nowhere \notin Entries /\ Folders \cap Leaves = {}
    /\ (Folders \cup Leaves) \cap Links = {}
    /\ PathTo \in [Entries -> Seq(Entries) \ {<< >>}]
    /\ \A e \in Entries :
          /\ Last(PathTo[e]) = e
          /\ \A i \in 1..(Len(PathTo[e]) - 1) :
                PathTo[e][i] \in Folders /\ PathTo[PathTo[e][i]] = SubSeq(PathTo[e], 1, i)
    /\ Start \in Folders /\ LinkTargets \subseteq Folders \cup Leaves \cup {Nowhere}

VARIABLES linkTo,     \* what each link leads to, followed to the end
          options,    \* recursive, followSymlinks; direct: no link in the path of Start itself
          rejected,   \* the entries the filters reject
          walkQueue,  \* the items to be walked: a folder, the name it was found under
          walking,    \* the current one
          pending,    \* its entries still to come
          seenPaths,  \* seenPathsRecorder: paths, through a link or direct
          named,      \* what was handed to the processor: its name, the entry it is
          walkEnds,   \* "no", "done", "failed"
          repeated    \* history: one name was handed over twice

walkVars == <<linkTo, options, rejected, walkQueue, walking, pending, seenPaths, named,
              walkEnds, repeated>>

(* The folder an entry is in.                                              *)
HomeOf(e) == LET path == PathTo[e] IN IF Len(path) = 1 THEN Nowhere ELSE path[Len(path) - 1]

Under(dir) == {e \in Entries : dir \in ToSet(PathTo[e])}
NameFrom(dir, e) == SubSeq(PathTo[e], Len(PathTo[dir]) + 1, Len(PathTo[e]))

Item(dir, base, direct) == [at |-> dir, base |-> base, direct |-> direct]

WalkInit ==
    /\ linkTo \in [Links -> LinkTargets]
    /\ options \in [recursive : BOOLEAN, followSymlinks : BOOLEAN, direct : BOOLEAN]
    /\ rejected \in Rejected
    /\ walkQueue = << >> /\ walking = Item(Start, << >>, options.direct)
    /\ pending = IF options.recursive THEN Under(Start) ELSE {e \in Entries : HomeOf(e) = Start}
    /\ seenPaths = {} /\ named = {} /\ walkEnds = "no" /\ repeated = FALSE

(* realSeenPathsRecorder; without links to follow nothing is remembered.   *)
Record(paths) == seenPaths' = IF options.followSymlinks THEN seenPaths \cup paths ELSE seenPaths

PathOfFound(e) == [direct |-> walking.direct, entry |-> e]
TargetPath(l) == [direct |-> TRUE, entry |-> linkTo[l]]

(* processIfPassedFilters; what fails there is dropped (getProcessingError *)
(* only knows what the filters reject).                                    *)
HandOver(e, what) ==
    LET n == [name |-> walking.base \o NameFrom(walking.at, e), is |-> what]
    IN  IF e \in rejected THEN UNCHANGED <<named, repeated>>
        ELSE /\ named' = named \cup {n}
             /\ repeated' = (repeated \/ \E m \in named : m.name = n.name)

(* The folder of the item comes first.                                     *)
Comes(e) ==
    /\ walkEnds = "no" /\ options.recursive
    /\ e \in pending /\ (walking.at \in pending => e = walking.at)
    /\ pending' = pending \ {e}
    /\ UNCHANGED <<linkTo, options, rejected, walking, walkEnds>>

(* WalkWithSymlinks, for what is no link: once each.                       *)
VisitEntry(e) ==
    /\ e \notin Links /\ Comes(e)
    /\ IF PathOfFound(e) \in seenPaths
       THEN UNCHANGED <<seenPaths, named, repeated>>
       ELSE HandOver(e, e) /\ (IF e \in rejected THEN UNCHANGED seenPaths
                               ELSE Record({PathOfFound(e)}))
    /\ UNCHANGED walkQueue

(* A link that is not followed, or leads nowhere, is passed over.          *)
PassOver(l) ==
    /\ Comes(l) /\ (~options.followSymlinks \/ linkTo[l] = Nowhere)
    /\ UNCHANGED <<walkQueue, seenPaths, named, repeated>>

Follows(l) == Comes(l) /\ options.followSymlinks /\ linkTo[l] # Nowhere

\* Mutant: only the link is remembered, not what it leads to.
FollowToFolderBlindly(l) ==
    /\ linkTo[l] \in Folders /\ Follows(l)
    /\ IF TargetPath(l) \in seenPaths \/ l \in rejected
       THEN UNCHANGED <<walkQueue, seenPaths, named, repeated>>
       ELSE /\ HandOver(l, linkTo[l])
            /\ Record({PathOfFound(l)})
            /\ walkQueue' = Append(walkQueue,
                   Item(linkTo[l], walking.base \o NameFrom(walking.at, l), TRUE))

(* The folder a link leads to is handed over and queued under the link's   *)
(* name, unless it was seen or the link is rejected.                       *)
FollowToFolder(l) ==
    /\ linkTo[l] \in Folders /\ Follows(l)
    /\ IF TargetPath(l) \in seenPaths \/ l \in rejected
       THEN UNCHANGED <<walkQueue, seenPaths, named, repeated>>
       ELSE /\ HandOver(l, linkTo[l])
            /\ Record({TargetPath(l), PathOfFound(l)})
            /\ walkQueue' = Append(walkQueue,
                   Item(linkTo[l], walking.base \o NameFrom(walking.at, l), TRUE))

(* A file is handed over once for each link that leads to it.              *)
FollowToFile(l) ==
    /\ linkTo[l] \in Leaves /\ Follows(l)
    /\ HandOver(l, linkTo[l])
    /\ UNCHANGED <<walkQueue, seenPaths>>

(* parallel.Walk of the next item.                                         *)
NextItem ==
    /\ walkEnds = "no" /\ options.recursive /\ pending = {} /\ walkQueue # << >>
    /\ walking' = Head(walkQueue) /\ walkQueue' = Tail(walkQueue)
    /\ pending' = Under(Head(walkQueue).at)
    /\ UNCHANGED <<linkTo, options, rejected, seenPaths, named, walkEnds, repeated>>

(* Traverse without recursion: the files in the folder itself, and those   *)
(* links in it lead to; a broken link is the end.                          *)
ListOne(e) ==
    /\ walkEnds = "no" /\ ~options.recursive /\ e \in pending
    /\ pending' = pending \ {e}
    /\ LET followed == e \in Links /\ options.followSymlinks
           what == IF followed THEN linkTo[e] ELSE e
       IN  /\ walkEnds' = IF what = Nowhere THEN "failed" ELSE walkEnds
           /\ IF what \in Leaves THEN HandOver(e, what) ELSE UNCHANGED <<named, repeated>>
    /\ UNCHANGED <<linkTo, options, rejected, walkQueue, walking, seenPaths>>

WalkReturns ==
    /\ walkEnds = "no" /\ pending = {} /\ walkQueue = << >>
    /\ walkEnds' = "done"
    /\ UNCHANGED <<linkTo, options, rejected, walkQueue, walking, pending, seenPaths, named,
                   repeated>>

WalkNext ==
    \/ NextItem \/ WalkReturns
    \/ \E e \in pending : VisitEntry(e) \/ ListOne(e)
    \/ \E l \in pending \cap Links : PassOver(l) \/ FollowToFolder(l) \/ FollowToFile(l)

WalkSpec == WalkInit /\ [][WalkNext]_walkVars

-----------------------------------------------------------------------------
(* What is to be found: no more than what is below Start, and below what   *)
(* links found there lead to.                                              *)
ClosedUnderLinks(found) ==
    \A l \in (found \cap Links) \ rejected :
        options.followSymlinks /\ linkTo[l] # Nowhere => Under(linkTo[l]) \subseteq found

ToBeFound ==
    {e \in Entries : \A found \in SUBSET Entries :
        Under(Start) \subseteq found /\ ClosedUnderLinks(found) => e \in found}

NamesOf(e) == {n \in named : n.is = e}
ByItself(n) == n.name = << >> \/ Last(n.name) = n.is

(***************************************************************************)
(* Links may lead anywhere, back, to each other's folders or above the     *)
(* start, and entries come in any order: no name is used twice, and a walk *)
(* that is done has handed over all that can be reached and the filters    *)
(* let pass: each folder once, by itself or by a link, and each file once  *)
(* by itself (and wherever a link to it is come by); "to avoid re-walking  *)
(* any paths we already know".  Only when Start was itself named through a *)
(* link may things come twice, since their paths then differ from those    *)
(* links lead to.                                                          *)
(***************************************************************************)
WalkIsWhole ==
    LET most == IF options.direct THEN 1 ELSE 2 IN
    /\ ~repeated
    /\ \A e \in Folders : Cardinality(NamesOf(e)) <= most
    /\ \A e \in Leaves : Cardinality({n \in NamesOf(e) : ByItself(n)}) <= most
    /\ walkEnds = "done" /\ options.recursive =>
          \A e \in (Folders \cup Leaves) \ rejected : e \in ToBeFound <=> NamesOf(e) # {}

=============================================================================
