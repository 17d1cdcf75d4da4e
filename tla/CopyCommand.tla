---------------------------- MODULE CopyCommand ----------------------------
(***************************************************************************)
(* The commands copy, benchmark, remove and set-properties between the     *)
(* command line and the order: what is moved between which kinds of place  *)
(* is inferred (ValidateFromTo), the flags are checked against it (cook),  *)
(* it is dispatched (process, processCopyJobPartOrders), source and        *)
(* destination are looked at and containers made (initEnumerator), and     *)
(* each object that the source yields becomes a transfer with the paths it *)
(* has below the two roots (the processor of initEnumerator,               *)
(* MakeEscapedRelativePath).                                               *)
(*                                                                         *)
(* A direction is a pair of locations, a path a sequence of names; the     *)
(* escaping of names is one to one and left out. Of the flags those are    *)
(* here that a check relates to the direction or to another flag, and      *)
(* those that steer the enumeration. How transfers are gathered in parts   *)
(* is in Enumeration, how trees are walked in Crawler and LocalWalk.       *)
(***************************************************************************)
EXTENDS Naturals, Sequences, FiniteSets

CONSTANTS
    FlagSets,       \* the sets of flags that commands are given
    Systems         \* the operating systems, of "linux" and "windows"

VARIABLES
    stage,          \* how far the command has come
    command,        \* [name, from, to, asked, flags, system]: what the user gave,
                    \* until it is cooked
    fromTo,         \* cooked.FromTo
    cooked,         \* what cook keeps of the flags for the enumeration
    site,           \* [from, to]: what the two arguments turn out to be
    made,           \* the containers created at the destination
    fpo,            \* jobPartOrder.Fpo
    ordered         \* the transfers: [object, source, destination]

copyVars == <<stage, command, fromTo, cooked, site, made, fpo, ordered>>

Remote == {"BlobFS", "Blob", "File", "S3", "GCP"}
IsLocal(l) == l \notin Remote \union {"Unknown"}
FolderAware == {"BlobFS", "File", "Local"}

IsUpload(ft) == IsLocal(ft[1]) /\ ft[2] \in Remote
IsDownload(ft) == ft[1] \in Remote /\ IsLocal(ft[2])
IsS2S(ft) == ft[1] \in Remote /\ ft[2] \in Remote

Trashing == {"Blob", "File", "BlobFS"} \X {"Unknown"}
PropertyOnly == {"Blob", "File", "BlobFS"} \X {"None"}

(* What inferFromTo can make of two arguments.                             *)
Inferable ==
    ({"Local", "Benchmark"} \X {"Blob", "File", "BlobFS"})
    \union ({"Blob", "File", "BlobFS"} \X {"Local"})
    \union ({"Blob", "File"} \X {"Blob", "File"})
    \union {<<"Pipe", "Blob">>, <<"Blob", "Pipe">>, <<"S3", "Blob">>, <<"GCP", "Blob">>}

(* The values of the enumeration FromTo, all of which --from-to accepts.   *)
EFromTo ==
    Inferable \union Trashing \union PropertyOnly
    \union {<<"Pipe", "File">>, <<"File", "Pipe">>}

(* What InferArgumentLocation makes of an argument; Unknown is a host that *)
(* is a number, as emulators have.                                         *)
Arguments == {"Local", "Pipe", "Blob", "File", "BlobFS", "S3", "GCP", "Benchmark", "Unknown"}
Nothing == <<"Unknown", "Unknown">>

Off == [strip |-> FALSE, list |-> FALSE, versions |-> FALSE, asSubdir |-> TRUE,
        stubs |-> FALSE, permissions |-> FALSE, posix |-> FALSE, filesOnly |-> FALSE,
        decompress |-> FALSE, dryrun |-> FALSE, hns |-> FALSE, recursive |-> FALSE]
NoSite == [from |-> "nothing", to |-> "nothing"]
NoCommand == [name |-> "none", from |-> "Unknown", to |-> "Unknown", asked |-> Nothing,
              flags |-> {}, system |-> "none"]

(* The pipe is the argument that is missing, or spelt out. A benchmark has *)
(* its source and two of its options made up; remove and set-properties    *)
(* leave the destination empty, which counts as local, and ask for the     *)
(* direction themselves.                                                   *)
Commands ==
    [name : {"copy"}, from : Arguments \ {"Benchmark"}, to : Arguments \ {"Benchmark"},
     asked : {Nothing} \union EFromTo, flags : FlagSets, system : Systems]
    \union [name : {"benchmark"}, from : {"Benchmark"}, to : {"Blob", "File", "BlobFS"},
            asked : {Nothing}, flags : {{"recursive"}, {"recursive", "putMd5"}},
            system : Systems]
    \union [name : {"remove"}, from : {"Blob", "File", "BlobFS"}, to : {"Local"},
            asked : Trashing, flags : FlagSets, system : Systems]
    \union [name : {"set-properties"}, from : {"Blob", "File"}, to : {"Local"},
            asked : PropertyOnly, flags : FlagSets, system : Systems]

(* Data Lake arguments are addressed as blobs unless the other side is     *)
(* local.                                                                  *)
Switched(arg, other) == IF arg = "BlobFS" /\ other # "Local" THEN "Blob" ELSE arg

(* A direction that is asked for fits the arguments as far as they tell.   *)
Fits(c) ==
    \/ c.asked = Nothing
    \/ /\ c.asked[1] \in IF c.from = "Unknown" THEN Remote
                         ELSE {c.from, Switched(c.from, c.to)}
       /\ \/ c.asked[2] \in {"Unknown", "None"} /\ c.to = "Local"
          \/ c.asked[2] \in IF c.to = "Unknown" THEN Remote
                            ELSE {c.to, Switched(c.to, c.from)}

CopyInit ==
    /\ stage = "given"
    /\ command \in {c \in Commands : Fits(c)}
    /\ fromTo = Nothing
    /\ cooked = Off
    /\ site = NoSite
    /\ made = {} /\ fpo = "NoFolders" /\ ordered = {}

-----------------------------------------------------------------------------
(* The checks of cook, on a direction ft, flags F and a system os.         *)

OptionsRefused(ft, F, os) ==
    \/ "forceIfReadOnly" \in F /\ ~ \/ ft[2] = "File" \/ ft = <<"File", "Unknown">>
                                    \/ ft[2] = "Local" /\ os = "windows"
    \/ "decompress" \in F /\ ft \notin {"Blob", "File"} \X {"Local"}
    \/ {"appendBlob", "bigBlocks"} \subseteq F
    \/ F \cap {"include", "exclude"} # {} /\ ft = <<"BlobFS", "Unknown">>
    \/ {"listOfFiles", "includePath"} \subseteq F

PropertiesRefused(ft, F) ==
    \/ "blobTags" \in F /\ ft = <<"BlobFS", "None">>
    \/ "s2sBlobTags" \in F /\ (ft # <<"Blob", "Blob">> \/ "blobTags" \in F)
    \/ {"cpkByName", "cpkByValue"} \subseteq F
    \/ F \cap {"cpkByName", "cpkByValue"} # {} /\ ft[2] = "BlobFS"

PosixAware(ft, os) == ft = <<"Blob", "Blob">> \/ (ft = <<"Local", "Blob">> /\ os = "linux")

PermissionsRefused(ft, F, os) ==
    \/ ft \notin {<<"Local", "File">>, <<"File", "Local">>, <<"File", "File">>, <<"Blob", "Blob">>}
    \/ (IsUpload(ft) \/ IsDownload(ft)) /\ os # "windows"
    \/ "followSymlinks" \in F

PreservationRefused(ft, F, os) ==
    \/ "posix" \in F /\ ~PosixAware(ft, os)
    \/ "permissions" \in F /\ PermissionsRefused(ft, F, os)
    \/ "noOwner" \in F /\ ~IsDownload(ft)
    \/ "backup" \in F /\ ~(os = "windows" /\ (IsUpload(ft) \/ IsDownload(ft)))

(* The switch over the direction. The flags of service to service copies   *)
(* are not looked at: cook sets their fields only afterwards.              *)
DirectionRefused(ft, F) ==
    \/ /\ ft \in {"Local"} \X {"Blob", "BlobFS", "File"}
       /\ F \cap ({"lastModified"} \union
                  (IF ft[2] = "Blob" THEN {} ELSE {"appendBlob", "tier"})) # {}
    \/ /\ ft \in {"Blob", "File", "BlobFS"} \X {"Local"}
       /\ F \cap {"followSymlinks", "tier", "noGuessMimeType", "contentType", "metadata"} # {}
    \/ /\ ft \in ({"Blob", "File"} \X {"Blob", "File"}) \union ({"S3", "GCP"} \X {"Blob"})
       /\ F \cap ({"lastModified", "followSymlinks", "noGuessMimeType", "contentType", "metadata"}
                  \union (IF ft[2] = "Blob" THEN {} ELSE {"appendBlob", "tier"})) # {}

OutputRefused(ft, F) ==
    \/ "putMd5" \in F /\ ~IsUpload(ft)
    \/ "checkMd5" \in F /\ ~IsDownload(ft)
    \/ "fileAttributes" \in F /\ ft[1] # "Local"
    \/ "quiet" \in F /\ F \cap {"prompt", "dryrun"} # {}

CookRefuses(ft, F, os) ==
    \/ OptionsRefused(ft, F, os)
    \/ PropertiesRefused(ft, F)
    \/ PreservationRefused(ft, F, os)
    \/ DirectionRefused(ft, F)
    \/ OutputRefused(ft, F)

InferredFromTo(from, to) == IF <<from, to>> \in Inferable THEN <<from, to>> ELSE Nothing

Kept(c, ft) ==
    LET F == c.flags
        bothDfs == c.from = "BlobFS" /\ c.to = "BlobFS"
        hns == bothDfs \/ (ft = <<"Blob", "Blob">> /\ "permissions" \in F)
    IN  [strip |-> "wildcard" \in F \/ c.name = "benchmark",
         list |-> F \cap {"listOfFiles", "includePath"} # {},
         versions |-> "listOfVersions" \in F,
         asSubdir |-> "noSubdir" \notin F,
         stubs |-> c.name = "remove" \/ "stubs" \in F \/ (hns /\ "permissions" \in F),
         permissions |-> "permissions" \in F,
         posix |-> "posix" \in F,
         filesOnly |-> F \cap {"include", "exclude", "includeDate", "fileAttributes"} # {},
         decompress |-> "decompress" \in F,
         dryrun |-> "dryrun" \in F,
         hns |-> hns,
         recursive |-> "recursive" \in F]

Cook ==
    /\ stage = "given"
    /\ LET ft == IF command.asked # Nothing THEN command.asked
                 ELSE InferredFromTo(Switched(command.from, command.to),
                                     Switched(command.to, command.from))
       IN  IF ft = Nothing \/ CookRefuses(ft, command.flags, command.system)
           THEN stage' = "refused" /\ UNCHANGED <<fromTo, cooked>>
           ELSE stage' = "cooked" /\ fromTo' = ft /\ cooked' = Kept(command, ft)
    /\ command' = NoCommand
    /\ UNCHANGED <<site, made, fpo, ordered>>

-----------------------------------------------------------------------------
(* process and processCopyJobPartOrders.                                   *)

Redirect ==
    /\ stage = "cooked"
    /\ fromTo \in {<<"Blob", "Pipe">>, <<"Pipe", "Blob">>}
    /\ stage' = "redirected"
    /\ UNCHANGED <<command, fromTo, cooked, site, made, fpo, ordered>>

Enumerated(ft) ==
    ft \in Inferable /\ ft \notin {<<"Blob", "Pipe">>, <<"Pipe", "Blob">>}

(* The account may not let the user in; GetResourceRoot knows every source *)
(* but a pipe.                                                             *)
Dispatch ==
    /\ stage = "cooked"
    /\ fromTo \notin {<<"Blob", "Pipe">>, <<"Pipe", "Blob">>}
    /\ \/ stage' = "refused"
       \/ stage' = IF fromTo[1] = "Pipe" THEN "panicked"
                   ELSE IF Enumerated(fromTo) \/ fromTo \in Trashing \union PropertyOnly
                        THEN "dispatched"
                        ELSE "unsupported"
    /\ UNCHANGED <<command, fromTo, cooked, site, made, fpo, ordered>>

RootIncluded(ft, cca, toNull) ==
    IF ~cca.recursive \/ cca.filesOnly THEN "NoFolders" ELSE "AllFolders"

(* newFolderPropertyOption, where cca is cooked.                           *)
FolderPropertyOption(ft, cca, toNull) ==
    LET bothAware == /\ \/ ft[1] \in FolderAware /\ ft[2] \in FolderAware
                        \/ cca.hns \/ cca.posix \/ cca.stubs
                     /\ ~toNull
    IN  IF ~(bothAware \/ ft = <<"File", "Unknown">>) \/ ~cca.recursive \/ cca.filesOnly
        THEN "NoFolders"
        ELSE IF cca.strip THEN "AllFoldersExceptRoot" ELSE "AllFolders"

(* newRemoveEnumerator, setPropertiesEnumerator and removeBfsResources,    *)
(* which takes no filters. Traversing an account must be recursive.        *)
RemoveOrSet ==
    /\ stage = "dispatched"
    /\ fromTo \in Trashing \union PropertyOnly
    /\ \E account \in BOOLEAN :
          IF \/ account /\ ~cooked.list /\ ~cooked.recursive
             \/ fromTo = <<"BlobFS", "Unknown">> /\ (cooked.filesOnly \/ cooked.strip)
          THEN stage' = "refused" /\ fpo' = fpo
          ELSE /\ stage' = "ordered"
               /\ fpo' = FolderPropertyOption(fromTo, [cooked EXCEPT
                            !.posix = FALSE, !.hns = @ /\ fromTo \in PropertyOnly], FALSE)
    /\ UNCHANGED <<command, fromTo, cooked, site, made, ordered>>

-----------------------------------------------------------------------------
(* initEnumerator: what is at the two ends.                                *)

SiteEnds(l) ==
    IF l = "Local" THEN {"folder", "file"}
    ELSE IF l = "Benchmark" THEN {"folder"}
    ELSE {"service", "container", "folder", "file"}

(* A wildcard is given below a container or a folder.                      *)
SitesOf(ft, cca) ==
    [from : SiteEnds(ft[1]) \ IF cca.strip THEN {"service", "file"} ELSE {},
     to : SiteEnds(ft[2]) \union IF ft[2] = "Local" THEN {"null"} ELSE {}]

(* ELocationLevel; a local folder counts as a container.                   *)
Level(l, end) ==
    IF end = "service" THEN 0
    ELSE IF end = "container" \/ (l = "Local" /\ end = "folder") THEN 1
    ELSE 2

SourceListed(ft, cca) == cca.list \/ (ft[1] = "Local" /\ cca.strip)

(* A list of paths is never a directory, whatever it lists.                *)
SourceIsDir(ft, cca, s) == ~SourceListed(ft, cca) /\ s.from # "file"
DestIsDir(s) == s.to \in {"service", "container", "folder"}

SiteRefused(ft, cca, s) ==
    LET from == Level(ft[1], s.from)
        to == Level(ft[2], s.to)
    IN  \/ cca.list /\ ft[1] = "Local" /\ cca.strip
        \/ from = 0 /\ ~cca.recursive
        \/ SourceIsDir(ft, cca, s) /\ ~cca.recursive /\ ~cca.strip
        \/ cca.versions /\ ~ /\ ft = <<"Blob", "Local">>
                             /\ ~SourceIsDir(ft, cca, s) /\ DestIsDir(s)
        \/ cca.list /\ from = 0
        \/ (from = 2 \/ IsLocal(ft[1])) /\ to = 0
        \/ from = 1 /\ to = 0 /\ ~cca.asSubdir

Containers == {"c1", "c2"}

(* The destination container when it is named; else those of the account,  *)
(* or the one of the source.                                               *)
ContainersToMake(ft, s) ==
    IF ~IsS2S(ft) THEN {}
    ELSE IF s.to # "service" THEN {"named"}
    ELSE IF s.from = "service" THEN Containers
    ELSE {"c1"}

(* Listing the containers of the source account, and the credentials of    *)
(* the source, may fail.                                                   *)
InitEnumerator ==
    /\ stage = "dispatched"
    /\ Enumerated(fromTo)
    /\ \/ \E s \in SitesOf(fromTo, cooked) :
             /\ ~SiteRefused(fromTo, cooked, s)
             /\ site' = s
             /\ made' = ContainersToMake(fromTo, s)
             /\ LET cca == [cooked EXCEPT
                              !.strip = @ \/ (s = [from |-> "container", to |-> "container"])]
                IN  /\ cooked' = cca
                    /\ fpo' = FolderPropertyOption(fromTo, cca, s.to = "null")
             /\ stage' = "initialized"
       \/ stage' = "refused" /\ UNCHANGED <<cooked, site, made, fpo>>
    /\ UNCHANGED <<command, fromTo, ordered>>

-----------------------------------------------------------------------------
(* The objects that the traverser of the source yields: in each container  *)
(* a file, the same compressed, and a folder with a file in it.            *)

Object(path, kind, c, v) ==
    [path |-> path, kind |-> kind, container |-> c, name |-> "f", version |-> v]

(* Blobs that stand for folders are listed on demand, and there is none    *)
(* for a container.                                                        *)
Tree(ft, cca, s, c) ==
    LET stubs == ft[1] = "Blob" /\ cca.stubs /\ cca.recursive
    IN  {Object(<<"f">>, "file", c, ""), Object(<<"f.gz">>, "file", c, "")}
        \union {o \in {Object(<<"d", "f">>, "file", c, "")} : cca.recursive}
        \union {o \in {Object(<<"d">>, "folder", c, "")} :
                    ft[1] \in FolderAware \/ stubs}
        \union {o \in {Object(<<>>, "folder", c, "")} :
                    ft[1] \in FolderAware \/ (stubs /\ s.from = "folder")}

SourceContainer(ft) == IF ft[1] \in Remote THEN "c1" ELSE ""

Yielded(ft, cca, s) ==
    IF s.from = "service" THEN UNION {Tree(ft, cca, s, c) : c \in Containers}
    ELSE IF s.from = "file"
         THEN {Object(<<>>, "file", SourceContainer(ft), v) :
                  v \in IF cca.list THEN {} ELSE IF cca.versions THEN {"v1", "v2"} ELSE {""}}
    ELSE {o \in Tree(ft, cca, s, SourceContainer(ft)) :
             SourceListed(ft, cca) => o.path # <<>>}

SingleSourceFile(o) == o.path = <<>> /\ o.kind = "file"

CompatibleWithFpo(o, option) ==
    \/ o.kind = "file"
    \/ option = "AllFolders"
    \/ option = "AllFoldersExceptRoot" /\ o.path # <<>>

ContainerDropped(o, ft, s) ==
    LET to == Level(ft[2], s.to)
    IN  [object |-> o,
         source |-> IF to >= 1 THEN "" ELSE o.container,
         destination |-> IF to >= 1 THEN "" ELSE o.container]

(* The container an object goes to is added when the destination names     *)
(* none or a whole account is copied; below the service it is not needed.  *)
Containered(o, ft, s) ==
    LET from == Level(ft[1], s.from)
        to == Level(ft[2], s.to)
        added == o.container # "" /\ (ft[2] \notin Remote \/ to = 0 \/ from = 0)
    IN  [object |-> o,
         source |-> IF from # 0 THEN "" ELSE o.container,
         destination |-> IF ~added \/ (from # 0 /\ to >= 1) THEN "" ELSE o.container]

(* MakeEscapedRelativePath: p is an object with its containers.            *)
RelativePath(isSource, p, cca, s) ==
    LET o == p.object
        container == IF isSource THEN p.source ELSE p.destination
        versioned == IF o.version = "" THEN <<o.name>> ELSE <<o.version, o.name>>
    IN  IF ~isSource /\ s.to = "null" THEN <<>>
        ELSE IF SingleSourceFile(o)
             THEN IF isSource \/ ~DestIsDir(s) THEN <<>> ELSE versioned
        ELSE IF container # "" THEN <<container>> \o o.path
        ELSE IF ~isSource /\ ~cca.strip /\ cca.asSubdir THEN <<"root">> \o o.path
        ELSE o.path

(* stripCompressionExtension.                                              *)
Decompressed(path) == [i \in DOMAIN path |-> IF path[i] = "f.gz" THEN "f" ELSE path[i]]

(* The processor. Both paths are made for the source.                      *)
TransferOf(o, ft, cca, s) ==
    LET p == Containered(o, ft, s)
        destination == RelativePath(TRUE, p, cca, s)
    IN  [object |-> o,
         source |-> RelativePath(TRUE, p, cca, s),
         destination |-> IF cca.decompress /\ IsDownload(ft) THEN Decompressed(destination)
                         ELSE destination]

Enumerate ==
    /\ stage = "initialized"
    /\ stage' = "ordered"
    /\ ordered' = IF cooked.dryrun THEN {}
                  ELSE {TransferOf(o, fromTo, cooked, site) :
                           o \in {o \in Yielded(fromTo, cooked, site) : CompatibleWithFpo(o, fpo)}}
    /\ UNCHANGED <<command, fromTo, cooked, site, made, fpo>>

CopyNext == Cook \/ Redirect \/ Dispatch \/ RemoveOrSet \/ InitEnumerator \/ Enumerate

CopySpec == CopyInit /\ [][CopyNext]_copyVars

-----------------------------------------------------------------------------
(* Two objects of one command never go to the same place. Versions of one  *)
(* blob do, as their name is not made (SingleFilesKeepTheirName), and what *)
(* decompresses to the name of another file.                               *)
TransfersAreApart ==
    \A a, b \in ordered :
        a.destination = b.destination =>
            a = b \/ a.object.version # b.object.version \/ cooked.decompress

(* A command that is accepted is carried out: what was inferred is always  *)
(* dispatched, and a container copied to a container leaves the root of    *)
(* the other alone.                                                        *)
CommandsAreCarriedOut ==
    /\ stage \in {"panicked", "unsupported"} => fromTo \notin Inferable
    /\ site = [from |-> "container", to |-> "container"] =>
          \A t \in ordered : t.object.path # <<>>

(* A single file put into a folder keeps its name there, as                *)
(* MakeEscapedRelativePath says of destinations and the tests of uploads   *)
(* to virtual folders do.                                                  *)
SingleFilesKeepTheirName ==
    \A t \in ordered :
        SingleSourceFile(t.object) /\ DestIsDir(site) => t.destination # <<>>

=============================================================================
