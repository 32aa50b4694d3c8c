------------------------------ MODULE Profile ------------------------------
(***************************************************************************)
(* Where the viewer finds a component's profile (internal/discovery):      *)
(* profileArg reads the -profile flag of k8s-pitcher, readFile follows the *)
(* path through the container's mounts to the key of a ConfigMap.  Beside  *)
(* them, what Go's flag package makes of the same arguments and what the   *)
(* container opens at the same path.  The arguments are chosen one at a    *)
(* time, then the pod, one mount and one projected item at a time.         *)
(*                                                                         *)
(* A clean path is the sequence of its segments; a key is a segment.  One  *)
(* ConfigMap is behind all volumes.  A pod that the API server accepts     *)
(* mounts defined volumes only, each mount at a path of its own.           *)
(***************************************************************************)
EXTENDS Integers, SequencesExt

CONSTANTS
    Segments,       \* names of files and directories
    Args,           \* arguments a container may have
    Paths,          \* paths a variable may hold: [abs |-> BOOLEAN, segs |-> segments]
    WorkingDirs,    \* what workingDir may be: <<>> if it is not set
    MountPaths,     \* where volumes are mounted
    SubPaths,       \* subPath of a mount: <<>> if it has none
    Volumes,        \* names of volumes
    Keys,           \* keys of the ConfigMap
    ItemPaths,      \* paths of projected items
    OddName,        \* the file whose name is the text of a flag
    NoValue,        \* a flag without =value
    Empty,          \* the empty string
    Expansion,      \* a text that uses $(VAR)
    NoKey,          \* no key
    MaxArgs,        \* bound: arguments
    MaxEntries      \* bound: mounts and items together

ASSUME ProfileAssumption ==
    /\ \A p \in Paths : p.segs \in Seq(Segments) \ {<<>>}
    /\ WorkingDirs \cup MountPaths \cup SubPaths \cup ItemPaths \subseteq Seq(Segments)
    /\ \A p, q \in ItemPaths : p # q => ~IsPrefix(p, q) \* or no volume could hold both
    /\ OddName \in Segments
    /\ \A a \in Args : \/ a.value \in Paths \cup {Empty, Expansion}
                       \/ a.dashes # 0 /\ a.value = NoValue
    /\ NoKey \notin Keys
    /\ "image" \notin Volumes

VARIABLES
    argv,           \* the arguments after the program name
    phase,          \* "args": they are being chosen; "pod": the path is known
    path,           \* ProfilePath.Value
    unresolved,     \* ProfilePath.Unresolved is set and it is not the default
    workingDir,
    keys,           \* what the ConfigMap holds, {NoKey} if it does not exist
    volumes,        \* the volume of each name: its type, optional and items
    mounts          \* the volume mounts of the container

vars == <<argv, phase, path, unresolved, workingDir, keys, volumes, mounts>>

-----------------------------------------------------------------------------
(* The arguments.  -name=value is [dashes, name, value]; a word has no     *)
(* dashes, "-" and "--" have no name.                                      *)

Ends(a) == a.dashes = 0 \/ a.name = ""

Text(a) == IF a.dashes = 0 THEN a.value ELSE [abs |-> FALSE, segs |-> <<OddName>>]

\* Variant of NameOf: --profile is not -profile.
NameAfterOneDash(a) == IF a.dashes = 1 THEN a.name ELSE "-"

\* strings.Cut of the argument after its dashes.
NameOf(a) == a.name

NotFound == [value |-> Empty, found |-> FALSE]
Found(v) == [value |-> v, found |-> TRUE]

\* What the loop returns that has come to argument i.
profileFrom[i \in 1 .. Len(argv) + 2] ==
    IF i > Len(argv) \/ (i <= Len(argv) /\ Ends(argv[i])) THEN NotFound
    ELSE IF NameOf(argv[i]) = "profile" THEN
           IF argv[i].value # NoValue THEN Found(argv[i].value)
           ELSE IF i < Len(argv) THEN Found(Text(argv[i + 1])) ELSE Found(Empty)
    ELSE IF NameOf(argv[i]) = "kubeconfig" /\ argv[i].value = NoValue
           THEN profileFrom[i + 2] ELSE profileFrom[i + 1]

profileArg == profileFrom[1]

\* Go's flag package with the flags profile and kubeconfig: flag.FlagSet.parseOne.  The
\* last -profile wins; first remembers what the first one set.
FlagSet(s, name, v) ==
    [state |-> s.state, waits |-> "",
     value |-> IF name = "profile" THEN v ELSE s.value,
     first |-> IF name = "profile" /\ s.given = 0 THEN v ELSE s.first,
     given |-> IF name = "profile" THEN s.given + 1 ELSE s.given]

ParseOne(s, a) ==
    CASE s.state # "flags" -> s
      [] s.state = "flags" /\ s.waits # "" -> FlagSet(s, s.waits, Text(a))
      [] s.state = "flags" /\ s.waits = "" /\ Ends(a) -> [s EXCEPT !.state = "parsed"]
      [] s.state = "flags" /\ s.waits = "" /\ ~Ends(a) ->
           IF a.name \notin {"profile", "kubeconfig"} THEN [s EXCEPT !.state = "refused"]
           ELSE IF a.value = NoValue THEN [s EXCEPT !.waits = a.name]
           ELSE FlagSet(s, a.name, a.value)

GoStart == [state |-> "flags", waits |-> "", value |-> Empty, first |-> Empty, given |-> 0]

GoAfter[i \in 0 .. Len(argv)] == IF i = 0 THEN GoStart ELSE ParseOne(GoAfter[i - 1], argv[i])

GoFlags == GoAfter[Len(argv)]

GoAccepts == GoFlags.state # "refused" /\ GoFlags.waits = ""

-----------------------------------------------------------------------------
(* readFile. *)

Read(k) == [status |-> "read", key |-> k]
Fails(status) == [status |-> status, key |-> NoKey]

Absolute == IF path.abs THEN path.segs ELSE workingDir \o path.segs

Holding == {m \in mounts : IsPrefix(m.path, Absolute)}

\* Variant of findMount: the mount with the shortest path.
findOuterMount ==
    CHOOSE m \in Holding : \A o \in Holding : Len(o.path) >= Len(m.path)

findMount == CHOOSE m \in Holding : \A o \in Holding : Len(o.path) <= Len(m.path)

Below(m) == SubSeq(Absolute, Len(m.path) + 1, Len(Absolute))

\* Variant of Rel: the path within the volume without subPath.
RelNoSubPath(m) == Below(m)

Rel(m) == m.subPath \o Below(m)

KeyAt(vol, rel) ==
    LET listed == {i \in DOMAIN vol.items : vol.items[i].path = rel} IN
    IF vol.items = <<>> THEN (IF Len(rel) = 1 THEN Head(rel) ELSE NoKey)
    ELSE IF listed # {} THEN vol.items[Min(listed)].key ELSE NoKey

\* Variant of NotThere: an optional volume keeps the pod from starting, too.
NotThereStops(vol) == Fails("cannot start")

NotThere(vol) == Fails(IF vol.optional THEN "missing" ELSE "cannot start")

readConfigMapFile(vol, rel) ==
    IF keys = {NoKey} THEN NotThere(vol)
    ELSE IF KeyAt(vol, rel) = NoKey THEN Fails("missing")
    ELSE IF KeyAt(vol, rel) \in keys THEN Read(KeyAt(vol, rel))
    ELSE IF vol.items # <<>> THEN NotThere(vol)
    ELSE Fails("missing")

readFile ==
    LET m == findMount IN
    IF \/ unresolved
       \/ ~path.abs /\ workingDir = <<>>
       \/ Holding = {}
       \/ m.expr
       \/ Rel(m) = <<>>
       \/ volumes[m.volume].type # "configMap"
    THEN Fails("unresolved")
    ELSE readConfigMapFile(volumes[m.volume], Rel(m))

-----------------------------------------------------------------------------
(* The kubelet projects the ConfigMap, the container walks down the path.  *)

Projects(vol, p, k) ==
    /\ k \in keys \cap Keys
    /\ IF vol.items = <<>> THEN p = <<k>>
       ELSE \E i \in DOMAIN vol.items :
              /\ vol.items[i] = [key |-> k, path |-> p]
              /\ \A j \in i + 1 .. Len(vol.items) : \* the last one that is there
                   vol.items[j].path = p => vol.items[j].key \notin keys

Blocks(vol) ==
    /\ vol.type = "configMap" /\ ~vol.optional
    /\ keys = {NoKey} \/ \E i \in DOMAIN vol.items : vol.items[i].key \notin keys

PodStarts == \A m \in mounts : ~Blocks(volumes[m.volume])

\* i segments down: in the volume that is mounted there, or deeper in the one before.
PlaceAt[i \in 0 .. Len(Absolute)] ==
    LET here == {m \in mounts : m.path = SubSeq(Absolute, 1, i)} IN
    IF here # {} THEN LET m == CHOOSE m \in here : TRUE
                      IN [volume |-> m.volume, rel |-> m.subPath]
    ELSE IF i = 0 THEN [volume |-> "image", rel |-> <<>>]
    ELSE LET at == PlaceAt[i - 1]
         IN [volume |-> at.volume, rel |-> Append(at.rel, Absolute[i])]

Place == PlaceAt[Len(Absolute)]

InConfigMap ==
    /\ Place.volume \in Volumes /\ volumes[Place.volume].type = "configMap"
    /\ Place.rel # <<>>

Opens(k) == InConfigMap /\ Projects(volumes[Place.volume], Place.rel, k)

-----------------------------------------------------------------------------
(* The machine that chooses arguments and pod. *)

VolumeOf(type, optional) == [type |-> type, optional |-> optional, items |-> <<>>]
EmptyVolumes == {VolumeOf("configMap", o) : o \in BOOLEAN} \cup {VolumeOf("emptyDir", FALSE)}

Init ==
    /\ argv = <<>> /\ phase = "args"
    /\ path = Empty /\ unresolved = FALSE
    /\ workingDir = <<>>
    /\ keys = {}
    /\ volumes = [v \in Volumes |-> VolumeOf("configMap", FALSE)]
    /\ mounts = {}

Argument(a) ==
    /\ phase = "args" /\ Len(argv) < MaxArgs
    /\ argv' = Append(argv, a)
    /\ UNCHANGED <<phase, path, unresolved, workingDir, keys, volumes, mounts>>

\* A component with a ProfilePath in a pod: resolveProfiles, resolveK8sPitchers.
Pod(p, isUnresolved) ==
    /\ phase = "args" /\ phase' = "pod"
    /\ argv' = <<>>
    /\ path' = p /\ unresolved' = isUnresolved
    /\ workingDir' \in WorkingDirs
    /\ keys' \in (SUBSET Keys) \cup {{NoKey}}
    /\ volumes' \in [Volumes -> EmptyVolumes]
    /\ UNCHANGED mounts

\* resolveK8sPitcherArgs, where -profile has a value.
resolveK8sPitcherArgs ==
    LET v == profileArg.value IN
    /\ v # Empty
    /\ IF v = Expansion THEN Pod([abs |-> TRUE, segs |-> <<OddName>>], TRUE) ELSE Pod(v, FALSE)

\* A catcher: its profile path is in a variable.
FromVariable(p, isUnresolved) == argv = <<>> /\ Pod(p, isUnresolved)

Entries == Cardinality(mounts) + FoldFunction(+, 0, [v \in Volumes |-> Len(volumes[v].items)])

Mount(m) ==
    /\ phase = "pod" /\ Entries < MaxEntries
    /\ m.path \notin {o.path : o \in mounts}
    /\ mounts' = mounts \cup {m}
    /\ UNCHANGED <<argv, phase, path, unresolved, workingDir, keys, volumes>>

Item(v, i) ==
    /\ phase = "pod" /\ Entries < MaxEntries
    /\ volumes[v].type = "configMap"
    /\ volumes' = [volumes EXCEPT ![v].items = Append(@, i)]
    /\ UNCHANGED <<argv, phase, path, unresolved, workingDir, keys, mounts>>

Mounting ==
    \/ \E m \in [path : MountPaths, subPath : SubPaths, expr : BOOLEAN, volume : Volumes] :
         Mount(m)
    \/ \E v \in Volumes, i \in [key : Keys, path : ItemPaths] : Item(v, i)

Next ==
    \/ \E a \in Args : Argument(a)
    \/ resolveK8sPitcherArgs
    \/ \E p \in Paths, u \in BOOLEAN : FromVariable(p, u)
    \/ Mounting

Spec == Init /\ [][Next]_vars

-----------------------------------------------------------------------------
(* Properties. *)

\* k8spitcher.go:87, "the way Go's flag package reads it": wherever the flag package
\* accepts the arguments, profileArg finds -profile exactly when the flag package does,
\* and returns the first value that is set there - which is the one k8s-pitcher uses,
\* unless the flag is repeated (ArgsAsGoReads).
FirstProfileFound ==
    GoAccepts =>
        /\ profileArg = [value |-> GoFlags.first, found |-> GoFlags.given > 0]
        /\ GoFlags.given <= 1 => profileArg.value = GoFlags.value

DistinctItems ==
    \A v \in Volumes : \A i, j \in DOMAIN volumes[v].items :
        volumes[v].items[i].path = volumes[v].items[j].path => i = j

\* The profile that the viewer reads is the file that the container opens, under
\* nested mounts, subPath and items; where it says that there is no file, the
\* container finds none.  Two items at one path, which the API server accepts, are
\* the exception: the kubelet keeps the last one, readConfigMapFile the first.
ReadsWhatIsOpened ==
    phase = "pod" /\ PodStarts /\ DistinctItems =>
        /\ readFile.status = "read" => Opens(readFile.key)
        /\ readFile.status = "missing" => \A k \in Keys : ~Opens(k)

\* A profile that is said to keep the pod from starting really does.
CannotStartIsBlocked ==
    phase = "pod" /\ readFile.status = "cannot start" => ~PodStarts

\* Whenever the container opens a key of the ConfigMap, the viewer finds out, unless
\* the path itself depends on what it does not see: a variable it could not resolve,
\* the image's working directory, a subPathExpr.
ReadsWhatItCan ==
    phase = "pod" /\ (\E k \in Keys : Opens(k)) =>
        \/ readFile.status # "unresolved"
        \/ unresolved
        \/ ~path.abs /\ workingDir = <<>>
        \/ \E m \in Holding : m.expr

-----------------------------------------------------------------------------
(* What the repository says and the code does not do. *)

\* k8spitcher.go:87, "profileArg returns k8s-pitcher's -profile flag the way Go's flag
\* package reads it": however often it is given.
ArgsAsGoReads ==
    GoAccepts => profileArg = [value |-> GoFlags.value, found |-> GoFlags.given > 0]
=============================================================================
