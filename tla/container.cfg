SPECIFICATION ContainerSpec
CONSTANTS
    n1 = n1
    n2 = n2
    m1 = m1
    s1 = s1
    Names = {n1, n2}
    Values <- TheValues
    ConfigMaps = {m1}
    Secrets = {s1}
    NotSet = NotSet
    Default <- DefaultPath
    MaxEnvEntries = 4
    ProfilePath = n1
    a = a
    d = d
    k = k
    l = l
    v1 = v1
    v2 = v2
    Segments <- TheSegments
    Args <- TheArgs
    Paths <- ThePaths
    WorkingDirs <- TheWorkingDirs
    MountPaths <- TheMountPaths
    SubPaths <- TheSubPaths
    Volumes = {v1, v2}
    Keys = {k, l}
    ItemPaths <- TheItemPaths
    OddName = OddName
    NoValue = NoValue
    Empty = Empty
    Expansion = Expansion
    NoKey = NoKey
    MaxArgs = 3
    MaxEntries = 3
SYMMETRY VolumeSymmetry
VIEW KnownPath
CHECK_DEADLOCK FALSE
INVARIANT CertainIsReal
INVARIANT ProblemsAreBlocks
INVARIANT FirstProfileFound
INVARIANT ReadsWhatIsOpened
INVARIANT CannotStartIsBlocked
INVARIANT ReadsWhatItCan
