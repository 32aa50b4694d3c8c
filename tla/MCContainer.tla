---------------------------- MODULE MCContainer ----------------------------
EXTENDS Container

CONSTANTS n1, n2, m1, s1, a, d, k, l, v1, v2

Flag(dashes, name, value) == [dashes |-> dashes, name |-> name, value |-> value]

TheSegments == {a, d, k, l, OddName}

APath == [abs |-> TRUE, segs |-> <<a, k>>]
Relative == [abs |-> FALSE, segs |-> <<k>>]
DefaultPath == [abs |-> TRUE, segs |-> <<a, d, l>>]

TheValues == {APath, Relative}
ThePaths == TheValues \cup {DefaultPath}

TheArgs ==
    {Flag(n, "profile", v) : n \in 1..2, v \in {NoValue, APath, Empty}} \cup
    {Flag(1, "kubeconfig", v) : v \in {NoValue, APath}} \cup
    {Flag(1, "other", NoValue), Flag(1, "", NoValue), Flag(2, "", NoValue)} \cup
    {Flag(0, "", v) : v \in {APath, Expansion}}

TheWorkingDirs == {<<>>, <<a>>}
TheMountPaths == {<<a>>, <<a, k>>}
TheSubPaths == {<<>>, <<l>>, <<d, l>>}
TheItemPaths == {<<k>>, <<d, l>>}

VolumeSymmetry == Permutations(Volumes)

\* Once the path is known, no step looks at the environment.
KnownPath == <<vars, IF phase = "args" THEN envState ELSE <<>> >>
=============================================================================
