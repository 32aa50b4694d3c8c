-------------------------- MODULE MCSnapshotCache --------------------------
(* Instances of SnapshotCache for TLC. *)
EXTENDS SnapshotCache, TLC

CONSTANTS c1, c2, apiErr

TwoCallers == {c1, c2}
ApiErrs == {apiErr}
NoErrs == {}

CallerSymmetry == Permutations(Callers)
=============================================================================
