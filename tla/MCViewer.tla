------------------------------ MODULE MCViewer ------------------------------
(* Instances of Viewer for TLC. *)
EXTENDS Viewer

CONSTANTS c1, c2, apiErr, d1, m1

ApiErrs == {apiErr}
=============================================================================
