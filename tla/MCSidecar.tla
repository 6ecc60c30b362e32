----------------------------- MODULE MCSidecar -----------------------------
(* Sidecar with its session identifiers told apart by nothing but their    *)
(* names: no property of the run is temporal, so the symmetry is sound.    *)
EXTENDS Sidecar, TLC

Interchangeable == Permutations(Sessions)
=============================================================================
