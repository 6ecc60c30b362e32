--------------------------- MODULE MCProvisioning ---------------------------
(* Instances of Provisioning: callers in one process, and in two. *)
EXTENDS Provisioning

CONSTANTS c1, c2, p1, p2, checked, unchecked

MCManifest    == <<checked, unchecked>>
MCOneArtifact == <<checked>>
MCChecked     == {checked}
MCSeparate    == (c1 :> p1) @@ (c2 :> p2)
MCShared      == (c1 :> p1) @@ (c2 :> p1)
=============================================================================
