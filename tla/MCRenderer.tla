---------------------------- MODULE MCRenderer ----------------------------
(* An aircraft of two meshes, the second of a node below the root's.       *)
EXTENDS Renderer

MCMeshKinds == {k \in MeshKind : k.twosided = k.wireframe}
MCchildren == [hull |-> <<"canopy">>, canopy |-> <<>>]
MCmeshes   == [hull |-> <<"shell">>, canopy |-> <<"glass">>]
=============================================================================
