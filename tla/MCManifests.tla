---------------------------- MODULE MCManifests ----------------------------
(* One group object that is added to a manifest, changed, and added again, *)
(* with room for two pointers.                                             *)
EXTENDS Manifests
=============================================================================
