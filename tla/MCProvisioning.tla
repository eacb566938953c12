--------------------------- MODULE MCProvisioning ---------------------------
(***************************************************************************)
(* Instances of Provisioning for TLC.                                      *)
(***************************************************************************)
EXTENDS Provisioning

AllKinds == {"cli", "operator", "legacy"}
CLI      == {"cli"}

\* Steps of four items, of one, and one that may be skipped.
Few  == {{"hcloud-ccm", "hcloud-csi", "talos-backup"}}
Base == {{"hcloud-ccm"}}
More == {"monitoring"}
None == {}
=============================================================================
