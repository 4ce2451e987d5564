---------------------------- MODULE MCBundleWatch ----------------------------
(***************************************************************************)
(* The requests of MCBundleSubmit, with a caller that waits for the bundle *)
(* once submit() has returned.                                             *)
(***************************************************************************)
EXTENDS MCBundleSubmit, BundleWatch

=============================================================================
