----------------------------- MODULE MCSpiStack -----------------------------
(***************************************************************************)
(* Instances of SpiStack for TLC; the .cfg files give the constants.       *)
(***************************************************************************)
EXTENDS SpiStack

=============================================================================
