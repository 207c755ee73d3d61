------------------------------- MODULE MCCoMcu -------------------------------
(***************************************************************************)
(* Instances of CoMcu for TLC; the .cfg files give the constants.          *)
(***************************************************************************)
EXTENDS CoMcu

=============================================================================
