------------------------------ MODULE MCUsbSend ------------------------------
(***************************************************************************)
(* Instances of UsbSend for TLC; the .cfg files give the constants.        *)
(***************************************************************************)
EXTENDS UsbSend

=============================================================================
