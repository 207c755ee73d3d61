------------------------------- MODULE MCUsb --------------------------------
(***************************************************************************)
(* Both halves of the USB connection, what the Brick sends and what the PC *)
(* does to it, for TLC.  They share no variable: half is the one whose     *)
(* steps are taken, the other stays as it is.                              *)
(***************************************************************************)
EXTENDS UsbSend, UsbDevice

VARIABLE half

UsbVars == <<half, vars, deviceVars>>

UsbInit == half \in {"send", "device"} /\ Init /\ DeviceInit

UsbNext ==
  \/ half = "send" /\ Next /\ UNCHANGED <<half, deviceVars>>
  \/ half = "device" /\ DeviceNext /\ UNCHANGED <<half, vars>>

UsbSpec ==
  /\ UsbInit
  /\ [][UsbNext]_UsbVars
  /\ half = "send" => Fairness
  /\ half = "device" => DeviceFairness

\* The type invariants of both halves, on whose ranges the other invariants
\* rest.
UsbTypeOK == TypeOK /\ DeviceTypeOK
=============================================================================
