-------------------------------- MODULE Twid --------------------------------
(***************************************************************************)
(* drivers/twi/twid.c: the driver of the I2C bus the plugins of Bricklets  *)
(* use.  TWID_Read and TWID_Write start a transfer, with or without a      *)
(* descriptor of the caller, and TWID_Handler is the interrupt.  Without a *)
(* descriptor the call waits for a transfer by DMA that it describes on    *)
(* its own stack, for at most wait_for_ms.                                 *)
(*                                                                         *)
(* The device at the other end answers, answers after the call has given   *)
(* up, or does not acknowledge its address at all.  The hardware signals   *)
(* one event at a time.                                                    *)
(***************************************************************************)
EXTENDS Integers

CONSTANTS
  TwMaxBytes,     \* bound: bytes of a transfer
  TwMaxCalls,     \* bound: calls
  TwUnresponsive  \* may the device be late or missing?

ASSUME TwidAssumption ==
  /\ TwMaxBytes \in Nat \ {0, 1}
  /\ TwMaxCalls \in Nat
  /\ TwUnresponsive \in BOOLEAN

VARIABLES
  twTransfer,  \* pTransfer: whose descriptor, "none", "stack" or "caller"
  twStatus,    \* status of that descriptor
  twNum,       \* num of that descriptor
  twDone,      \* transferred of that descriptor
  twMask,      \* interrupts that are enabled
  twEvent,     \* event the hardware signals
  twDevice,    \* the transfer on the bus: "idle", "read", "write" or "missing"
  twWaiting,   \* a call waits for its DMA, "none", "ENDRX" or "ENDTX"
  twResult,    \* what the last call returned
  twCalls      \* calls so far

twVars == <<twTransfer, twStatus, twNum, twDone, twMask, twEvent, twDevice,
            twWaiting, twResult, twCalls>>

TwInit ==
  /\ twTransfer = "none"
  /\ twStatus = "none"
  /\ twNum = 0
  /\ twDone = 0
  /\ twMask = {}
  /\ twEvent = "none"
  /\ twDevice = "idle"
  /\ twWaiting = "none"
  /\ twResult = "none"
  /\ twCalls = 0

Ready(kind) == IF kind = "read" THEN "RXRDY" ELSE "TXRDY"
EndOf(kind) == IF kind = "read" THEN "ENDRX" ELSE "ENDTX"

\* The transfer is on the bus, if there is a device.
OnTheBus(kind) ==
  twDevice' \in IF TwUnresponsive THEN {kind, "missing"} ELSE {kind}

\* A call while pTransfer is set.
TwRefused ==
  /\ twTransfer # "none"
  /\ twResult' = "busy"
  /\ UNCHANGED <<twTransfer, twStatus, twNum, twDone, twMask, twEvent,
                 twDevice, twWaiting>>

\* With a descriptor: returns at once, the interrupt does the rest; a write
\* has its first byte on the way already.
TwStart(kind, num) ==
  /\ twTransfer = "none"
  /\ twTransfer' = "caller"
  /\ twStatus' = "pending"
  /\ twNum' = num
  /\ twDone' = IF kind = "read" THEN 0 ELSE 1
  /\ twMask' = twMask \cup {Ready(kind)}
  /\ OnTheBus(kind)
  /\ twResult' = "ok"
  /\ UNCHANGED <<twEvent, twWaiting>>

\* Without a descriptor, more than one byte: the interrupts but the end of the
\* DMA are disabled.
TwDma(kind, num) ==
  /\ twTransfer = "none"
  /\ twTransfer' = "stack"
  /\ twStatus' = "pending"
  /\ twNum' = num
  /\ twDone' = 0
  /\ twMask' = {EndOf(kind)}
  /\ OnTheBus(kind)
  /\ twWaiting' = EndOf(kind)
  /\ UNCHANGED <<twEvent, twResult>>

\* Without a descriptor, one byte: polled, and 0 is returned even if it never
\* comes.
TwByte ==
  /\ twTransfer = "none"
  /\ twResult' = "ok"
  /\ UNCHANGED <<twTransfer, twStatus, twNum, twDone, twMask, twEvent,
                 twDevice, twWaiting>>

TwCall ==
  /\ twWaiting = "none"
  /\ twCalls < TwMaxCalls
  /\ twCalls' = twCalls + 1
  /\ \/ TwRefused
     \/ TwByte
     \/ \E kind \in {"read", "write"} :
          \/ \E num \in 1..TwMaxBytes : TwStart(kind, num)
          \/ \E num \in 2..TwMaxBytes : TwDma(kind, num)

\* The call sees that its DMA is done, or gives up: pTransfer, the interrupt and
\* the DMA stay as they are.
TwReturn ==
  /\ twWaiting # "none"
  /\ \/ twStatus = "done" /\ twResult' = "ok"
     \/ twStatus # "done" /\ TwUnresponsive /\ twResult' = "timeout"
  /\ twWaiting' = "none"
  /\ UNCHANGED <<twTransfer, twStatus, twNum, twDone, twMask, twEvent,
                 twDevice, twCalls>>

\* The bus: the end of a DMA, or the next byte of a transfer by interrupt, and
\* the stop condition that ends it.
TwBus ==
  /\ twEvent = "none"
  /\ twDevice \in {"read", "write"}
  /\ \/ /\ EndOf(twDevice) \in twMask
        /\ twEvent' = EndOf(twDevice)
        /\ twDevice' = "idle"
     \/ /\ Ready(twDevice) \in twMask
        /\ twEvent' = Ready(twDevice)
        /\ UNCHANGED twDevice
     \/ /\ "TXCOMP" \in twMask
        /\ twEvent' = "TXCOMP"
        /\ twDevice' = "idle"
  /\ UNCHANGED <<twTransfer, twStatus, twNum, twDone, twMask, twWaiting,
                 twResult, twCalls>>

\* Mutant: the handler leaves the interrupt of the DMA enabled.
StaysEnabled(event) == twMask

\* TWID_Handler disables the interrupt of the DMA.
DisabledAfter(event) == twMask \ {event}

DmaEnds ==
  /\ twEvent \in {"ENDRX", "ENDTX"}
  /\ twMask' = DisabledAfter(twEvent)
  /\ twStatus' = "done"
  /\ twTransfer' = "none"
  /\ twEvent' = "none"
  /\ UNCHANGED <<twNum, twDone>>

\* RXRDY: the last byte leaves only the end of the transfer to wait for.
ByteReceived ==
  /\ twEvent = "RXRDY"
  /\ twDone' = twDone + 1
  /\ twMask' = IF twDone + 1 = twNum THEN (twMask \ {"RXRDY"}) \cup {"TXCOMP"} ELSE twMask
  /\ twEvent' = "none"
  /\ UNCHANGED <<twTransfer, twStatus, twNum>>

\* TXRDY: stop, or write the next byte.
ByteSent ==
  /\ twEvent = "TXRDY"
  /\ IF twDone = twNum
     THEN /\ twMask' = (twMask \ {"TXRDY"}) \cup {"TXCOMP"}
          /\ UNCHANGED twDone
     ELSE /\ twDone' = twDone + 1
          /\ UNCHANGED twMask
  /\ twEvent' = "none"
  /\ UNCHANGED <<twTransfer, twStatus, twNum>>

TransferComplete ==
  /\ twEvent = "TXCOMP"
  /\ twMask' = twMask \ {"TXCOMP"}
  /\ twStatus' = "done"
  /\ twTransfer' = "none"
  /\ twEvent' = "none"
  /\ UNCHANGED <<twNum, twDone>>

TWID_Handler ==
  /\ DmaEnds \/ ByteReceived \/ ByteSent \/ TransferComplete
  /\ UNCHANGED <<twDevice, twWaiting, twResult, twCalls>>

TwNext == TwCall \/ TwReturn \/ TwBus \/ TWID_Handler

TwSpec == TwInit /\ [][TwNext]_twVars

-----------------------------------------------------------------------------
(* Properties.                                                             *)

TwTypeOK ==
  LET Events == {"ENDRX", "ENDTX", "RXRDY", "TXRDY", "TXCOMP"}
  IN /\ twTransfer \in {"none", "stack", "caller"}
     /\ twStatus \in {"none", "pending", "done"}
     /\ twNum \in 0..TwMaxBytes
     /\ twDone \in 0..TwMaxBytes
     /\ twMask \subseteq Events
     /\ twEvent \in {"none"} \cup Events
     /\ twDevice \in {"idle", "read", "write", "missing"}
     /\ twWaiting \in {"none", "ENDRX", "ENDTX"}
     /\ twResult \in {"none", "ok", "busy", "timeout"}
     /\ twCalls \in 0..TwMaxCalls

\* "assert( pTransfer != NULL )" in TWID_Handler: through calls with and without
\* a descriptor, time-outs and late answers, no interrupt is enabled that could
\* reach the handler while there is no transfer.
HandlerHasTransfer == twMask # {} => twTransfer # "none"

\* "TWI driver is currently busy" (twid.h, TWID_ERROR_BUSY): a call is refused
\* as busy only while a transfer is on the bus or being dealt with.
BusyIsBusy ==
  [][twResult' = "busy" /\ twCalls' # twCalls
       => twDevice \in {"read", "write"} \/ twEvent # "none"]_twVars

=============================================================================
