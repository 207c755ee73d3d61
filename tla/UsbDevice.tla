------------------------------ MODULE UsbDevice ------------------------------
(***************************************************************************)
(* A Brick as an USB device: the device states and the default endpoint    *)
(* (drivers/usb/USBD.c, USBDDriver.c, USBD_HAL.c), the OUT endpoint with   *)
(* its own read hook, usb_recv, the message loop and the first enumeration *)
(* (com/usb/usb.c, usb_callbacks.c, com/com_common.c).                     *)
(*                                                                         *)
(* The interrupt is one action: a chain of operators on the record udp,    *)
(* one per function or per block of UDP_EndpointHandler, in their order.   *)
(* It comes between any two accesses of a task to what they share.  The    *)
(* n-th message of the PC is the number n.  Of the IN endpoint only        *)
(* whether it is configured matters here: UsbSend has the rest.            *)
(***************************************************************************)
EXTENDS Integers, Sequences

CONSTANTS
  MaxSent,        \* bound: messages of the PC
  Long,           \* those of two packets
  Requests,       \* what the PC asks for besides address and configuration
  MaxEvents,      \* bound: such requests, bus resets and suspends
  WakeAt,         \* ticks until the Brick wakes the PC up (255 in the code)
  Interrupted     \* bus resets, suspends and halts may come while packets of
                  \* the PC are on their way to the message loop, and a bus
                  \* reset or the Brick's own request between two packets

ASSUME UsbDeviceAssumption ==
  /\ MaxSent \in Nat /\ Long \subseteq 1..MaxSent
  /\ Requests \subseteq {"DESCRIPTOR", "UNKNOWN", "HALT", "UNHALT", "UNCONFIG",
                         "RECONFIG"}
  /\ MaxEvents \in Nat /\ WakeAt \in Nat \ {0, 1} /\ Interrupted \in BOOLEAN

NoData == [msg |-> 0, part |-> 1]       \* usb_recv_transferred = 0
EnumerateConnected == [msg |-> -1, part |-> 1]
NotAMessage == -2
InStep(msg) == [msg |-> msg, part |-> 1]

Parts(msg) == IF msg \in Long THEN 2 ELSE 1

\* Bytes of a packet; only the first of two is as long as the endpoint.
Full(packet) == packet.msg \in Long /\ packet.part = 1
Bytes(packet) == IF Full(packet) THEN 64
                 ELSE IF packet.msg \in Long THEN 16 ELSE 8

VARIABLES udp, host, loop

deviceVars == <<udp, host, loop>>

DeviceInit ==
  /\ udp = [deviceState |-> "SUSPENDED", previous |-> "POWERED",
            clock |-> TRUE, address |-> 0,
            events |-> {},                  \* WAKEUP, RXSUSP, ENDBUSRES
            ep0 |-> "DISABLED", epIn |-> "DISABLED", epOut |-> "DISABLED",
            imr |-> {},                     \* endpoints with an interrupt
            csr |-> {},                     \* flags of the default endpoint,
            stall |-> {},                   \* and of OUT
            request |-> "none", callback |-> "none", left |-> 0,
            txpktrdy |-> FALSE,
            bank |-> 0,                     \* the driver's idea of the bank,
            hwBank |-> 0, rx |-> <<>>,      \* and the bank and its packets
            recv |-> NoData,                \* usb_recv_buffer
            resumeSeen |-> FALSE, configurationSeen |-> FALSE, seen |-> 0,
            firstConnection |-> FALSE, wakeup |-> 0]
  /\ host = [bus |-> "idle", phase |-> "none", request |-> "none",
             address |-> 0, configured |-> FALSE, halted |-> FALSE,
             next |-> InStep(1), woken |-> FALSE,
             events |-> 0]
  /\ loop = [pc |-> "yielded", got |-> <<>>, length |-> 0, routed |-> 0,
             last |-> 0, routes |-> 0]

-----------------------------------------------------------------------------
(* Transfers of the default endpoint.                                      *)

\* USBD_Write with a number of packets; an empty one counts.
USBD_Write(d, packets, callback) ==
  IF d.ep0 # "IDLE" THEN d
  ELSE [d EXCEPT !.ep0 = "SENDING", !.left = packets - 1, !.txpktrdy = TRUE,
                 !.callback = callback, !.imr = @ \cup {"EP0"}]

USBD_SetAddress(d) == [d EXCEPT !.address = 1, !.deviceState = "ADDRESS"]

UDP_EndOfTransfer(d) ==
  LET idle == [d EXCEPT !.ep0 = "IDLE", !.callback = "none"]
  IN IF d.ep0 # "SENDING" THEN d
     ELSE IF d.callback = "SetAddress" THEN USBD_SetAddress(idle) ELSE idle

-----------------------------------------------------------------------------
(* Configuring, resetting and halting endpoints.                           *)

\* Mutant: the driver starts with the bank it used last.
KeepBank(d) ==
  [d EXCEPT !.imr = {}, !.txpktrdy = FALSE, !.hwBank = 0,
            !.rx = <<>>, !.ep0 = "DISABLED", !.epIn = "DISABLED",
            !.epOut = "DISABLED"]

\* All of them; the state is left before the transfer would be ended.
USBD_HAL_ResetEPs(d) ==
  [d EXCEPT !.imr = {}, !.txpktrdy = FALSE, !.bank = 0, !.hwBank = 0,
            !.rx = <<>>, !.ep0 = "DISABLED", !.epIn = "DISABLED",
            !.epOut = "DISABLED"]

ConfigureEP0(d) ==
  [UDP_EndOfTransfer(d) EXCEPT !.ep0 = "IDLE", !.imr = @ \cup {"EP0"}]

\* IN and OUT, with their FIFOs reset and the bank as it is.
ConfigureEndpoints(d) ==
  [d EXCEPT !.epIn = "IDLE", !.epOut = "IDLE", !.rx = <<>>, !.hwBank = 0]

ConfigurationChanged(d) == [d EXCEPT !.configurationSeen = TRUE]

\* USBD_SetConfiguration and SetConfiguration.
SetConfiguration(d, cfgnum) ==
  USBD_Write(
    ConfigurationChanged(
      IF cfgnum # 0
      THEN ConfigureEndpoints([d EXCEPT !.deviceState = "CONFIGURED"])
      ELSE USBD_HAL_ResetEPs([d EXCEPT !.deviceState = "ADDRESS"])), 1, "none")

\* USBD_HAL_Halt for the OUT endpoint.  The PC may halt the IN endpoint in the
\* same way, which ends what usb_send has on its way: that is left out.
Halt(d) ==
  IF d.epOut \in {"DISABLED", "HALTED"} THEN d
  ELSE [d EXCEPT !.epOut = "HALTED", !.stall = @ \cup {"FORCESTALL"},
                 !.imr = @ \cup {"OUT"}]

Unhalt(d) ==
  IF d.epOut # "HALTED" THEN d
  ELSE [d EXCEPT !.epOut = "IDLE", !.stall = @ \ {"FORCESTALL"}, !.rx = <<>>,
                 !.hwBank = 0]

USBD_HAL_Stall(d) ==
  IF d.ep0 # "IDLE" THEN d ELSE [d EXCEPT !.csr = @ \cup {"FORCESTALL"}]

-----------------------------------------------------------------------------
(* The endpoint interrupts.                                                *)

\* Two packets stand for any descriptor.  The empty packet that follows an answer
\* of full packets only (TerminateCtrlInWithNull) is left out: no descriptor of
\* com/usb/usb_descriptors.c is a multiple of 64 bytes long, so that it takes a PC
\* that asks for 64 or 128 bytes of the 146 of a Microsoft descriptor.
GetDescriptor(d) == USBD_Write(d, 2, "none")

\* USBDDriver_RequestHandler.
Answer(d, request) ==
  CASE request = "SETADDRESS" -> USBD_Write(d, 1, "SetAddress")
    [] request \in {"SETCONFIG", "RECONFIG"} -> SetConfiguration(d, 1)
    [] request = "UNCONFIG"   -> SetConfiguration(d, 0)
    [] request = "DESCRIPTOR" -> GetDescriptor(d)
    [] request = "HALT"       -> USBD_Write(Halt(d), 1, "none")
    [] request = "UNHALT"     -> USBD_Write(Unhalt(d), 1, "none")
    [] request = "UNKNOWN"    -> USBD_HAL_Stall(d)

Cleared(d, flag) == [d EXCEPT !.csr = @ \ {flag}]

\* Mutant: a transfer is finished with its first packet.
SendOnce(d) ==
  IF "TXCOMP" \notin d.csr THEN d ELSE Cleared(UDP_EndOfTransfer(d), "TXCOMP")

\* The transfer is finished with a packet that is not full.
TxComp0(d) ==
  IF "TXCOMP" \notin d.csr THEN d
  ELSE Cleared(IF d.ep0 # "SENDING" THEN d
               ELSE IF d.left = 0 THEN UDP_EndOfTransfer(d)
               ELSE [d EXCEPT !.left = @ - 1, !.txpktrdy = TRUE], "TXCOMP")

\* The PC's empty packet after data it has asked for.
RxData0(d) ==
  IF "RXDATA" \notin d.csr THEN d ELSE UDP_EndOfTransfer(Cleared(d, "RXDATA"))

StallSent0(d) ==
  IF "STALLSENT" \notin d.csr THEN d
  ELSE [d EXCEPT !.csr = @ \ {"STALLSENT", "FORCESTALL"}]

RxSetup0(d) ==
  IF "RXSETUP" \notin d.csr THEN d
  ELSE Answer([Cleared(UDP_EndOfTransfer(d), "RXSETUP") EXCEPT !.request = "none"],
              d.request)

\* With the wrong bank nothing, or the other packet, is removed.
UDP_ClearRxFlag(d) ==
  LET other == 1 - d.bank
  IN IF d.bank = d.hwBank
     THEN [d EXCEPT !.bank = other, !.hwBank = 1 - @, !.rx = Tail(@)]
     ELSE [d EXCEPT !.bank = other, !.rx = <<Head(@)>>]

\* The interrupt is disabled while usb_recv_buffer has a packet.
usb_custom_read_hook(d) ==
  LET packet == Head(d.rx)
      read == [UDP_ClearRxFlag(d) EXCEPT !.recv = packet]
  IN IF d.recv # NoData THEN [d EXCEPT !.imr = @ \ {"OUT"}]
     ELSE IF Full(packet) THEN read ELSE [read EXCEPT !.epOut = "IDLE"]

RxDataOut(d) ==
  IF d.rx = <<>> THEN d
  ELSE IF d.epOut = "RECEIVING" THEN usb_custom_read_hook(d)
  ELSE IF "FORCESTALL" \in d.stall THEN UDP_ClearRxFlag(d)
  ELSE [d EXCEPT !.imr = @ \ {"OUT"}]

StallSentOut(d) ==
  IF "STALLSENT" \notin d.stall THEN d
  ELSE [d EXCEPT !.stall = IF d.epOut = "HALTED" THEN @ \ {"STALLSENT"} ELSE {}]

UDP_EndpointHandler(d, status) ==
  LET first == IF "EP0" \in status
               THEN RxSetup0(StallSent0(RxData0(TxComp0(d)))) ELSE d
  IN IF "OUT" \in status THEN StallSentOut(RxDataOut(first)) ELSE first

-----------------------------------------------------------------------------
(* USBD_IrqHandler.                                                        *)

\* UDP_ISR and UDP_IMR.  A suspended device looks at the wake-up only, and the
\* wake-up is enabled as long as it is suspended.
Status(d) ==
  LET flagged == (IF d.csr \ {"FORCESTALL"} # {} THEN {"EP0"} ELSE {})
                 \cup IF d.rx # <<>> \/ "STALLSENT" \in d.stall THEN {"OUT"} ELSE {}
  IN IF d.deviceState = "SUSPENDED" THEN d.events \cap {"WAKEUP"}
     ELSE (d.events \ {"WAKEUP"}) \cup (flagged \cap d.imr)

\* Mutant: one interrupt too many.
CountThree(d) ==
  IF ~d.resumeSeen \/ ~d.configurationSeen THEN d
  ELSE IF d.seen < 3 THEN [d EXCEPT !.seen = @ + 1]
  ELSE [d EXCEPT !.resumeSeen = FALSE, !.configurationSeen = FALSE,
                 !.seen = 0, !.firstConnection = TRUE]

\* After the resume and the configuration two more interrupts are waited for.
CountMessages(d) ==
  IF ~d.resumeSeen \/ ~d.configurationSeen THEN d
  ELSE IF d.seen < 2 THEN [d EXCEPT !.seen = @ + 1]
  ELSE [d EXCEPT !.resumeSeen = FALSE, !.configurationSeen = FALSE,
                 !.seen = 0, !.firstConnection = TRUE]

\* USBD_ResumeHandler.
Resumed(d) ==
  [d EXCEPT !.events = {}, !.resumeSeen = TRUE, !.seen = 0, !.clock = TRUE,
            !.deviceState = d.previous]

\* Mutant: no wake-up is counted for.
NoWakeUp(d) ==
  [d EXCEPT !.events = @ \ {"RXSUSP"}, !.resumeSeen = FALSE,
            !.configurationSeen = FALSE, !.seen = 0, !.previous = d.deviceState,
            !.deviceState = "SUSPENDED", !.clock = FALSE]

\* USBD_SuspendHandler.
Suspended(d) ==
  [d EXCEPT !.events = @ \ {"RXSUSP"}, !.resumeSeen = FALSE,
            !.configurationSeen = FALSE, !.seen = 0, !.previous = d.deviceState,
            !.deviceState = "SUSPENDED", !.clock = FALSE, !.wakeup = 1]

\* USBD_ResetHandler.
EndOfBusReset(d) ==
  ConfigureEP0(USBD_HAL_ResetEPs(
    [d EXCEPT !.deviceState = "DEFAULT", !.clock = TRUE, !.events = {}]))

USBD_IrqHandler ==
  LET status == Status(udp)
      d == CountMessages(udp)
      awake == IF "WAKEUP" \in status THEN Resumed(d) ELSE d
  IN /\ status # {}
     /\ udp' = IF status = {"RXSUSP"} THEN Suspended(d)
               ELSE IF "ENDBUSRES" \in status THEN EndOfBusReset(awake)
               ELSE UDP_EndpointHandler(awake, status)
     /\ UNCHANGED <<host, loop>>

-----------------------------------------------------------------------------
(* The tasks.                                                              *)

\* Mutant: the interrupt is not enabled again.
WithoutInterrupt(d) == [d EXCEPT !.epOut = "RECEIVING"]

\* usb_set_read_endpoint_state_to_receiving; a register without a clock does
\* not take what is written to it.
SetReceiving(d) ==
  [d EXCEPT !.epOut = "RECEIVING",
            !.imr = IF d.clock THEN @ \cup {"OUT"} ELSE @]

\* usb_recv finds the buffer empty...
RecvEmpty ==
  /\ loop.pc \in {"call", "yielded"}
  /\ udp.recv = NoData
  /\ loop' = [loop EXCEPT !.pc = "empty"]
  /\ UNCHANGED <<udp, host>>

\* ... and com_message_loop yields when it got nothing.
RecvNothing ==
  /\ loop.pc = "empty"
  /\ udp' = SetReceiving(udp)
  /\ loop' = [loop EXCEPT !.pc = "yielded"]
  /\ UNCHANGED host

\* usb_recv copies the buffer...
RecvCopy ==
  /\ loop.pc \in {"call", "yielded"}
  /\ udp.recv # NoData
  /\ loop' = [loop EXCEPT !.pc = "copied", !.got = Append(@, udp.recv)]
  /\ UNCHANGED <<udp, host>>

\* ... enables the interrupt before the buffer is free...
RecvArm ==
  /\ loop.pc = "copied"
  /\ udp' = SetReceiving(udp)
  /\ loop' = [loop EXCEPT !.pc = "armed"]
  /\ UNCHANGED host

\* The length in the header: any number for what is not the start of a message.
HeaderLengths(packet) ==
  IF packet.part = 2 THEN {8, 80}
  ELSE {IF packet.msg \in Long THEN 80 ELSE 8}

\* ... and frees it; com_message_loop goes on until it has all of the message.
RecvDone ==
  /\ loop.pc = "armed"
  /\ udp' = [udp EXCEPT !.recv = NoData]
  /\ LET received == loop.length + Bytes(loop.got[Len(loop.got)])
     IN \E length \in HeaderLengths(loop.got[1]) :
          loop' = [loop EXCEPT !.pc = IF received < length THEN "call" ELSE "route",
                               !.length = received]
  /\ UNCHANGED host

\* com_message_loop routes the message.
Route ==
  LET head == loop.got[1]
      whole == loop.got = [part \in 1..Parts(head.msg) |-> [msg |-> head.msg, part |-> part]]
      msg == IF whole THEN head.msg ELSE NotAMessage
  IN /\ loop.pc = "route"
     /\ loop' = [loop EXCEPT !.pc = "yielded", !.got = <<>>, !.length = 0,
                             !.last = msg,
                             !.routed = IF msg > 0 THEN msg ELSE @,
                             !.routes = 1 - @]
     /\ UNCHANGED <<udp, host>>

\* Mutant: the request is taken for done though there was no room for it.
Forgotten(d) ==
  [d EXCEPT !.recv = IF @ = NoData THEN EnumerateConnected ELSE @,
            !.firstConnection = FALSE]

\* Mutant: usb_recv_buffer is not looked at before.
Overwritten(d) == [d EXCEPT !.recv = EnumerateConnected, !.firstConnection = FALSE]

\* usb_add_enumerate_connected_request, with interrupts disabled.
AddEnumerateConnected(d) ==
  IF d.recv # NoData THEN d
  ELSE [d EXCEPT !.recv = EnumerateConnected, !.firstConnection = FALSE]

\* usb_tick_task of the message tick task.
FirstConnection ==
  /\ loop.pc = "yielded"
  /\ udp.firstConnection
  /\ udp.epIn # "DISABLED"
  /\ udp' = AddEnumerateConnected(udp)
  /\ UNCHANGED <<host, loop>>

\* usb_tick_task of the calculation tick task, with USBD_RemoteWakeUp.
WakeUpCounter ==
  LET wakeup == (udp.wakeup + 1) % (WakeAt + 1)
      wakes == wakeup = WakeAt /\ udp.deviceState = "SUSPENDED"
  IN /\ loop.pc = "yielded"
     /\ udp.wakeup > 0
     /\ udp' = [udp EXCEPT !.wakeup = wakeup, !.clock = @ \/ wakes]
     /\ host' = [host EXCEPT !.woken = @ \/ wakes]
     /\ UNCHANGED loop

-----------------------------------------------------------------------------
(* The PC.  It leaves the Brick the time the bus gives it to see a reset or  *)
(* a resume before it goes on.                                              *)

Attentive == host.bus = "active" /\ udp.events = {} /\ udp.deviceState # "SUSPENDED"

Addressed == Attentive /\ udp.address = host.address

\* Every packet the PC has sent is in a message that is with the message loop as a
\* whole, and the Brick's own request is not in the buffer either.  Where this is
\* asked for, no bus reset discards packets that the endpoint has acknowledged.
BetweenMessages ==
  /\ host.next.part = 1 /\ udp.rx = <<>> /\ udp.recv = NoData /\ loop.got = <<>>

NoneToCome == ~udp.firstConnection /\ ~(udp.resumeSeen /\ udp.configurationSeen)

\* The bus is active: the PC is switched on, resumes, or was woken up.
HostActive ==
  /\ host.bus = "idle"
  /\ host' = [host EXCEPT !.bus = "active", !.woken = FALSE]
  /\ udp' = [udp EXCEPT !.events = @ \cup {"WAKEUP"}]
  /\ UNCHANGED loop

HostSuspends ==
  /\ Attentive /\ host.phase = "none"
  /\ udp.deviceState # "POWERED"
  /\ host.events < MaxEvents
  /\ Interrupted \/ BetweenMessages
  /\ host' = [host EXCEPT !.bus = "idle", !.events = @ + 1]
  /\ udp' = [udp EXCEPT !.events = {"RXSUSP"}]
  /\ UNCHANGED loop

\* The reset clears what the peripheral has.
HostResets ==
  /\ Attentive
  /\ host.events < MaxEvents
  /\ Interrupted \/ BetweenMessages
  /\ host' = [host EXCEPT !.phase = "none", !.request = "none", !.address = 0, !.configured = FALSE,
                          !.halted = FALSE, !.events = @ + 1,
                          !.next = IF @.part = 2 THEN InStep(@.msg + 1) ELSE @]
  /\ udp' = [udp EXCEPT !.events = {"ENDBUSRES"}, !.address = 0, !.rx = <<>>,
                        !.csr = {}, !.stall = {}, !.txpktrdy = FALSE, !.hwBank = 0,
                        !.request = "none"]
  /\ UNCHANGED loop

\* The PC makes these when it does not write to the OUT endpoint.
Disturbing == {"HALT", "UNHALT", "UNCONFIG", "RECONFIG"}

\* The next request: address and configuration first.
Sensible(request) ==
  CASE request = "SETADDRESS" -> host.address = 0
    [] request = "SETCONFIG" -> host.address = 1 /\ ~host.configured
    [] request \in Disturbing ->
         /\ host.configured /\ host.events < MaxEvents
         /\ Interrupted \/ BetweenMessages
    [] OTHER -> host.events < MaxEvents

HostSetup(request) ==
  /\ Addressed /\ host.phase = "none"
  /\ udp.deviceState # "POWERED"
  /\ udp.csr \cap {"RXDATA", "STALLSENT"} = {}
  /\ Sensible(request)
  /\ host' = [host EXCEPT !.phase = "data", !.request = request,
                          !.events = IF request \in Requests THEN @ + 1 ELSE @]
  /\ udp' = [udp EXCEPT !.csr = @ \cup {"RXSETUP"}, !.request = request]
  /\ UNCHANGED loop

\* What the PC knows when a request is done.
Done(h) ==
  [h EXCEPT !.phase = "none", !.request = "none",
            !.address = IF h.request = "SETADDRESS" THEN 1 ELSE @,
            !.configured = CASE h.request = "SETCONFIG" -> TRUE
                             [] h.request = "UNCONFIG" -> FALSE
                             [] OTHER -> @,
            !.halted = CASE h.request = "HALT" -> TRUE
                         [] h.request = "DESCRIPTOR" -> @
                         [] OTHER -> FALSE]

\* The PC takes a packet of the default endpoint, after the last one of data it
\* acknowledges them.
HostTakes0 ==
  /\ Addressed /\ host.phase = "data"
  /\ udp.txpktrdy
  /\ host' = IF host.request # "DESCRIPTOR" THEN Done(host)
             ELSE IF udp.left = 0 THEN [host EXCEPT !.phase = "status"] ELSE host
  /\ udp' = [udp EXCEPT !.txpktrdy = FALSE, !.csr = @ \cup {"TXCOMP"}]
  /\ UNCHANGED loop

HostStatus ==
  /\ Addressed /\ host.phase = "status"
  /\ host' = Done(host)
  /\ udp' = [udp EXCEPT !.csr = @ \cup {"RXDATA"}]
  /\ UNCHANGED loop

HostStalled0 ==
  /\ Addressed /\ host.phase = "data"
  /\ "FORCESTALL" \in udp.csr
  /\ host' = [host EXCEPT !.phase = "none", !.request = "none"]
  /\ udp' = [udp EXCEPT !.csr = @ \cup {"STALLSENT"}]
  /\ UNCHANGED loop

\* A packet of a message: one of two packets is followed by the other.
HostOut ==
  LET second == Full(host.next)
  IN /\ Addressed /\ host.configured /\ host.next.msg <= MaxSent
     /\ host.request \notin Disturbing
     /\ Len(udp.rx) < 2 /\ "FORCESTALL" \notin udp.stall
     /\ second => Interrupted \/ NoneToCome
     /\ host' = [host EXCEPT !.next = IF second THEN [@ EXCEPT !.part = 2]
                                      ELSE InStep(@.msg + 1)]
     /\ udp' = [udp EXCEPT !.rx = Append(@, host.next)]
     /\ UNCHANGED loop

\* The PC writes to a halted endpoint.
HostOutStalled ==
  /\ Addressed /\ host.configured
  /\ "FORCESTALL" \in udp.stall /\ "STALLSENT" \notin udp.stall
  /\ udp' = [udp EXCEPT !.stall = @ \cup {"STALLSENT"}]
  /\ UNCHANGED <<host, loop>>

-----------------------------------------------------------------------------
LoopStep == RecvEmpty \/ RecvNothing \/ RecvCopy \/ RecvArm \/ RecvDone \/ Route

Configures == HostSetup("SETADDRESS") \/ HostSetup("SETCONFIG")

HostAnswers == HostTakes0 \/ HostStatus \/ HostStalled0

DeviceNext ==
  \/ USBD_IrqHandler
  \/ RecvEmpty \/ RecvNothing \/ RecvCopy \/ RecvArm \/ RecvDone \/ Route
  \/ FirstConnection \/ WakeUpCounter
  \/ HostActive \/ HostSuspends \/ HostResets
  \/ Configures \/ \E request \in Requests : HostSetup(request)
  \/ HostAnswers \/ HostOut \/ HostOutStalled

\* The interrupt and the message loop go on, each tick task gets its turn at
\* one of the message loop's yields; the PC finishes its control transfers,
\* configures a Brick it has reset, and resumes when it is woken up.
DeviceFairness ==
  /\ WF_deviceVars(USBD_IrqHandler)
  /\ WF_deviceVars(LoopStep)
  /\ SF_deviceVars(FirstConnection)
  /\ SF_deviceVars(WakeUpCounter)
  /\ WF_deviceVars(host.woken /\ HostActive)
  /\ WF_deviceVars(HostAnswers)
  /\ SF_deviceVars(Configures)

DeviceSpec == DeviceInit /\ [][DeviceNext]_deviceVars
FairDeviceSpec == DeviceSpec /\ DeviceFairness

-----------------------------------------------------------------------------
(* Properties.                                                             *)

\* The driver, the peripheral, the PC and the message loop have states of the
\* sets the code and the bus give them.
DeviceTypeOK ==
  /\ udp.deviceState \in {"SUSPENDED", "POWERED", "DEFAULT", "ADDRESS", "CONFIGURED"}
  /\ udp.previous \in {"POWERED", "DEFAULT", "ADDRESS", "CONFIGURED"}
  /\ udp.ep0 \in {"DISABLED", "IDLE", "SENDING"}
  /\ udp.epIn \in {"DISABLED", "IDLE"}
  /\ udp.epOut \in {"DISABLED", "IDLE", "RECEIVING", "HALTED"}
  /\ udp.imr \subseteq {"EP0", "OUT"}
  /\ Len(udp.rx) <= 2 /\ udp.seen \in 0..2 /\ udp.wakeup \in 0..WakeAt
  /\ host.next.msg \in 1..MaxSent + 1 /\ Len(loop.got) <= 2

\* The driver clears the flag of the bank that has the oldest packet
\* (UDP_ClearRxFlag): with the other bank packets would be read twice or lost.
BankInStep == udp.rx # <<>> => udp.bank = udp.hwBank

\* com_message_loop routes whole messages, each of the PC's once and in the
\* order they were sent, with the Brick's own request between two of them.
RoutedInOrder ==
  [][loop'.routes # loop.routes
       => \/ loop'.last = loop.routed + 1
          \/ loop'.last = EnumerateConnected.msg]_deviceVars

\* Every request the PC makes is answered, or the bus is reset.
RequestAnswered == host.phase # "none" ~> host.phase = "none"

\* A message the endpoint has acknowledged to the PC is routed, whatever order
\* the interrupt, usb_recv and the Brick's own request come in.
AcknowledgedIsRouted ==
  \A n \in 1..MaxSent : host.next.msg > n ~> loop.routed >= n

\* Once resumed, configured and talked to, the Brick asks itself for an
\* enumeration, whatever else the PC sends in the meantime.
FirstConnectionAnnounced ==
  udp.firstConnection ~> loop.last = EnumerateConnected.msg

\* A suspended Brick wakes the PC up.
WakesThePC == udp.deviceState = "SUSPENDED" /\ host.events > 0
                ~> udp.deviceState # "SUSPENDED"

\* "In HALT state, the endpoint should keep stalling any packet"
\* (USBD_HAL.c:1639).
HaltKeepsStalling ==
  [][host.halted /\ udp'.rx # udp.rx => Len(udp'.rx) <= Len(udp.rx)]_deviceVars
=============================================================================
