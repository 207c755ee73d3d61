------------------------------- MODULE UsbSend -------------------------------
(***************************************************************************)
(* The way of a message from a Brick to the PC: usb_send, usb_handle_send  *)
(* and usb_send_callback of com/usb/usb.c on the IN endpoint of the device *)
(* driver (drivers/usb/USBD_HAL.c).                                        *)
(*                                                                         *)
(* Tasks are cooperative and usb_handle_send does not yield, so one pc is  *)
(* enough for all of them; the USB interrupt comes between any two of its  *)
(* steps, except where interrupts are disabled.  The n-th message accepted *)
(* is the number n; one longer than an endpoint (64 bytes) is two packets. *)
(***************************************************************************)
EXTENDS Integers

CONSTANTS
  MaxMessages,    \* bound: messages accepted by usb_send
  Large,          \* those of two packets
  MaxResets,      \* bound: bus resets
  MaxSuspends,    \* bound: suspends
  ResumeResets,   \* the PC resets the bus after a suspend in which the Brick
                  \* wrote to the endpoint
  MaxReconfigs,   \* bound: configurations set without a bus reset before
  MidMessage      \* the PC does so with a part of a message received, too

ASSUME UsbAssumption ==
  /\ MaxMessages \in Nat /\ Large \subseteq 1..MaxMessages
  /\ MaxResets \in Nat /\ MaxSuspends \in Nat /\ MaxReconfigs \in Nat
  /\ ResumeResets \in BOOLEAN /\ MidMessage \in BOOLEAN

NoMsg == 0       \* usb_send_buffer_length = 0
Garbled == -1    \* parts of messages the PC takes for one

Messages == 1..MaxMessages
Packets(msg) == IF msg \in Large THEN 2 ELSE 1
Packet == [msg : 0..MaxMessages, part : {1, 2}]
NoPacket == [msg |-> NoMsg, part |-> 0]

TickTypes == {"MESSAGE", "CALCULATION"}

VARIABLES
  usb_send_buffer,
  usb_send_state,
  pc,                       \* where the running task is in usb_handle_send
  blocked,                  \* the message tick task is in send_blocking
  state,                    \* endpoints[IN_EP].state
  transfer,                 \* its transfer: message, packets acknowledged
                            \* (transferred) and not (buffered)
  enabled, clock,           \* the endpoint and the peripheral are enabled
  fifo,                     \* the packet offered to the PC (TXPKTRDY)
  txcomp,                   \* the PC has taken it (TXCOMP)
  sent,                     \* messages accepted
  hostPart,                 \* first packet of the message the PC is receiving
  hostGot, hostCount,       \* its last complete message, how many there were
  reset,                    \* the bus was reset or the Brick configured since
  resets, suspends, reconfigs

softVars == <<usb_send_buffer, usb_send_state, state, transfer>>
hardVars == <<enabled, clock, fifo, txcomp>>
hostVars == <<hostPart, hostGot, hostCount, reset, resets, suspends, reconfigs>>
taskVars == <<pc, blocked, sent>>
vars == <<softVars, hardVars, hostVars, taskVars>>

Init ==
  /\ usb_send_buffer = NoMsg
  /\ usb_send_state = "IDLE"
  /\ pc = "out"
  /\ blocked = FALSE
  /\ state = "DISABLED"
  /\ transfer = [msg |-> NoMsg, transferred |-> 0, buffered |-> 0]
  /\ enabled = FALSE
  /\ clock = TRUE
  /\ fifo = NoPacket
  /\ txcomp = FALSE
  /\ sent = 0
  /\ hostPart = NoPacket
  /\ hostGot = 0 /\ hostCount = 0
  /\ reset = FALSE
  /\ resets = 0 /\ suspends = 0 /\ reconfigs = 0

-----------------------------------------------------------------------------
(* The callers of usb_handle_send.                                         *)

\* usb_send accepts a message of a message loop, or the one the message tick
\* task is blocked on, and calls usb_handle_send.
Send(byTick) ==
  /\ pc = "out"
  /\ usb_send_buffer = NoMsg
  /\ sent < MaxMessages
  /\ byTick => blocked
  /\ usb_send_buffer' = sent + 1
  /\ sent' = sent + 1
  /\ IF byTick THEN blocked' = FALSE ELSE UNCHANGED blocked
  /\ pc' = "switch"
  /\ UNCHANGED <<usb_send_state, state, transfer, hardVars, hostVars>>

\* usb_send has no room for a message of the message tick task.
Block ==
  /\ pc = "out"
  /\ ~blocked
  /\ usb_send_buffer # NoMsg
  /\ sent < MaxMessages
  /\ blocked' = TRUE
  /\ UNCHANGED <<softVars, hardVars, hostVars, pc, sent>>

\* Mutant: only the message tick task calls usb_handle_send.
MessageOnly(tick_type) == tick_type = "MESSAGE"

\* usb_tick_task calls usb_handle_send whatever its type.
Handles(tick_type) == TRUE

\* A message tick task in send_blocking does not get to usb_tick_task.
Tick(tick_type) ==
  /\ pc = "out"
  /\ tick_type = "MESSAGE" => ~blocked
  /\ Handles(tick_type)
  /\ pc' = IF usb_send_buffer = NoMsg THEN "out" ELSE "switch"
  /\ UNCHANGED <<softVars, hardVars, hostVars, blocked, sent>>

-----------------------------------------------------------------------------
(* usb_handle_send after its first look at the buffer.                     *)

\* The endpoint as UDP_Write leaves it: the first packet is in the FIFO, the
\* interrupt of the endpoint enabled.  Without a clock the registers keep what
\* they had.
Offer(msg) ==
  fifo' = IF clock /\ enabled THEN [msg |-> msg, part |-> 1] ELSE fifo

\* Mutant: the packets acknowledged of the last transfer are still counted.
KeepsCount(msg) ==
  transfer' = [transfer EXCEPT !.msg = msg, !.buffered = Packets(msg)]

NewTransfer(msg) ==
  transfer' = [msg |-> msg, transferred |-> 0, buffered |-> Packets(msg)]

Switch ==
  /\ pc = "switch"
  /\ pc' = IF usb_send_state = "IDLE" THEN "idle" ELSE "wait"
  /\ UNCHANGED <<softVars, hardVars, hostVars, blocked, sent>>

\* Mutant: no second look at the buffer.
NoSecondLook == FALSE

\* The interrupt may have emptied the buffer since the first look.
EmptiedMeanwhile == usb_send_buffer = NoMsg

IdleCase ==
  /\ pc = "idle"
  /\ IF EmptiedMeanwhile
     THEN pc' = "out" /\ UNCHANGED usb_send_state
     ELSE pc' = "write" /\ usb_send_state' = "WAIT"
  /\ UNCHANGED <<usb_send_buffer, state, transfer, hardVars, hostVars, blocked,
                 sent>>

\* USBD_Write looks at the endpoint's state...
Write ==
  /\ pc = "write"
  /\ pc' = IF state = "IDLE" THEN "arm" ELSE "locked"
  /\ UNCHANGED <<softVars, hardVars, hostVars, blocked, sent>>

Locked ==
  /\ pc = "locked"
  /\ usb_send_state' = "IDLE"
  /\ pc' = "out"
  /\ UNCHANGED <<usb_send_buffer, state, transfer, hardVars, hostVars, blocked,
                 sent>>

\* ... takes the endpoint...
Arm ==
  /\ pc = "arm"
  /\ NewTransfer(usb_send_buffer)
  /\ state' = "SENDING"
  /\ pc' = "fill"
  /\ UNCHANGED <<usb_send_buffer, usb_send_state, hardVars, hostVars, blocked,
                 sent>>

\* ... and fills its FIFO.
Fill ==
  /\ pc = "fill"
  /\ Offer(transfer.msg)
  /\ pc' = "out"
  /\ UNCHANGED <<softVars, enabled, clock, txcomp, hostVars, blocked, sent>>

\* Mutant: no look at the state once interrupts are disabled.
AlwaysWaiting == TRUE

\* The callback may have come between the switch and disabling interrupts.
StillWaiting == usb_send_state = "WAIT"

\* Nobody is working on the message: it was lost.
WriteAgain == StillWaiting /\ state = "IDLE"

\* Interrupts are disabled all the time.
WaitCase ==
  /\ pc = "wait"
  /\ IF WriteAgain
     THEN /\ NewTransfer(usb_send_buffer)
          /\ state' = "SENDING"
          /\ Offer(usb_send_buffer)
     ELSE UNCHANGED <<transfer, state, fifo>>
  /\ pc' = "out"
  /\ UNCHANGED <<usb_send_buffer, usb_send_state, enabled, clock, txcomp,
                 hostVars, blocked, sent>>

-----------------------------------------------------------------------------
(* The interrupt.                                                          *)

\* Mutant: the callback empties the buffer whatever was transferred.
AlwaysFreed(transferred) == TRUE

Freed(transferred) == transferred # 0

\* UDP_EndOfTransfer of a SENDING endpoint, and usb_send_callback.  An empty
\* message transfers no byte.
EndOfTransfer(packets) ==
  LET transferred == IF transfer.msg = NoMsg THEN 0 ELSE packets
  IN /\ usb_send_state' = "IDLE"
     /\ usb_send_buffer' = IF Freed(transferred) THEN NoMsg ELSE usb_send_buffer
     /\ state' = "IDLE"

\* UDP_EndpointHandler: the PC has taken a packet.  The other bank has been
\* filled already.
TxComp ==
  /\ txcomp /\ clock
  /\ txcomp' = FALSE
  /\ \/ /\ state = "SENDING" /\ transfer.buffered <= 1
        /\ EndOfTransfer(transfer.transferred + transfer.buffered)
        /\ UNCHANGED <<transfer, fifo>>
     \/ /\ state = "SENDING" /\ transfer.buffered > 1
        /\ transfer' = [transfer EXCEPT !.transferred = @ + 1,
                                        !.buffered = @ - 1]
        /\ fifo' = [msg |-> transfer.msg, part |-> transfer.transferred + 2]
        /\ UNCHANGED <<usb_send_buffer, usb_send_state, state>>
     \/ /\ state # "SENDING"
        /\ UNCHANGED <<softVars, fifo>>
  /\ UNCHANGED <<enabled, clock, hostVars, taskVars>>

\* USBD_ResetHandler, and a new start of the PC: the endpoint is disabled
\* before its transfer would be ended, so there is no callback.
BusReset ==
  /\ \/ clock /\ resets < MaxResets /\ resets' = resets + 1
     \/ ~clock /\ UNCHANGED resets
  /\ state' = "DISABLED"
  /\ enabled' = FALSE
  /\ clock' = TRUE
  /\ fifo' = NoPacket
  /\ txcomp' = FALSE
  /\ hostPart' = NoPacket
  /\ reset' = TRUE
  /\ UNCHANGED <<usb_send_buffer, usb_send_state, transfer, hostGot, hostCount,
                 suspends, reconfigs, taskVars>>

\* USBD_HAL_ConfigureEP for the IN endpoint.  The few microseconds of UDP_Write
\* are too short for it.
Configure ==
  /\ clock
  /\ pc = "out"
  /\ \/ ~enabled /\ UNCHANGED reconfigs
     \/ /\ enabled /\ reconfigs < MaxReconfigs
        /\ state = "SENDING" /\ transfer.transferred > 0 => MidMessage
        /\ reconfigs' = reconfigs + 1
  /\ IF state = "SENDING"
     THEN EndOfTransfer(transfer.transferred)
     ELSE state' = "IDLE" /\ UNCHANGED <<usb_send_buffer, usb_send_state>>
  /\ enabled' = TRUE
  /\ fifo' = NoPacket
  /\ txcomp' = FALSE
  /\ hostPart' = NoPacket
  /\ reset' = TRUE
  /\ UNCHANGED <<transfer, clock, hostGot, hostCount, resets, suspends,
                 taskVars>>

\* USBD_SuspendHandler switches the clocks of the peripheral off.
Suspend ==
  /\ clock
  /\ suspends < MaxSuspends
  /\ suspends' = suspends + 1
  /\ clock' = FALSE
  /\ UNCHANGED <<softVars, enabled, fifo, txcomp, hostPart, hostGot, hostCount,
                 reset, resets, reconfigs, taskVars>>

\* The endpoint waits for a packet it has not offered.
WriteLost ==
  state = "SENDING" /\ pc # "fill" /\ fifo = NoPacket /\ ~txcomp

\* USBD_ResumeHandler switches them on again.
Resume ==
  /\ ~clock
  /\ ResumeResets => ~WriteLost
  /\ clock' = TRUE
  /\ UNCHANGED <<softVars, enabled, fifo, txcomp, hostVars, taskVars>>

\* The PC takes a packet, and puts the packets of a message together.
HostTake ==
  LET first == fifo.part = 1 /\ hostPart = NoPacket
      second == fifo.part = 2 /\ hostPart = [msg |-> fifo.msg, part |-> 1]
      complete == fifo.part = Packets(fifo.msg)
  IN /\ clock /\ enabled
     /\ fifo # NoPacket
     /\ fifo' = NoPacket
     /\ txcomp' = TRUE
     /\ IF ~complete /\ first
        THEN hostPart' = fifo /\ UNCHANGED <<hostGot, hostCount, reset>>
        ELSE /\ hostGot' = IF first \/ second THEN fifo.msg ELSE Garbled
             /\ hostCount' = hostCount + 1
             /\ hostPart' = NoPacket
             /\ reset' = FALSE
     /\ UNCHANGED <<softVars, enabled, clock, resets, suspends, reconfigs,
                    taskVars>>

-----------------------------------------------------------------------------
HandleSend == Switch \/ IdleCase \/ Write \/ Locked \/ Arm \/ Fill \/ WaitCase

Next ==
  \/ \E byTick \in BOOLEAN : Send(byTick)
  \/ Block
  \/ \E tick_type \in TickTypes : Tick(tick_type)
  \/ HandleSend
  \/ TxComp
  \/ BusReset
  \/ Configure
  \/ Suspend
  \/ Resume
  \/ HostTake

Spec == Init /\ [][Next]_vars

\* The interrupt comes and usb_handle_send runs to its end; each tick task
\* gets its turn; the PC configures the Brick after a bus reset, ends a suspend
\* and polls the endpoint.
Fairness ==
  /\ WF_vars(HandleSend)
  /\ WF_vars(TxComp)
  /\ \A tick_type \in TickTypes : SF_vars(Tick(tick_type))
  /\ SF_vars(~enabled /\ Configure)
  /\ WF_vars(Resume \/ (~clock /\ BusReset))
  /\ SF_vars(HostTake)

FairSpec == Spec /\ Fairness

-----------------------------------------------------------------------------
(* Properties.                                                             *)

DriverType ==
  /\ usb_send_buffer \in 0..MaxMessages
  /\ usb_send_state \in {"IDLE", "WAIT"}
  /\ pc \in {"out", "switch", "idle", "write", "arm", "fill", "locked", "wait"}
  /\ sent \in 0..MaxMessages

EndpointType ==
  /\ state \in {"DISABLED", "IDLE", "SENDING"}
  /\ transfer \in [msg : 0..MaxMessages, transferred : 0..1, buffered : 0..2]
  /\ fifo \in Packet \cup {NoPacket}

HostType ==
  /\ hostPart \in Packet \cup {NoPacket}
  /\ hostGot \in 0..MaxMessages \cup {Garbled}
  /\ hostCount \in Nat

FlagsType ==
  /\ blocked \in BOOLEAN
  /\ enabled \in BOOLEAN /\ clock \in BOOLEAN /\ txcomp \in BOOLEAN
  /\ reset \in BOOLEAN

BoundsType ==
  /\ resets \in 0..MaxResets
  /\ suspends \in 0..MaxSuspends
  /\ reconfigs \in 0..MaxReconfigs

\* States of the driver, the endpoint and the PC.
TypeOK == DriverType /\ EndpointType /\ HostType /\ FlagsType /\ BoundsType

\* "The buffer must be kept allocated until the transfer is finished"
\* (USBD_HAL.c:904-908): while the endpoint sends, or a packet waits for the PC,
\* the send buffer holds the message the transfer was started with.
BufferKept ==
  state = "SENDING" \/ fifo # NoPacket => usb_send_buffer = transfer.msg

\* The send buffer is freed for the next message only when the PC has all of
\* the message in it ("Otherwise the data may be lost", usb.c:157-159).
FreedWhenSent ==
  [][usb_send_buffer # NoMsg /\ usb_send_buffer' # usb_send_buffer
       => hostGot = usb_send_buffer]_vars

\* Every message the PC receives is a whole one, and the one accepted after the
\* message it received before; the same one again only after a bus reset or a
\* new configuration.
ReceivedInOrder ==
  [][hostCount' # hostCount
       => \/ hostGot' = hostGot + 1
          \/ hostGot' = hostGot /\ hostGot # NoMsg /\ reset]_vars

\* A message that usb_send accepted is sent, even if the transfer got lost and
\* the message tick task is stuck in send_blocking (usb.c:233-239).
AcceptedIsSent ==
  \A n \in Messages : sent >= n ~> hostGot >= n
=============================================================================
