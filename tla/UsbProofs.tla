------------------------------ MODULE UsbProofs ------------------------------
(***************************************************************************)
(* Proofs about the USB connection.  UsbSend: what the driver, its         *)
(* endpoint and the PC know of the message in the send buffer, whatever    *)
(* the interrupt interrupts.  UsbDevice: the bank of the OUT endpoint, and *)
(* the way of the packets from the PC to the message loop.                 *)
(***************************************************************************)
EXTENDS MCUsb, SequenceTheorems, TLAPS

-----------------------------------------------------------------------------
(* UsbSend: the inductive invariant.                                       *)

\* The driver waits for a callback only with a message in its buffer, and the
\* endpoint sends that message.
Waiting ==
  /\ usb_send_state = "WAIT" => usb_send_buffer # NoMsg
  /\ state = "SENDING" => /\ usb_send_state = "WAIT"
                          /\ transfer.msg = usb_send_buffer

\* While usb_handle_send is on its way to the endpoint, nothing is sent.
OnTheWay ==
  /\ pc = "idle" => usb_send_state = "IDLE"
  /\ pc \in {"write", "arm", "locked"} =>
       usb_send_state = "WAIT" /\ state # "SENDING"
  /\ pc = "fill" => /\ ~txcomp /\ fifo = NoPacket
                    /\ enabled => state = "SENDING"
                    /\ state = "SENDING" => transfer.transferred = 0

\* What the endpoint counts: packets of its message acknowledged and not.
Counted ==
  state = "SENDING" =>
    /\ transfer.buffered > 0
    /\ transfer.transferred + transfer.buffered = Packets(transfer.msg)

\* What the PC is offered or has taken belongs to the current transfer.
Offered ==
  /\ fifo # NoPacket =>
       /\ state = "SENDING" /\ ~txcomp
       /\ fifo = [msg |-> transfer.msg, part |-> transfer.transferred + 1]
  /\ txcomp => state = "SENDING"
  /\ ~enabled =>
       /\ fifo = NoPacket /\ ~txcomp
       /\ state = "SENDING" => transfer.transferred = 0

EndpointInv == TypeOK /\ Waiting /\ OnTheWay /\ Counted /\ Offered

\* The PC knows the message whose last packet it has taken.
Known == txcomp /\ transfer.buffered <= 1 => hostGot = transfer.msg

\* The PC has taken the first of two packets, and not the second.
FirstTaken ==
  /\ state = "SENDING"
  /\ IF txcomp THEN transfer.buffered = 2 ELSE transfer.transferred = 1

\* What the PC has of a message is what it has taken of the transfer.
PartOfTransfer ==
  /\ FirstTaken => hostPart = [msg |-> transfer.msg, part |-> 1]
  /\ ~FirstTaken => hostPart = NoPacket

\* The message in the buffer is the last one accepted, and the PC has received
\* all before it.
Accepted ==
  /\ usb_send_buffer = NoMsg => hostGot = sent
  /\ usb_send_buffer # NoMsg =>
       usb_send_buffer = sent /\ hostGot \in {sent - 1, sent}

\* The PC has received the message in the buffer only if the interrupt that
\* tells so is still to come, or was lost in a reset.
Twice ==
  usb_send_buffer # NoMsg /\ hostGot = usb_send_buffer =>
    reset \/ (txcomp /\ transfer.buffered <= 1)

HostInv == EndpointInv /\ Known /\ PartOfTransfer /\ Accepted /\ Twice

-----------------------------------------------------------------------------
\* A message has one packet or two.
LEMMA PacketsType == \A msg : Packets(msg) \in {1, 2}
BY DEF Packets

\* In the first state nothing is sent.
LEMMA EndpointInit == Init => EndpointInv
<1> USE UsbAssumption
<1> SUFFICES ASSUME Init PROVE EndpointInv
  OBVIOUS
<1>1. DriverType
  BY DEF Init, DriverType, NoMsg
<1>2. EndpointType
  BY DEF Init, EndpointType, NoMsg
<1>3. HostType /\ BoundsType
  BY DEF Init, HostType, BoundsType
<1>4. FlagsType
  BY DEF Init, FlagsType
<1>5. Waiting /\ OnTheWay /\ Counted /\ Offered
  BY DEF Init, Waiting, OnTheWay, Counted, Offered
<1>6. QED
  BY <1>1, <1>2, <1>3, <1>4, <1>5 DEF EndpointInv, TypeOK

\* Every step of the driver, the interrupt and the PC keeps the endpoint's
\* invariant.
LEMMA EndpointStep == EndpointInv /\ [Next]_vars => EndpointInv'
<1> SUFFICES ASSUME EndpointInv, [Next]_vars PROVE EndpointInv'
  OBVIOUS
<1> USE UsbAssumption DEF EndpointInv, TypeOK
<1>1. ASSUME NEW byTick \in BOOLEAN, Send(byTick) PROVE EndpointInv'
  <2>1. DriverType'
    BY <1>1 DEF Send, DriverType
  <2>2. EndpointType'
    BY <1>1 DEF Send, hardVars, EndpointType
  <2>3. HostType' /\ BoundsType'
    BY <1>1 DEF Send, hostVars, HostType, BoundsType
  <2>4. FlagsType'
    BY <1>1 DEF Send, hardVars, hostVars, FlagsType
  <2>5. Waiting' /\ OnTheWay'
    BY <1>1 DEF Send, Waiting, OnTheWay
  <2>6. Counted' /\ Offered'
    BY <1>1 DEF Send, hardVars, Counted, Offered
  <2>7. QED
    BY <2>1, <2>2, <2>3, <2>4, <2>5, <2>6
<1>2. CASE Block
  BY <1>2 DEF Block, softVars, hardVars, hostVars, DriverType, EndpointType,
     HostType, FlagsType, BoundsType, Waiting, OnTheWay, Counted, Offered
<1>3. ASSUME NEW tick_type \in TickTypes, Tick(tick_type) PROVE EndpointInv'
  BY <1>3 DEF Tick, softVars, hardVars, hostVars, DriverType, EndpointType,
     HostType, FlagsType, BoundsType, Waiting, OnTheWay, Counted, Offered
<1>4. CASE Switch
  BY <1>4 DEF Switch, softVars, hardVars, hostVars, DriverType, EndpointType,
     HostType, FlagsType, BoundsType, Waiting, OnTheWay, Counted, Offered
<1>5. CASE IdleCase
  BY <1>5 DEF IdleCase, EmptiedMeanwhile, hardVars, hostVars, DriverType,
     EndpointType, HostType, FlagsType, BoundsType, Waiting, OnTheWay, Counted,
     Offered
<1>6. CASE Write
  BY <1>6 DEF Write, softVars, hardVars, hostVars, DriverType, EndpointType,
     HostType, FlagsType, BoundsType, Waiting, OnTheWay, Counted, Offered
<1>7. CASE Locked
  BY <1>7 DEF Locked, hardVars, hostVars, DriverType, EndpointType, HostType,
     FlagsType, BoundsType, Waiting, OnTheWay, Counted, Offered
<1>8. CASE Arm
  BY <1>8, PacketsType DEF Arm, NewTransfer, hardVars, hostVars, DriverType,
     EndpointType, HostType, FlagsType, BoundsType, Waiting, OnTheWay, Counted,
     Offered
<1>9. CASE Fill
  <2>1. DriverType'
    BY <1>9 DEF Fill, softVars, DriverType
  <2>2. EndpointType'
    BY <1>9 DEF Fill, Offer, softVars, EndpointType, Packet
  <2>3. HostType' /\ BoundsType'
    BY <1>9 DEF Fill, hostVars, HostType, BoundsType
  <2>4. FlagsType'
    BY <1>9 DEF Fill, hostVars, FlagsType
  <2>5. Waiting' /\ OnTheWay'
    BY <1>9 DEF Fill, softVars, Waiting, OnTheWay
  <2>6. Counted' /\ Offered'
    BY <1>9 DEF Fill, Offer, softVars, OnTheWay, Counted, Offered
  <2>7. QED
    BY <2>1, <2>2, <2>3, <2>4, <2>5, <2>6
<1>10. CASE WaitCase
  <2>1. DriverType'
    BY <1>10 DEF WaitCase, DriverType
  <2>2. EndpointType'
    BY <1>10, PacketsType DEF WaitCase, NewTransfer, Offer, DriverType,
       EndpointType, Packet
  <2>3. HostType' /\ BoundsType'
    BY <1>10 DEF WaitCase, hostVars, HostType, BoundsType
  <2>4. FlagsType'
    BY <1>10 DEF WaitCase, hostVars, FlagsType
  <2>5. Waiting' /\ OnTheWay'
    BY <1>10 DEF WaitCase, WriteAgain, StillWaiting, NewTransfer, Waiting,
       OnTheWay
  <2>6. Counted' /\ Offered'
    BY <1>10, PacketsType DEF WaitCase, WriteAgain, NewTransfer, Offer,
       Counted, Offered
  <2>7. QED
    BY <2>1, <2>2, <2>3, <2>4, <2>5, <2>6
<1>11. CASE TxComp
  <2> USE <1>11 DEF TxComp
  <2>1. FlagsType'
    BY DEF hostVars, taskVars, FlagsType
  <2>2. /\ state = "SENDING" /\ usb_send_state = "WAIT"
        /\ pc \notin {"idle", "write", "arm", "locked", "fill"}
        /\ fifo = NoPacket /\ enabled
    BY DEF Waiting, OnTheWay, Offered
  <2>3. UNCHANGED <<pc, sent, enabled>> /\ ~txcomp'
    BY DEF taskVars
  <2>4. HostType' /\ BoundsType'
    BY DEF hostVars, HostType, BoundsType
  <2>5. CASE transfer.buffered <= 1
    <3>1. /\ state' = "IDLE" /\ usb_send_state' = "IDLE"
          /\ usb_send_buffer' \in {NoMsg, usb_send_buffer}
          /\ UNCHANGED <<transfer, fifo>>
      BY <2>2, <2>5 DEF EndOfTransfer, EndpointType
    <3>2. DriverType' /\ EndpointType'
      BY <2>3, <3>1 DEF DriverType, EndpointType, NoMsg
    <3>3. Waiting' /\ OnTheWay' /\ Counted' /\ Offered'
      BY <2>2, <2>3, <3>1 DEF Waiting, OnTheWay, Counted, Offered
    <3>4. QED
      BY <2>1, <2>4, <3>2, <3>3
  <2>6. CASE transfer.buffered > 1
    <3>1. transfer.transferred = 0 /\ transfer.buffered = 2
          /\ Packets(transfer.msg) = 2
      BY <2>2, <2>6, PacketsType DEF EndpointType, Counted
    <3>2. /\ transfer' = [transfer EXCEPT !.transferred = 1, !.buffered = 1]
          /\ fifo' = [msg |-> transfer.msg, part |-> 2]
          /\ UNCHANGED <<usb_send_buffer, usb_send_state, state>>
      BY <2>2, <2>6, <3>1
    <3>3. /\ transfer' = [msg |-> transfer.msg, transferred |-> 1,
                          buffered |-> 1]
          /\ fifo' = [msg |-> transfer.msg, part |-> 2]
          /\ UNCHANGED <<usb_send_buffer, usb_send_state, state>>
      BY <3>1, <3>2 DEF EndpointType
    <3>4. DriverType' /\ EndpointType'
      BY <2>3, <3>3 DEF DriverType, EndpointType, Packet
    <3>5. Waiting' /\ OnTheWay' /\ Counted' /\ Offered'
      BY <2>2, <2>3, <3>1, <3>3 DEF Waiting, OnTheWay, Counted, Offered
    <3>6. QED
      BY <2>1, <2>4, <3>4, <3>5
  <2>7. QED
    BY <2>5, <2>6 DEF EndpointType
<1>12. CASE BusReset
  <2>1. DriverType'
    BY <1>12 DEF BusReset, taskVars, DriverType
  <2>2. EndpointType'
    BY <1>12 DEF BusReset, EndpointType
  <2>3. HostType' /\ BoundsType'
    BY <1>12 DEF BusReset, HostType, BoundsType
  <2>4. FlagsType'
    BY <1>12 DEF BusReset, taskVars, FlagsType
  <2>5. Waiting' /\ OnTheWay'
    BY <1>12 DEF BusReset, taskVars, Waiting, OnTheWay
  <2>6. Counted' /\ Offered'
    BY <1>12 DEF BusReset, Counted, Offered
  <2>7. QED
    BY <2>1, <2>2, <2>3, <2>4, <2>5, <2>6
<1>13. CASE Configure
  <2>1. DriverType'
    BY <1>13 DEF Configure, EndOfTransfer, taskVars, NoMsg, DriverType
  <2>2. EndpointType'
    BY <1>13 DEF Configure, EndOfTransfer, EndpointType
  <2>3. HostType' /\ BoundsType'
    BY <1>13 DEF Configure, HostType, BoundsType
  <2>4. FlagsType'
    BY <1>13 DEF Configure, taskVars, FlagsType
  <2>5. Waiting' /\ OnTheWay'
    BY <1>13 DEF Configure, EndOfTransfer, taskVars, Waiting, OnTheWay
  <2>6. Counted' /\ Offered'
    BY <1>13 DEF Configure, Counted, Offered
  <2>7. QED
    BY <2>1, <2>2, <2>3, <2>4, <2>5, <2>6
<1>14. CASE Suspend
  <2>1. DriverType'
    BY <1>14 DEF Suspend, softVars, taskVars, DriverType
  <2>2. EndpointType'
    BY <1>14 DEF Suspend, softVars, EndpointType
  <2>3. HostType' /\ BoundsType'
    BY <1>14 DEF Suspend, HostType, BoundsType
  <2>4. FlagsType'
    BY <1>14 DEF Suspend, taskVars, FlagsType
  <2>5. Waiting' /\ OnTheWay'
    BY <1>14 DEF Suspend, softVars, taskVars, Waiting, OnTheWay
  <2>6. Counted' /\ Offered'
    BY <1>14 DEF Suspend, softVars, Counted, Offered
  <2>7. QED
    BY <2>1, <2>2, <2>3, <2>4, <2>5, <2>6
<1>15. CASE Resume
  <2>1. DriverType'
    BY <1>15 DEF Resume, softVars, taskVars, DriverType
  <2>2. EndpointType'
    BY <1>15 DEF Resume, softVars, EndpointType
  <2>3. HostType' /\ BoundsType'
    BY <1>15 DEF Resume, hostVars, HostType, BoundsType
  <2>4. FlagsType'
    BY <1>15 DEF Resume, hostVars, taskVars, FlagsType
  <2>5. Waiting' /\ OnTheWay'
    BY <1>15 DEF Resume, softVars, taskVars, Waiting, OnTheWay
  <2>6. Counted' /\ Offered'
    BY <1>15 DEF Resume, softVars, Counted, Offered
  <2>7. QED
    BY <2>1, <2>2, <2>3, <2>4, <2>5, <2>6
<1>16. CASE HostTake
  <2>1. DriverType'
    BY <1>16 DEF HostTake, softVars, taskVars, DriverType
  <2>2. EndpointType'
    BY <1>16 DEF HostTake, softVars, EndpointType
  <2>3. HostType' /\ BoundsType'
    BY <1>16 DEF HostTake, EndpointType, HostType, BoundsType, Packet
  <2>4. FlagsType'
    BY <1>16 DEF HostTake, taskVars, FlagsType
  <2>5. Waiting' /\ OnTheWay'
    BY <1>16 DEF HostTake, softVars, taskVars, Waiting, OnTheWay
  <2>6. Counted' /\ Offered'
    BY <1>16 DEF HostTake, softVars, Counted, Offered
  <2>7. QED
    BY <2>1, <2>2, <2>3, <2>4, <2>5, <2>6
<1>17. CASE UNCHANGED vars
  BY <1>17 DEF vars, DriverType, EndpointType, HostType, FlagsType, BoundsType,
     Waiting, OnTheWay, Counted, Offered, softVars, hardVars, hostVars,
     taskVars
<1>18. QED
  BY <1>1, <1>2, <1>3, <1>4, <1>5, <1>6, <1>7, <1>8, <1>9, <1>10, <1>11, <1>12,
     <1>13, <1>14, <1>15, <1>16, <1>17 DEF Next, HandleSend

-----------------------------------------------------------------------------
(* Theorems for every value of the constants.                              *)

\* Every state of the driver, the endpoint and the PC satisfies EndpointInv.
THEOREM EndpointInvariant == Spec => []EndpointInv
BY EndpointInit, EndpointStep, PTL DEF Spec

\* The variables of the driver, the endpoint and the PC keep their types.
THEOREM SendTypeCorrect == Spec => []TypeOK
<1>1. EndpointInv => TypeOK
  BY DEF EndpointInv
<1>2. QED
  BY <1>1, EndpointInvariant, PTL

\* The driver keeps the message in its buffer as long as the endpoint sends it
\* or offers a packet to the PC, whatever the interrupt comes between: the
\* buffer is what UDP_EndpointHandler reads the second packet from.
THEOREM BufferIsKept == Spec => []BufferKept
<1>1. EndpointInv => BufferKept
  BY DEF EndpointInv, Waiting, Offered, BufferKept
<1>2. QED
  BY <1>1, EndpointInvariant, PTL

-----------------------------------------------------------------------------
(* What the PC receives, if it does not configure the Brick anew with a    *)
(* part of a message received.                                             *)

\* What HostInv adds to EndpointInv.
LEMMA HostInit == Init => HostInv
<1> SUFFICES ASSUME Init PROVE HostInv
  OBVIOUS
<1>1. EndpointInv
  BY EndpointInit
<1>2. Known /\ PartOfTransfer /\ Accepted /\ Twice
  BY DEF Init, Known, PartOfTransfer, FirstTaken, Accepted, Twice
<1>3. QED
  BY <1>1, <1>2 DEF HostInv

\* Steps that change neither the transfer nor what the PC has.
LEMMA HostUnchanged ==
  ASSUME HostInv,
         UNCHANGED <<usb_send_buffer, state, transfer, txcomp, sent, hostPart,
                     hostGot, reset>>
  PROVE  (Known /\ PartOfTransfer /\ Accepted /\ Twice)'
BY DEF HostInv, Known, PartOfTransfer, FirstTaken, Accepted, Twice

\* The step of the PC: it takes the next packet of the transfer, and with the
\* last one it has the message in the buffer.
LEMMA TakesTransfer ==
  ASSUME HostInv, HostTake
  PROVE  /\ state = "SENDING" /\ ~txcomp /\ txcomp'
         /\ transfer.msg = usb_send_buffer /\ usb_send_buffer # NoMsg
         /\ UNCHANGED <<usb_send_buffer, state, transfer, sent>>
         /\ \/ /\ transfer.transferred = 0 /\ transfer.buffered = 2
               /\ hostPart' = [msg |-> transfer.msg, part |-> 1]
               /\ UNCHANGED <<hostGot, hostCount, reset>>
            \/ /\ transfer.buffered = 1
               /\ hostPart' = NoPacket
               /\ hostGot' = transfer.msg /\ ~reset'
<1> USE DEF HostInv, EndpointInv
<1>1. /\ state = "SENDING" /\ ~txcomp
      /\ fifo = [msg |-> transfer.msg, part |-> transfer.transferred + 1]
  BY DEF HostTake, Offered
<1>2. transfer.msg = usb_send_buffer /\ usb_send_buffer # NoMsg
  BY <1>1 DEF Waiting
<1>3. txcomp' /\ UNCHANGED <<usb_send_buffer, state, transfer, sent>>
  BY DEF HostTake, softVars, taskVars
<1>4. /\ transfer.transferred \in 0..1 /\ transfer.buffered \in 1..2
      /\ transfer.transferred + transfer.buffered = Packets(transfer.msg)
      /\ Packets(transfer.msg) \in {1, 2}
  BY <1>1, PacketsType DEF TypeOK, EndpointType, Counted
<1>5. fifo.msg = transfer.msg /\ fifo.part = transfer.transferred + 1
  BY <1>1
<1>6. CASE transfer.transferred = 0 /\ transfer.buffered = 2
  <2>1. hostPart = NoPacket
    BY <1>1, <1>6 DEF PartOfTransfer, FirstTaken
  <2>2. fifo.part = 1 /\ Packets(fifo.msg) = 2
    BY <1>4, <1>5, <1>6
  <2>3. hostPart' = fifo /\ UNCHANGED <<hostGot, hostCount, reset>>
    BY <2>1, <2>2 DEF HostTake
  <2>4. QED
    BY <1>1, <1>2, <1>3, <1>6, <2>3
<1>7. CASE transfer.transferred = 0 /\ transfer.buffered = 1
  <2>1. hostPart = NoPacket
    BY <1>1, <1>7 DEF PartOfTransfer, FirstTaken
  <2>2. fifo.part = 1 /\ Packets(fifo.msg) = 1
    BY <1>4, <1>5, <1>7
  <2>3. hostPart' = NoPacket /\ hostGot' = fifo.msg /\ ~reset'
    BY <2>1, <2>2 DEF HostTake
  <2>4. QED
    BY <1>1, <1>2, <1>3, <1>5, <1>7, <2>3
<1>8. CASE transfer.transferred = 1 /\ transfer.buffered = 1
  <2>1. hostPart = [msg |-> fifo.msg, part |-> 1]
    BY <1>1, <1>5, <1>8 DEF PartOfTransfer, FirstTaken
  <2>2. fifo.part = 2 /\ Packets(fifo.msg) = 2
    BY <1>4, <1>5, <1>8
  <2>3. hostPart' = NoPacket /\ hostGot' = fifo.msg /\ ~reset'
    BY <2>1, <2>2 DEF HostTake
  <2>4. QED
    BY <1>1, <1>2, <1>3, <1>5, <1>8, <2>3
<1>9. QED
  BY <1>4, <1>6, <1>7, <1>8

\* Every step of the driver, the interrupt and the PC keeps HostInv.
LEMMA HostStep ==
  ASSUME ~MidMessage
  PROVE  HostInv /\ [Next]_vars => HostInv'
<1> DEFINE HostParts == Known /\ PartOfTransfer /\ Accepted /\ Twice
<1> SUFFICES ASSUME HostInv, [Next]_vars PROVE HostParts'
  BY EndpointStep DEF HostInv
<1> USE DEF HostInv, EndpointInv
<1>0. /\ sent \in Nat /\ transfer.transferred \in 0..1
      /\ transfer.buffered \in 0..2
  BY UsbAssumption DEF TypeOK, DriverType, EndpointType
<1>1. ASSUME NEW byTick \in BOOLEAN, Send(byTick) PROVE HostParts'
  <2>1. state # "SENDING" /\ ~txcomp /\ hostGot = sent
    BY <1>1 DEF Send, Waiting, Offered, Accepted
  <2>2. /\ usb_send_buffer' = sent + 1 /\ sent' = sent + 1
        /\ UNCHANGED <<state, transfer, txcomp, hostPart, hostGot>>
    BY <1>1 DEF Send, hardVars, hostVars
  <2>3. Known' /\ PartOfTransfer'
    BY <2>1, <2>2 DEF Known, PartOfTransfer, FirstTaken
  <2>4. Accepted' /\ Twice'
    BY <1>0, <2>1, <2>2 DEF Accepted, Twice, NoMsg
  <2>5. QED
    BY <2>3, <2>4
<1>2. CASE Block
  BY <1>2, HostUnchanged DEF Block, softVars, hardVars, hostVars
<1>3. ASSUME NEW tick_type \in TickTypes, Tick(tick_type) PROVE HostParts'
  BY <1>3, HostUnchanged DEF Tick, softVars, hardVars, hostVars
<1>4. CASE Switch
  BY <1>4, HostUnchanged DEF Switch, softVars, hardVars, hostVars
<1>5. CASE IdleCase
  BY <1>5, HostUnchanged DEF IdleCase, hardVars, hostVars
<1>6. CASE Write
  BY <1>6, HostUnchanged DEF Write, softVars, hardVars, hostVars
<1>7. CASE Locked
  BY <1>7, HostUnchanged DEF Locked, hardVars, hostVars
<1>8. ASSUME state # "SENDING", NewTransfer(usb_send_buffer),
             UNCHANGED <<usb_send_buffer, txcomp, sent, hostPart, hostGot,
                         reset>>
      PROVE  HostParts'
  <2>1. ~txcomp /\ ~txcomp' /\ transfer'.transferred = 0
    BY <1>8 DEF Offered, NewTransfer
  <2>2. Known' /\ PartOfTransfer' /\ Accepted' /\ Twice'
    BY <1>8, <2>1 DEF Known, PartOfTransfer, FirstTaken, Accepted, Twice
  <2>3. QED
    BY <2>2
<1>9. CASE Arm
  BY <1>8, <1>9 DEF Arm, OnTheWay, hardVars, hostVars
<1>10. CASE Fill
  BY <1>10, HostUnchanged DEF Fill, softVars, hostVars
<1>11. CASE WaitCase
  <2>1. CASE WriteAgain
    BY <1>8, <1>11, <2>1 DEF WaitCase, WriteAgain, hostVars
  <2>2. CASE ~WriteAgain
    BY <1>11, <2>2, HostUnchanged DEF WaitCase, hostVars
  <2>3. QED
    BY <2>1, <2>2
<1>12. CASE TxComp
  <2>1. /\ state = "SENDING" /\ txcomp /\ ~txcomp' /\ transfer.buffered > 0
        /\ transfer.msg = usb_send_buffer /\ usb_send_buffer # NoMsg
        /\ UNCHANGED <<sent, hostPart, hostGot, reset>>
    BY <1>12 DEF TxComp, Offered, Waiting, Counted, hostVars, taskVars
  <2>2. CASE transfer.buffered <= 1
    <3>1. hostGot = sent /\ ~FirstTaken
      BY <1>0, <2>1, <2>2 DEF Known, Accepted, FirstTaken
    <3>2. state' = "IDLE" /\ usb_send_buffer' = NoMsg /\ UNCHANGED transfer
      BY <1>0, <1>12, <2>1, <2>2 DEF TxComp, EndOfTransfer, Freed
    <3>3. QED
      BY <2>1, <3>1, <3>2 DEF Known, PartOfTransfer, FirstTaken, Accepted,
         Twice
  <2>3. CASE transfer.buffered > 1
    <3>1. transfer.transferred = 0 /\ transfer.buffered = 2
      BY <1>0, <2>1, <2>3, PacketsType DEF Counted
    <3>2. /\ transfer' = [transfer EXCEPT !.transferred = 1, !.buffered = 1]
          /\ UNCHANGED <<usb_send_buffer, state>>
      BY <1>12, <2>1, <2>3, <3>1 DEF TxComp
    <3>3. transfer'.msg = transfer.msg /\ transfer'.transferred = 1
      BY <3>2
    <3>4. FirstTaken /\ FirstTaken'
      BY <2>1, <3>1, <3>2, <3>3 DEF FirstTaken
    <3>5. QED
      BY <2>1, <3>1, <3>2, <3>3, <3>4 DEF Known, PartOfTransfer, Accepted,
         Twice
  <2>4. QED
    BY <1>0, <2>2, <2>3
<1>13. CASE BusReset
  BY <1>13 DEF BusReset, taskVars, Known, PartOfTransfer, FirstTaken, Accepted,
     Twice
<1>14. CASE Configure
  <2>1. state = "SENDING" => transfer.transferred = 0
    BY <1>0, <1>14 DEF Configure, Offered
  <2>2. usb_send_buffer' = usb_send_buffer
    BY <1>14, <2>1 DEF Configure, EndOfTransfer, Freed
  <2>3. state' = "IDLE"
    BY <1>14 DEF Configure, EndOfTransfer
  <2>4. QED
    BY <1>14, <2>2, <2>3 DEF Configure, taskVars, Known, PartOfTransfer,
       FirstTaken, Accepted, Twice
<1>15. CASE Suspend
  BY <1>15, HostUnchanged DEF Suspend, softVars, taskVars
<1>16. CASE Resume
  BY <1>16, HostUnchanged DEF Resume, softVars, hostVars, taskVars
<1>17. CASE HostTake
  <2>1. CASE transfer.buffered = 1
    BY <1>17, <2>1, TakesTransfer DEF Known, PartOfTransfer, FirstTaken,
       Accepted, Twice
  <2>2. CASE transfer.buffered # 1
    BY <1>17, <2>2, TakesTransfer DEF Known, PartOfTransfer, FirstTaken,
       Accepted, Twice
  <2>3. QED
    BY <2>1, <2>2
<1>18. CASE UNCHANGED vars
  BY <1>18, HostUnchanged DEF vars, softVars, hardVars, hostVars, taskVars
<1>19. QED
  BY <1>1, <1>2, <1>3, <1>4, <1>5, <1>6, <1>7, <1>9, <1>10, <1>11, <1>12,
     <1>13,
     <1>14, <1>15, <1>16, <1>17, <1>18 DEF Next, HandleSend

\* What the PC has received of the messages accepted, in every state.
THEOREM HostInvariant == ~MidMessage => (Spec => []HostInv)
<1> SUFFICES ASSUME ~MidMessage PROVE Spec => []HostInv
  OBVIOUS
<1>1. HostInv /\ [Next]_vars => HostInv'
  BY HostStep
<1>2. QED
  BY HostInit, <1>1, PTL DEF Spec

\* The driver frees its send buffer only when the PC has the whole message in
\* it, whatever is reset, suspended or lost.
THEOREM FreedOnlyWhenSent == ~MidMessage => (Spec => FreedWhenSent)
<1> SUFFICES ASSUME ~MidMessage PROVE Spec => FreedWhenSent
  OBVIOUS
<1>1. HostInv /\ [Next]_vars =>
        [usb_send_buffer # NoMsg /\ usb_send_buffer' # usb_send_buffer
           => hostGot = usb_send_buffer]_vars
  <2> SUFFICES ASSUME HostInv, Next, usb_send_buffer # NoMsg,
                      usb_send_buffer' # usb_send_buffer
               PROVE  hostGot = usb_send_buffer
    OBVIOUS
  <2> USE DEF HostInv, EndpointInv
  <2>1. CASE TxComp
    <3>1. state = "SENDING" /\ transfer.msg = usb_send_buffer
      BY <2>1 DEF TxComp, Offered, Waiting
    <3>2. txcomp /\ transfer.buffered <= 1
      BY <2>1, <3>1 DEF TxComp
    <3>3. QED
      BY <3>1, <3>2 DEF Known
  <2>2. CASE Configure
    <3>1. state = "SENDING" => transfer.transferred = 0
      BY <2>2 DEF Configure, Offered, TypeOK, EndpointType
    <3>2. QED
      BY <2>2, <3>1 DEF Configure, EndOfTransfer, Freed
  <2>3. \A byTick \in BOOLEAN : ~Send(byTick)
    BY DEF Send
  <2>4. QED
    BY <2>1, <2>2, <2>3 DEF Next, HandleSend, Block, Tick, Switch, IdleCase,
       Write, Locked, Arm, Fill, WaitCase, BusReset, Suspend, Resume, HostTake,
       softVars
<1>2. QED
  BY <1>1, HostInvariant, PTL DEF Spec, FreedWhenSent

\* The PC receives the messages whole and in the order they were accepted, and
\* one of them again only after a reset.
THEOREM InOrder == ~MidMessage => (Spec => ReceivedInOrder)
<1> SUFFICES ASSUME ~MidMessage PROVE Spec => ReceivedInOrder
  OBVIOUS
<1>1. HostInv /\ [Next]_vars =>
        [hostCount' # hostCount
           => \/ hostGot' = hostGot + 1
              \/ hostGot' = hostGot /\ hostGot # NoMsg /\ reset]_vars
  <2> SUFFICES ASSUME HostInv, Next, hostCount' # hostCount
               PROVE  \/ hostGot' = hostGot + 1
                      \/ hostGot' = hostGot /\ hostGot # NoMsg /\ reset
    OBVIOUS
  <2>1. HostTake
    BY DEF Next, HandleSend, Send, Block, Tick, Switch, IdleCase, Write,
       Locked, Arm, Fill, WaitCase, TxComp, BusReset, Configure, Suspend,
       Resume, hostVars
  <2>2. /\ hostGot' = usb_send_buffer /\ usb_send_buffer # NoMsg
        /\ state = "SENDING" /\ ~txcomp
    BY <2>1, TakesTransfer
  <2>3. usb_send_buffer = sent /\ hostGot \in {sent - 1, sent} /\ sent \in Nat
    BY <2>2, UsbAssumption DEF HostInv, EndpointInv, TypeOK, DriverType,
       Accepted
  <2>4. CASE hostGot = sent - 1
    BY <2>2, <2>3, <2>4
  <2>5. CASE hostGot = sent
    BY <2>2, <2>3, <2>5 DEF HostInv, Twice
  <2>6. QED
    BY <2>3, <2>4, <2>5
<1>2. QED
  BY <1>1, HostInvariant, PTL DEF Spec, ReceivedInOrder

-----------------------------------------------------------------------------
(* UsbDevice: types.                                                       *)

States == {"SUSPENDED", "POWERED", "DEFAULT", "ADDRESS", "CONFIGURED"}
Resumable == States \ {"SUSPENDED"}
AllRequests == {"SETADDRESS", "SETCONFIG"} \cup Requests
Asked == AllRequests \cup {"none"}
OutPacket == [msg : Int, part : 1..2]
Fifo == Seq(OutPacket)
EventSets == SUBSET {"WAKEUP", "RXSUSP", "ENDBUSRES"}
Ep0States == {"DISABLED", "IDLE", "SENDING"}
InStates == {"DISABLED", "IDLE"}
OutStates == {"DISABLED", "IDLE", "RECEIVING", "HALTED"}
Masks == SUBSET {"EP0", "OUT"}
FlagSets == SUBSET {"RXSETUP", "TXCOMP", "RXDATA", "FORCESTALL", "STALLSENT"}
StallSets == SUBSET {"FORCESTALL", "STALLSENT"}
Callbacks == {"none", "SetAddress"}
Bit == 0..1
UpTo2 == 0..2
WakeUps == 0..WakeAt
BusStates == {"idle", "active"}
Phases == {"none", "data", "status"}
NextPackets == [msg : 1..MaxSent + 1, part : 1..2]

DeviceRecord ==
  [deviceState : States, previous : Resumable, clock : BOOLEAN, address : Bit,
   events : EventSets, ep0 : Ep0States, epIn : InStates, epOut : OutStates,
   imr : Masks, csr : FlagSets, stall : StallSets, request : Asked,
   callback : Callbacks, left : Bit, txpktrdy : BOOLEAN, bank : Bit,
   hwBank : Bit, rx : Fifo, recv : OutPacket, resumeSeen : BOOLEAN,
   configurationSeen : BOOLEAN, seen : UpTo2, firstConnection : BOOLEAN,
   wakeup : WakeUps]

HostRecord ==
  [bus : BusStates, phase : Phases, request : Asked, address : Bit,
   configured : BOOLEAN, halted : BOOLEAN, next : NextPackets,
   woken : BOOLEAN, events : Nat]

\* Two packets of the endpoint at most, and only a long message has a second.
Fits(d, h) ==
  /\ Len(d.rx) <= 2
  /\ h.next.part = 2 => h.next.msg \in Long

-----------------------------------------------------------------------------
(* The inductive invariant of the banks.                                   *)

\* A packet is offered to the PC, a request kept for the interrupt, a stall
\* ordered only for the request the PC waits for.
Control(d, h) ==
  /\ d.txpktrdy => /\ h.phase = "data" /\ "RXSETUP" \notin d.csr
                   /\ h.request # "UNCONFIG"
                   /\ h.request = "DESCRIPTOR" \/ d.left = 0
  /\ "TXCOMP" \in d.csr /\ d.ep0 = "SENDING" /\ d.left > 0 =>
       /\ h.phase = "data" /\ h.request = "DESCRIPTOR"
       /\ d.csr \cap {"RXSETUP", "FORCESTALL"} = {}
  /\ "FORCESTALL" \in d.csr =>
       /\ ~d.txpktrdy /\ "RXSETUP" \notin d.csr
       /\ h.phase = "data" \/ "STALLSENT" \in d.csr
  /\ "RXSETUP" \in d.csr => /\ h.phase = "data" /\ d.request = h.request
                             /\ d.request # "none"
  /\ h.phase = "status" => h.request = "DESCRIPTOR"

\* Driver and peripheral agree on the bank, up to a bus reset the driver is
\* still to be told of; without a configuration both are at the first one.
Banks(d, h) ==
  /\ d.bank = d.hwBank \/ ("ENDBUSRES" \in d.events /\ d.rx = <<>>)
  /\ ~h.configured => /\ d.bank = 0 \/ "ENDBUSRES" \in d.events
                      /\ d.rx = <<>>
  /\ "RXSETUP" \in d.csr /\ h.request = "SETCONFIG" => ~h.configured
  /\ "ENDBUSRES" \in d.events => /\ d.deviceState # "SUSPENDED"
                                 /\ h.bus = "active" /\ d.rx = <<>>

Good(d, h) == d \in DeviceRecord /\ Fits(d, h) /\ Control(d, h) /\ Banks(d, h)

BankInv == host \in HostRecord /\ Good(udp, host)

-----------------------------------------------------------------------------
(* The steps of the endpoint interrupt keep it.                            *)

\* The end of a transfer of the default endpoint (UDP_EndOfTransfer).
LEMMA EndOfTransferGood ==
  ASSUME NEW h \in HostRecord, NEW d, Good(d, h)
  PROVE  /\ Good(UDP_EndOfTransfer(d), h)
         /\ UDP_EndOfTransfer(d).csr = d.csr
         /\ UDP_EndOfTransfer(d).ep0 # "SENDING"
<1> DEFINE e == UDP_EndOfTransfer(d)
<1>1. d \in DeviceRecord
  BY DEF Good
<1>2. e \in DeviceRecord
  <2>1. "IDLE" \in Ep0States /\ "none" \in Callbacks /\ 1 \in Bit
        /\ "ADDRESS" \in States
    BY DEF Ep0States, Callbacks, Bit, States
  <2>2. QED
    BY <1>1, <2>1 DEF UDP_EndOfTransfer, USBD_SetAddress, DeviceRecord
<1>3. /\ e.csr = d.csr /\ e.txpktrdy = d.txpktrdy /\ e.left = d.left
      /\ e.request = d.request /\ e.bank = d.bank /\ e.hwBank = d.hwBank
      /\ e.rx = d.rx /\ e.events = d.events
      /\ e.ep0 # "SENDING"
      /\ e.deviceState = d.deviceState \/ e.deviceState = "ADDRESS"
  BY <1>1 DEF UDP_EndOfTransfer, USBD_SetAddress, DeviceRecord
<1> HIDE DEF e
<1>4. Fits(e, h) /\ Control(e, h) /\ Banks(e, h)
  BY <1>3 DEF Good, Fits, Control, Banks
<1>5. QED
  BY <1>2, <1>3, <1>4 DEF Good, e

\* A transfer is begun for a request the PC waits for (USBD_Write).
LEMMA WriteGood ==
  ASSUME NEW h \in HostRecord, NEW d, Good(d, h),
         NEW packets \in 1..2, NEW callback \in {"none", "SetAddress"},
         h.phase = "data", h.request # "UNCONFIG" \/ d.ep0 # "IDLE",
         d.csr \cap {"RXSETUP", "FORCESTALL"} = {},
         packets = 1 \/ h.request = "DESCRIPTOR"
  PROVE  Good(USBD_Write(d, packets, callback), h)
<1> DEFINE e == USBD_Write(d, packets, callback)
<1>1. d \in DeviceRecord
  BY DEF Good
<1>2. e \in DeviceRecord
  <2>1. packets - 1 \in Bit /\ "SENDING" \in Ep0States /\ callback \in Callbacks
    BY DEF Bit, Ep0States, Callbacks
  <2>2. d.imr \cup {"EP0"} \in Masks
    BY <1>1, Zenon DEF DeviceRecord, Masks
  <2>3. QED
    BY <1>1, <2>1, <2>2 DEF DeviceRecord, USBD_Write
<1>3. /\ e.csr = d.csr /\ e.request = d.request
      /\ e.bank = d.bank /\ e.hwBank = d.hwBank
      /\ e.rx = d.rx /\ e.events = d.events /\ e.deviceState = d.deviceState
      /\ \/ e = d
         \/ e.txpktrdy /\ e.left = packets - 1 /\ d.ep0 = "IDLE"
  BY <1>1 DEF USBD_Write, DeviceRecord
<1> HIDE DEF e
<1>4. Fits(e, h) /\ Control(e, h) /\ Banks(e, h)
  BY <1>3 DEF Good, Fits, Control, Banks
<1>5. QED
  BY <1>2, <1>4 DEF Good, e

\* A packet of the default endpoint is acknowledged (TxComp0).
LEMMA TxComp0Good ==
  ASSUME NEW h \in HostRecord, NEW d, Good(d, h)
  PROVE  Good(TxComp0(d), h)
<1> DEFINE c == UDP_EndOfTransfer(d)
           more == [d EXCEPT !.left = @ - 1, !.txpktrdy = TRUE]
<1>1. d \in DeviceRecord
  BY DEF Good
<1>2. CASE "TXCOMP" \notin d.csr
  BY <1>2 DEF TxComp0
<1>3. CASE "TXCOMP" \in d.csr /\ d.ep0 # "SENDING"
  <2> DEFINE e == Cleared(d, "TXCOMP")
  <2>1. d.csr \ {"TXCOMP"} \in FlagSets
    BY <1>1, Zenon DEF DeviceRecord, FlagSets
  <2>2. e \in DeviceRecord /\ e = [d EXCEPT !.csr = d.csr \ {"TXCOMP"}]
    BY <1>1, <2>1 DEF Cleared, DeviceRecord
  <2>3. Fits(e, h) /\ Control(e, h) /\ Banks(e, h)
    BY <1>1, <2>2 DEF Good, Fits, Control, Banks, DeviceRecord
  <2>4. QED
    BY <1>3, <2>2, <2>3 DEF TxComp0, Good
<1>4. CASE "TXCOMP" \in d.csr /\ d.ep0 = "SENDING" /\ d.left = 0
  <2> DEFINE e == Cleared(c, "TXCOMP")
  <2>1. Good(c, h)
    BY EndOfTransferGood
  <2> HIDE DEF c
  <2>2. c \in DeviceRecord /\ c.csr \ {"TXCOMP"} \in FlagSets
    BY <2>1, Zenon DEF Good, DeviceRecord, FlagSets
  <2>3. e \in DeviceRecord /\ e = [c EXCEPT !.csr = c.csr \ {"TXCOMP"}]
    BY <2>2 DEF Cleared, DeviceRecord
  <2>4. Fits(e, h) /\ Control(e, h) /\ Banks(e, h)
    BY <2>1, <2>2, <2>3 DEF Good, Fits, Control, Banks, DeviceRecord
  <2>5. QED
    BY <1>4, <2>3, <2>4 DEF TxComp0, Good, c
<1>5. CASE "TXCOMP" \in d.csr /\ d.ep0 = "SENDING" /\ d.left # 0
  <2> DEFINE e == Cleared(more, "TXCOMP")
  <2>1. d.csr \ {"TXCOMP"} \in FlagSets /\ d.left - 1 \in Bit
    <3>1. d.csr \ {"TXCOMP"} \in FlagSets
      BY <1>1, Zenon DEF DeviceRecord, FlagSets
    <3>2. d.left - 1 \in Bit
      BY <1>1, <1>5 DEF DeviceRecord, Bit
    <3>3. QED
      BY <3>1, <3>2
  <2>2. e \in DeviceRecord
    BY <1>1, <2>1 DEF Cleared, DeviceRecord
  <2>3. /\ e.csr = d.csr \ {"TXCOMP"} /\ e.txpktrdy /\ e.ep0 = d.ep0
        /\ e.request = d.request /\ e.bank = d.bank /\ e.hwBank = d.hwBank
        /\ e.rx = d.rx /\ e.events = d.events /\ e.deviceState = d.deviceState
    BY <1>1 DEF Cleared, DeviceRecord
  <2>4. d.left > 0
    BY <1>1, <1>5 DEF DeviceRecord, Bit
  <2> HIDE DEF e
  <2>5. Fits(e, h) /\ Control(e, h) /\ Banks(e, h)
    BY <1>5, <2>3, <2>4 DEF Good, Fits, Control, Banks
  <2>6. QED
    BY <1>5, <2>2, <2>5 DEF TxComp0, Good, e
<1>6. QED
  BY <1>2, <1>3, <1>4, <1>5

\* The PC has acknowledged its data (RxData0).
LEMMA RxData0Good ==
  ASSUME NEW h \in HostRecord, NEW d, Good(d, h)
  PROVE  Good(RxData0(d), h)
<1> DEFINE e == Cleared(d, "RXDATA")
<1>1. d \in DeviceRecord
  BY DEF Good
<1>2. d.csr \ {"RXDATA"} \in FlagSets
  BY <1>1, Zenon DEF DeviceRecord, FlagSets
<1>3. e \in DeviceRecord /\ e = [d EXCEPT !.csr = d.csr \ {"RXDATA"}]
  BY <1>1, <1>2 DEF Cleared, DeviceRecord
<1>4. Fits(e, h) /\ Control(e, h) /\ Banks(e, h)
  BY <1>1, <1>3 DEF Good, Fits, Control, Banks, DeviceRecord
<1>5. Good(UDP_EndOfTransfer(e), h)
  <2>1. Good(e, h)
    BY <1>3, <1>4 DEF Good
  <2> HIDE DEF e
  <2>2. QED
    BY <2>1, EndOfTransferGood
<1>6. QED
  BY <1>5 DEF RxData0

\* The PC has seen a stall (StallSent0).
LEMMA StallSent0Good ==
  ASSUME NEW h \in HostRecord, NEW d, Good(d, h)
  PROVE  Good(StallSent0(d), h)
<1> DEFINE flags == d.csr \ {"STALLSENT", "FORCESTALL"}
           e == [d EXCEPT !.csr = flags]
<1>1. d \in DeviceRecord
  BY DEF Good
<1>2. flags \in FlagSets
  BY <1>1, Zenon DEF DeviceRecord, FlagSets
<1>3. e \in DeviceRecord
  BY <1>1, <1>2 DEF DeviceRecord
<1>4. Fits(e, h) /\ Control(e, h) /\ Banks(e, h)
  BY <1>1 DEF Good, Fits, Control, Banks, DeviceRecord
<1>5. StallSent0(d) = e \/ StallSent0(d) = d
  BY <1>1 DEF StallSent0, DeviceRecord
<1>6. QED
  BY <1>3, <1>4, <1>5 DEF Good

\* The requests answered with another configuration (SetConfiguration).
LEMMA SetConfigurationGood ==
  ASSUME NEW h \in HostRecord, NEW d, Good(d, h), NEW cfgnum \in 0..1,
         h.phase = "data", d.csr \cap {"RXSETUP", "FORCESTALL"} = {},
         cfgnum = 0 => h.request = "UNCONFIG",
         cfgnum = 1 => h.request = "SETCONFIG" /\ ~h.configured
  PROVE  Good(SetConfiguration(d, cfgnum), h)
<1>1. d \in DeviceRecord
  BY DEF Good
<1>2. /\ "ADDRESS" \in States /\ "CONFIGURED" \in States /\ "IDLE" \in InStates
      /\ "DISABLED" \in InStates /\ "IDLE" \in OutStates /\ "DISABLED" \in OutStates
      /\ "DISABLED" \in Ep0States /\ 0 \in Bit /\ {} \in Masks /\ <<>> \in Fifo
  BY DEF States, InStates, OutStates, Ep0States, Bit, Masks, Fifo
<1>3. CASE cfgnum = 1
  <2> DEFINE e == ConfigurationChanged(
                    ConfigureEndpoints([d EXCEPT !.deviceState = "CONFIGURED"]))
  <2>1. e \in DeviceRecord
    BY <1>1, <1>2 DEF ConfigurationChanged, ConfigureEndpoints, DeviceRecord
  <2>2. /\ e.csr = d.csr /\ e.txpktrdy = d.txpktrdy /\ e.left = d.left
        /\ e.request = d.request /\ e.bank = d.bank /\ e.hwBank = 0
        /\ e.rx = <<>> /\ e.events = d.events /\ e.ep0 = d.ep0
        /\ e.deviceState = "CONFIGURED"
    BY <1>1 DEF ConfigurationChanged, ConfigureEndpoints, DeviceRecord
  <2>3. SetConfiguration(d, cfgnum) = USBD_Write(e, 1, "none")
    BY <1>3 DEF SetConfiguration
  <2> HIDE DEF e
  <2>4. Fits(e, h) /\ Control(e, h) /\ Banks(e, h)
    BY <1>3, <2>2 DEF Good, Fits, Control, Banks
  <2>5. Good(e, h)
    BY <2>1, <2>4 DEF Good
  <2>6. h.request # "UNCONFIG" /\ e.csr \cap {"RXSETUP", "FORCESTALL"} = {}
    BY <1>3, <2>2
  <2>7. QED
    BY <2>3, <2>5, <2>6, WriteGood
<1>4. CASE cfgnum = 0
  <2> DEFINE e == ConfigurationChanged(
                    USBD_HAL_ResetEPs([d EXCEPT !.deviceState = "ADDRESS"]))
  <2>1. e \in DeviceRecord
    BY <1>1, <1>2 DEF ConfigurationChanged, USBD_HAL_ResetEPs, DeviceRecord
  <2>2. /\ e.csr = d.csr /\ ~e.txpktrdy /\ e.left = d.left
        /\ e.request = d.request /\ e.bank = 0 /\ e.hwBank = 0
        /\ e.rx = <<>> /\ e.events = d.events /\ e.ep0 = "DISABLED"
        /\ e.deviceState = "ADDRESS"
    BY <1>1 DEF ConfigurationChanged, USBD_HAL_ResetEPs, DeviceRecord
  <2>3. SetConfiguration(d, cfgnum) = USBD_Write(e, 1, "none")
    BY <1>4 DEF SetConfiguration
  <2> HIDE DEF e
  <2>4. Fits(e, h) /\ Control(e, h) /\ Banks(e, h)
    BY <1>4, <2>2 DEF Good, Fits, Control, Banks
  <2>5. Good(e, h)
    BY <2>1, <2>4 DEF Good
  <2>6. e.csr \cap {"RXSETUP", "FORCESTALL"} = {} /\ e.ep0 # "IDLE"
    BY <2>2
  <2>7. QED
    BY <2>3, <2>5, <2>6, WriteGood
<1>5. QED
  BY <1>3, <1>4

\* The OUT endpoint is halted (Halt).
LEMMA HaltGood ==
  ASSUME NEW h \in HostRecord, NEW d, Good(d, h)
  PROVE  /\ Good(Halt(d), h)
         /\ Halt(d).csr = d.csr
<1> DEFINE e == Halt(d)
<1>1. d \in DeviceRecord
  BY DEF Good
<1>2. d.stall \cup {"FORCESTALL"} \in StallSets /\ d.imr \cup {"OUT"} \in Masks
  BY <1>1, Zenon DEF DeviceRecord, StallSets, Masks
<1>3. "HALTED" \in OutStates
  BY DEF OutStates
<1>4. e \in DeviceRecord
  BY <1>1, <1>2, <1>3 DEF Halt, DeviceRecord
<1>5. /\ e.csr = d.csr /\ e.txpktrdy = d.txpktrdy /\ e.left = d.left
      /\ e.request = d.request /\ e.bank = d.bank /\ e.hwBank = d.hwBank
      /\ e.rx = d.rx /\ e.events = d.events /\ e.ep0 = d.ep0
      /\ e.deviceState = d.deviceState
  BY <1>1 DEF Halt, DeviceRecord
<1> HIDE DEF e
<1>6. Fits(e, h) /\ Control(e, h) /\ Banks(e, h)
  BY <1>5 DEF Good, Fits, Control, Banks
<1>7. QED
  BY <1>4, <1>5, <1>6 DEF Good, e

\* The default endpoint stalls (USBD_HAL_Stall).
LEMMA StallGood ==
  ASSUME NEW h \in HostRecord, NEW d, Good(d, h),
         h.phase = "data", ~d.txpktrdy, "RXSETUP" \notin d.csr
  PROVE  Good(USBD_HAL_Stall(d), h)
<1> DEFINE e == USBD_HAL_Stall(d)
<1>1. d \in DeviceRecord
  BY DEF Good
<1>2. d.csr \cup {"FORCESTALL"} \in FlagSets
  BY <1>1, Zenon DEF DeviceRecord, FlagSets
<1>3. e \in DeviceRecord
  BY <1>1, <1>2 DEF USBD_HAL_Stall, DeviceRecord
<1>4. /\ e = d \/ (e.csr = d.csr \cup {"FORCESTALL"} /\ d.ep0 = "IDLE")
      /\ e.txpktrdy = d.txpktrdy /\ e.left = d.left
      /\ e.request = d.request /\ e.bank = d.bank /\ e.hwBank = d.hwBank
      /\ e.rx = d.rx /\ e.events = d.events /\ e.ep0 = d.ep0
      /\ e.deviceState = d.deviceState
  BY <1>1 DEF USBD_HAL_Stall, DeviceRecord
<1> HIDE DEF e
<1>5. Fits(e, h) /\ Control(e, h) /\ Banks(e, h)
  BY <1>4 DEF Good, Fits, Control, Banks
<1>6. QED
  BY <1>3, <1>5 DEF Good, e

\* A request arrives (RxSetup0, USBDDriver_RequestHandler).
LEMMA RxSetup0Good ==
  ASSUME NEW h \in HostRecord, NEW d, Good(d, h),
         Requests \cap {"UNHALT", "RECONFIG"} = {}
  PROVE  Good(RxSetup0(d), h)
<1>1. CASE "RXSETUP" \notin d.csr
  BY <1>1 DEF RxSetup0
<1>2. CASE "RXSETUP" \in d.csr
  <2> DEFINE c == UDP_EndOfTransfer(d)
             e == [Cleared(c, "RXSETUP") EXCEPT !.request = "none"]
  <2>1. Good(c, h) /\ c.csr = d.csr
    BY EndOfTransferGood
  <2> HIDE DEF c
  <2>2. c \in DeviceRecord /\ c.csr \ {"RXSETUP"} \in FlagSets
    BY <2>1, Zenon DEF Good, DeviceRecord, FlagSets
  <2>3. e \in DeviceRecord
    <3>1. "none" \in Asked
      BY DEF Asked
    <3>2. QED
      BY <2>2, <3>1 DEF Cleared, DeviceRecord
  <2>4. /\ e.csr = c.csr \ {"RXSETUP"} /\ e.txpktrdy = c.txpktrdy /\ e.left = c.left
        /\ e.bank = c.bank /\ e.hwBank = c.hwBank
        /\ e.rx = c.rx /\ e.events = c.events /\ e.ep0 = c.ep0
        /\ e.deviceState = c.deviceState
    BY <2>2 DEF Cleared, DeviceRecord
  <2>5. RxSetup0(d) = Answer(e, d.request)
    BY <1>2 DEF RxSetup0, c
  <2> HIDE DEF e
  <2>6. /\ h.phase = "data" /\ d.request = h.request /\ d.request # "none"
        /\ ~c.txpktrdy /\ "FORCESTALL" \notin c.csr
        /\ h.request = "SETCONFIG" => ~h.configured
    BY <1>2, <2>1 DEF Good, Control, Banks
  <2>7. Good(e, h)
    <3>1. Fits(e, h) /\ Control(e, h) /\ Banks(e, h)
      BY <1>2, <2>1, <2>4, <2>6 DEF Good, Fits, Control, Banks
    <3>2. QED
      BY <2>3, <3>1 DEF Good
  <2>8. e.csr \cap {"RXSETUP", "FORCESTALL"} = {} /\ ~e.txpktrdy
    BY <2>4, <2>6
  <2>9. d.request \in {"SETADDRESS", "SETCONFIG", "UNCONFIG", "DESCRIPTOR",
                       "HALT", "UNKNOWN"}
    BY <2>6, UsbDeviceAssumption DEF Good, DeviceRecord, Asked, AllRequests
  <2>10. CASE d.request = "SETADDRESS"
    <3>1. Answer(e, d.request) = USBD_Write(e, 1, "SetAddress")
      BY <2>10 DEF Answer
    <3>3. /\ 1 \in 1..2 /\ "none" \in {"none", "SetAddress"}
          /\ "SetAddress" \in {"none", "SetAddress"}
          /\ h.request # "UNCONFIG" \/ e.ep0 # "IDLE"
          /\ 1 = 1 \/ h.request = "DESCRIPTOR"
      BY <2>6, <2>10
    <3>4. QED
      BY <2>5, <2>6, <2>7, <2>8, <3>1, <3>3, WriteGood, Zenon
  <2>11. CASE d.request = "SETCONFIG"
    <3>1. Answer(e, d.request) = SetConfiguration(e, 1)
      BY <2>11 DEF Answer
    <3>3. /\ 1 \in 0..1
          /\ 1 = 0 => h.request = "UNCONFIG"
          /\ 1 = 1 => h.request = "SETCONFIG" /\ ~h.configured
      BY <2>6, <2>11
    <3>4. QED
      BY <2>5, <2>6, <2>7, <2>8, <3>1, <3>3, SetConfigurationGood, Zenon
  <2>12. CASE d.request = "UNCONFIG"
    <3>1. Answer(e, d.request) = SetConfiguration(e, 0)
      BY <2>12 DEF Answer
    <3>3. /\ 0 \in 0..1
          /\ 0 = 0 => h.request = "UNCONFIG"
          /\ 0 = 1 => h.request = "SETCONFIG" /\ ~h.configured
      BY <2>6, <2>12
    <3>4. QED
      BY <2>5, <2>6, <2>7, <2>8, <3>1, <3>3, SetConfigurationGood, Zenon
  <2>13. CASE d.request = "DESCRIPTOR"
    <3>1. Answer(e, d.request) = USBD_Write(e, 2, "none")
      BY <2>13 DEF Answer, GetDescriptor
    <3>3. /\ 2 \in 1..2 /\ "none" \in {"none", "SetAddress"}
          /\ h.request # "UNCONFIG" \/ e.ep0 # "IDLE"
          /\ 2 = 1 \/ h.request = "DESCRIPTOR"
      BY <2>6, <2>13
    <3>4. QED
      BY <2>5, <2>6, <2>7, <2>8, <3>1, <3>3, WriteGood, Zenon
  <2>14. CASE d.request = "HALT"
    <3>1. Answer(e, d.request) = USBD_Write(Halt(e), 1, "none")
      BY <2>14 DEF Answer
    <3>2. Good(Halt(e), h) /\ Halt(e).csr \cap {"RXSETUP", "FORCESTALL"} = {}
      BY <2>7, <2>8, HaltGood
    <3>3. /\ 1 \in 1..2 /\ "none" \in {"none", "SetAddress"}
          /\ h.request # "UNCONFIG" \/ Halt(e).ep0 # "IDLE"
          /\ 1 = 1 \/ h.request = "DESCRIPTOR"
      BY <2>6, <2>14
    <3>4. QED
      BY <2>5, <2>6, <2>7, <2>8, <3>1, <3>2, <3>3, WriteGood, Zenon
  <2>15. CASE d.request = "UNKNOWN"
    BY <2>5, <2>6, <2>7, <2>8, <2>15, StallGood DEF Answer
  <2>16. QED
    BY <2>9, <2>10, <2>11, <2>12, <2>13, <2>14, <2>15
<1>3. QED
  BY <1>1, <1>2

\* A packet leaves the endpoint (UDP_ClearRxFlag).
LEMMA ClearRxFlagGood ==
  ASSUME NEW h \in HostRecord, NEW d, Good(d, h), d.rx # <<>>
  PROVE  /\ Good(UDP_ClearRxFlag(d), h)
         /\ UDP_ClearRxFlag(d) = [d EXCEPT !.bank = 1 - d.bank,
                                    !.hwBank = 1 - d.hwBank, !.rx = Tail(d.rx)]
<1> DEFINE e == [d EXCEPT !.bank = 1 - d.bank, !.hwBank = 1 - d.hwBank,
                          !.rx = Tail(d.rx)]
<1>1. d \in DeviceRecord /\ d.bank = d.hwBank /\ h.configured
  BY DEF Good, Banks, HostRecord
<1>2. UDP_ClearRxFlag(d) = e
  BY <1>1 DEF UDP_ClearRxFlag, DeviceRecord
<1>3. d.rx \in Seq(OutPacket)
  BY <1>1 DEF DeviceRecord, Fifo
<1>4. Tail(d.rx) \in Fifo /\ Len(Tail(d.rx)) = Len(d.rx) - 1
  BY <1>3, HeadTailProperties DEF Fifo
<1>5. 1 - d.bank \in Bit /\ 1 - d.hwBank \in Bit
  BY <1>1 DEF DeviceRecord, Bit
<1>6. e \in DeviceRecord
  BY <1>1, <1>4, <1>5 DEF DeviceRecord
<1>7. /\ e.csr = d.csr /\ e.txpktrdy = d.txpktrdy /\ e.left = d.left
      /\ e.request = d.request /\ e.bank = 1 - d.bank /\ e.hwBank = 1 - d.bank
      /\ e.rx = Tail(d.rx) /\ e.events = d.events /\ e.ep0 = d.ep0
      /\ e.deviceState = d.deviceState
  BY <1>1 DEF DeviceRecord
<1> HIDE DEF e
<1>8. Fits(e, h)
  <2>1. Len(d.rx) \in Nat
    BY <1>3, LenProperties
  <2>2. QED
    BY <1>4, <1>7, <2>1 DEF Good, Fits
<1>9. Control(e, h) /\ Banks(e, h)
  BY <1>1, <1>7 DEF Good, Control, Banks
<1>10. QED
  BY <1>2, <1>6, <1>8, <1>9 DEF Good, e

\* A packet of the PC's messages arrives (RxDataOut, usb_custom_read_hook).
LEMMA RxDataOutGood ==
  ASSUME NEW h \in HostRecord, NEW d, Good(d, h)
  PROVE  Good(RxDataOut(d), h)
<1>1. d \in DeviceRecord
  BY DEF Good
<1>2. CASE d.rx = <<>>
  BY <1>2 DEF RxDataOut
<1>3. CASE d.rx # <<>>
  <2> DEFINE c == UDP_ClearRxFlag(d)
             masked == [d EXCEPT !.imr = d.imr \ {"OUT"}]
             packet == Head(d.rx)
             read == [c EXCEPT !.recv = packet]
             last == [read EXCEPT !.epOut = "IDLE"]
  <2>1. Good(c, h)
    BY <1>3, ClearRxFlagGood
  <2>2. Good(masked, h)
    <3>1. d.imr \ {"OUT"} \in Masks
      BY <1>1, Zenon DEF DeviceRecord, Masks
    <3>2. masked \in DeviceRecord
      BY <1>1, <3>1 DEF DeviceRecord
    <3>3. Fits(masked, h) /\ Control(masked, h) /\ Banks(masked, h)
      BY <1>1 DEF Good, Fits, Control, Banks, DeviceRecord
    <3>4. QED
      BY <3>2, <3>3 DEF Good
  <2>3. packet \in OutPacket
    <3>1. d.rx \in Seq(OutPacket)
      BY <1>1 DEF DeviceRecord, Fifo
    <3>2. QED
      BY <1>3, <3>1, HeadTailProperties
  <2> HIDE DEF c, packet
  <2>4. Good(read, h) /\ Good(last, h)
    <3>1. c \in DeviceRecord /\ "IDLE" \in OutStates
      BY <2>1 DEF Good, OutStates
    <3>2. read \in DeviceRecord /\ last \in DeviceRecord
      BY <2>3, <3>1 DEF DeviceRecord
    <3>3. Fits(read, h) /\ Control(read, h) /\ Banks(read, h)
      BY <2>1, <3>1 DEF Good, Fits, Control, Banks, DeviceRecord
    <3>4. Fits(last, h) /\ Control(last, h) /\ Banks(last, h)
      BY <2>1, <3>1 DEF Good, Fits, Control, Banks, DeviceRecord
    <3>5. QED
      BY <3>2, <3>3, <3>4 DEF Good
  <2>5. \/ RxDataOut(d) = masked \/ RxDataOut(d) = c
        \/ RxDataOut(d) = read \/ RxDataOut(d) = last
    BY <1>3, Zenon DEF RxDataOut, usb_custom_read_hook, c, packet
  <2>6. QED
    BY <2>1, <2>2, <2>4, <2>5, Zenon
<1>4. QED
  BY <1>2, <1>3

\* The PC has seen a stall of the OUT endpoint (StallSentOut).
LEMMA StallSentOutGood ==
  ASSUME NEW h \in HostRecord, NEW d, Good(d, h)
  PROVE  Good(StallSentOut(d), h)
<1> DEFINE e == StallSentOut(d)
<1>1. d \in DeviceRecord
  BY DEF Good
<1>2. d.stall \ {"STALLSENT"} \in StallSets /\ {} \in StallSets
  BY <1>1, Zenon DEF DeviceRecord, StallSets
<1>3. e \in DeviceRecord
  BY <1>1, <1>2 DEF StallSentOut, DeviceRecord
<1>4. /\ e.csr = d.csr /\ e.txpktrdy = d.txpktrdy /\ e.left = d.left
      /\ e.request = d.request /\ e.bank = d.bank /\ e.hwBank = d.hwBank
      /\ e.rx = d.rx /\ e.events = d.events /\ e.ep0 = d.ep0
      /\ e.deviceState = d.deviceState
  BY <1>1 DEF StallSentOut, DeviceRecord
<1> HIDE DEF e
<1>5. Fits(e, h) /\ Control(e, h) /\ Banks(e, h)
  BY <1>4 DEF Good, Fits, Control, Banks
<1>6. QED
  BY <1>3, <1>5 DEF Good, e

\* The endpoint interrupts (UDP_EndpointHandler).
LEMMA EndpointHandlerGood ==
  ASSUME NEW h \in HostRecord, NEW d, Good(d, h), NEW status,
         Requests \cap {"UNHALT", "RECONFIG"} = {}
  PROVE  Good(UDP_EndpointHandler(d, status), h)
<1> DEFINE first == RxSetup0(StallSent0(RxData0(TxComp0(d))))
<1>1. Good(first, h)
  <2>1. Good(TxComp0(d), h)
    BY TxComp0Good
  <2>2. Good(RxData0(TxComp0(d)), h)
    BY <2>1, RxData0Good
  <2>3. Good(StallSent0(RxData0(TxComp0(d))), h)
    BY <2>2, StallSent0Good
  <2>4. QED
    BY <2>3, RxSetup0Good
<1> HIDE DEF first
<1>2. Good(StallSentOut(RxDataOut(first)), h) /\ Good(StallSentOut(RxDataOut(d)), h)
  <2>1. Good(RxDataOut(first), h) /\ Good(RxDataOut(d), h)
    BY <1>1, RxDataOutGood
  <2>2. QED
    BY <2>1, StallSentOutGood
<1>3. \/ UDP_EndpointHandler(d, status) = d
      \/ UDP_EndpointHandler(d, status) = first
      \/ UDP_EndpointHandler(d, status) = StallSentOut(RxDataOut(first))
      \/ UDP_EndpointHandler(d, status) = StallSentOut(RxDataOut(d))
  BY Zenon DEF UDP_EndpointHandler, first
<1>4. QED
  BY <1>1, <1>2, <1>3

-----------------------------------------------------------------------------
(* The rest of the interrupt.                                              *)

\* Interrupts are counted until the first connection (CountMessages).
LEMMA CountMessagesGood ==
  ASSUME NEW h \in HostRecord, NEW d, Good(d, h)
  PROVE  /\ Good(CountMessages(d), h)
         /\ CountMessages(d).events = d.events
         /\ CountMessages(d).deviceState = d.deviceState
<1> DEFINE e == CountMessages(d)
<1>1. d \in DeviceRecord
  BY DEF Good
<1>2. (d.seen < 2 => d.seen + 1 \in UpTo2) /\ 0 \in UpTo2
  BY <1>1 DEF DeviceRecord, UpTo2
<1>3. e \in DeviceRecord
  BY <1>1, <1>2, ZenonT(30) DEF CountMessages, DeviceRecord
<1>4. /\ e.csr = d.csr /\ e.txpktrdy = d.txpktrdy /\ e.left = d.left
      /\ e.request = d.request /\ e.bank = d.bank /\ e.hwBank = d.hwBank
      /\ e.rx = d.rx /\ e.events = d.events /\ e.ep0 = d.ep0
      /\ e.deviceState = d.deviceState
  BY <1>1 DEF CountMessages, DeviceRecord
<1> HIDE DEF e
<1>5. Fits(e, h) /\ Control(e, h) /\ Banks(e, h)
  BY <1>4 DEF Good, Fits, Control, Banks
<1>6. QED
  BY <1>3, <1>4, <1>5 DEF Good, e

\* A suspended Brick resumes (USBD_ResumeHandler).
LEMMA ResumedGood ==
  ASSUME NEW h \in HostRecord, NEW d, Good(d, h), d.deviceState = "SUSPENDED"
  PROVE  Good(Resumed(d), h)
<1> DEFINE e == Resumed(d)
<1>1. d \in DeviceRecord
  BY DEF Good
<1>2. /\ 0 \in UpTo2 /\ {} \in EventSets
      /\ d.previous \in States /\ d.previous # "SUSPENDED"
  BY <1>1 DEF UpTo2, EventSets, DeviceRecord, Resumable
<1>3. e \in DeviceRecord
  BY <1>1, <1>2 DEF Resumed, DeviceRecord
<1>4. /\ e.csr = d.csr /\ e.txpktrdy = d.txpktrdy /\ e.left = d.left
      /\ e.request = d.request /\ e.bank = d.bank /\ e.hwBank = d.hwBank
      /\ e.rx = d.rx /\ e.events = {} /\ e.ep0 = d.ep0
      /\ e.deviceState = d.previous
  BY <1>1 DEF Resumed, DeviceRecord
<1> HIDE DEF e
<1>5. Fits(e, h) /\ Control(e, h) /\ Banks(e, h)
  BY <1>4 DEF Good, Fits, Control, Banks
<1>6. QED
  BY <1>3, <1>5 DEF Good, e

\* The bus is idle (USBD_SuspendHandler).
LEMMA SuspendedGood ==
  ASSUME NEW h \in HostRecord, NEW d, Good(d, h), d.deviceState # "SUSPENDED",
         "ENDBUSRES" \notin d.events
  PROVE  Good(Suspended(d), h)
<1> DEFINE e == Suspended(d)
<1>1. d \in DeviceRecord
  BY DEF Good
<1>2. /\ 0 \in UpTo2 /\ 1 \in WakeUps
      /\ d.deviceState \in Resumable /\ "SUSPENDED" \in States
  BY <1>1, UsbDeviceAssumption DEF UpTo2, WakeUps, DeviceRecord, Resumable, States
<1>3. d.events \ {"RXSUSP"} \in EventSets
  BY <1>1, Zenon DEF EventSets, DeviceRecord
<1>4. e \in DeviceRecord
  BY <1>1, <1>2, <1>3 DEF Suspended, DeviceRecord
<1>5. /\ e.csr = d.csr /\ e.txpktrdy = d.txpktrdy /\ e.left = d.left
      /\ e.request = d.request /\ e.bank = d.bank /\ e.hwBank = d.hwBank
      /\ e.rx = d.rx /\ e.events = d.events \ {"RXSUSP"} /\ e.ep0 = d.ep0
  BY <1>1 DEF Suspended, DeviceRecord
<1> HIDE DEF e
<1>6. Fits(e, h) /\ Control(e, h) /\ Banks(e, h)
  BY <1>5 DEF Good, Fits, Control, Banks
<1>7. QED
  BY <1>4, <1>6 DEF Good, e

\* The bus has been reset (USBD_ResetHandler): both banks are the first one.
LEMMA EndOfBusResetGood ==
  ASSUME NEW h \in HostRecord, NEW d, Good(d, h)
  PROVE  Good(EndOfBusReset(d), h)
<1> DEFINE r == USBD_HAL_ResetEPs(
                  [d EXCEPT !.deviceState = "DEFAULT", !.clock = TRUE, !.events = {}])
           c == UDP_EndOfTransfer(r)
           e == [c EXCEPT !.ep0 = "IDLE", !.imr = c.imr \cup {"EP0"}]
<1>1. d \in DeviceRecord
  BY DEF Good
<1>2. /\ "DEFAULT" \in States /\ {} \in EventSets /\ "DISABLED" \in InStates
      /\ "DISABLED" \in OutStates /\ "DISABLED" \in Ep0States /\ 0 \in Bit
      /\ {} \in Masks /\ <<>> \in Fifo /\ "IDLE" \in Ep0States
  BY DEF States, EventSets, InStates, OutStates, Ep0States, Bit, Masks, Fifo
<1>3. r \in DeviceRecord
  BY <1>1, <1>2 DEF USBD_HAL_ResetEPs, DeviceRecord
<1>4. /\ r.csr = d.csr /\ ~r.txpktrdy /\ r.left = d.left
      /\ r.request = d.request /\ r.bank = 0 /\ r.hwBank = 0
      /\ r.rx = <<>> /\ r.events = {} /\ r.ep0 = "DISABLED"
  BY <1>1 DEF USBD_HAL_ResetEPs, DeviceRecord
<1> HIDE DEF r
<1>5. Fits(r, h) /\ Control(r, h) /\ Banks(r, h)
  BY <1>4 DEF Good, Fits, Control, Banks
<1>6. Good(c, h)
  <2>1. Good(r, h)
    BY <1>3, <1>5 DEF Good
  <2>2. QED
    BY <2>1, EndOfTransferGood
<1> HIDE DEF c
<1>7. c \in DeviceRecord /\ c.imr \cup {"EP0"} \in Masks
  BY <1>6, Zenon DEF Good, DeviceRecord, Masks
<1>8. e \in DeviceRecord
  BY <1>2, <1>7 DEF DeviceRecord
<1>9. Fits(e, h) /\ Control(e, h) /\ Banks(e, h)
  BY <1>6, <1>7 DEF Good, Fits, Control, Banks, DeviceRecord
<1>10. EndOfBusReset(d) = e
  BY Zenon DEF EndOfBusReset, ConfigureEP0, r, c
<1>11. QED
  BY <1>8, <1>9, <1>10 DEF Good

-----------------------------------------------------------------------------
(* Every step keeps it.                                                    *)

\* A Brick that is awake has no wake-up to look at, a suspended one looks at
\* nothing else; what is taken for a suspend alone comes without a reset.
LEMMA StatusFacts ==
  ASSUME NEW d \in DeviceRecord
  PROVE  /\ "WAKEUP" \in Status(d) => d.deviceState = "SUSPENDED"
         /\ Status(d) = {"RXSUSP"} => /\ d.deviceState # "SUSPENDED"
                                      /\ "ENDBUSRES" \notin d.events
BY DEF Status

\* The interrupt (USBD_IrqHandler).
LEMMA IrqGood ==
  ASSUME BankInv, Requests \cap {"UNHALT", "RECONFIG"} = {}, USBD_IrqHandler
  PROVE  BankInv'
<1> DEFINE d == CountMessages(udp)
           status == Status(udp)
           awake == IF "WAKEUP" \in status THEN Resumed(d) ELSE d
<1>1. host \in HostRecord /\ Good(udp, host) /\ udp \in DeviceRecord
  BY DEF BankInv, Good
<1>2. /\ Good(d, host) /\ d.events = udp.events
      /\ d.deviceState = udp.deviceState
  BY <1>1, CountMessagesGood
<1>3. /\ host' = host
      /\ udp' = IF status = {"RXSUSP"} THEN Suspended(d)
                ELSE IF "ENDBUSRES" \in status THEN EndOfBusReset(awake)
                ELSE UDP_EndpointHandler(awake, status)
  BY DEF USBD_IrqHandler
<1>4. /\ "WAKEUP" \in status => udp.deviceState = "SUSPENDED"
      /\ status = {"RXSUSP"} => /\ udp.deviceState # "SUSPENDED"
                                /\ "ENDBUSRES" \notin udp.events
  BY <1>1, StatusFacts
<1> HIDE DEF d, status
<1>5. Good(awake, host)
  BY <1>1, <1>2, <1>4, ResumedGood
<1> HIDE DEF awake
<1>6. status = {"RXSUSP"} => Good(Suspended(d), host)
  BY <1>1, <1>2, <1>4, SuspendedGood
<1>7. Good(EndOfBusReset(awake), host)
  BY <1>1, <1>5, EndOfBusResetGood
<1>8. Good(UDP_EndpointHandler(awake, status), host)
  BY <1>1, <1>5, EndpointHandlerGood
<1>9. Good(udp', host)
  BY <1>3, <1>6, <1>7, <1>8
<1>10. QED
  BY <1>1, <1>3, <1>9 DEF BankInv

\* What the rest of the invariant looks at stays as it is.
LEMMA SameGood ==
  ASSUME NEW h \in HostRecord, NEW d, Good(d, h), NEW e \in DeviceRecord,
         e.csr = d.csr, e.txpktrdy = d.txpktrdy, e.left = d.left,
         e.request = d.request, e.bank = d.bank, e.hwBank = d.hwBank,
         e.rx = d.rx, e.events = d.events, e.ep0 = d.ep0,
         e.deviceState = d.deviceState
  PROVE  Good(e, h)
BY DEF Good, Fits, Control, Banks

\* The tasks leave the banks and the control transfers alone.
LEMMA TasksGood ==
  ASSUME BankInv,
         LoopStep \/ FirstConnection \/ WakeUpCounter
  PROVE  BankInv'
<1>1. host \in HostRecord /\ Good(udp, host) /\ udp \in DeviceRecord
  BY DEF BankInv, Good
<1>2. CASE UNCHANGED <<udp, host>>
  BY <1>1, <1>2 DEF BankInv
<1>3. CASE udp' = SetReceiving(udp) /\ UNCHANGED host
  <2>1. "RECEIVING" \in OutStates
    BY DEF OutStates
  <2>2. udp.imr \cup {"OUT"} \in Masks
    BY <1>1, Zenon DEF DeviceRecord, Masks
  <2>3. udp' \in DeviceRecord
    BY <1>1, <1>3, <2>1, <2>2 DEF SetReceiving, DeviceRecord
  <2>4. Good(udp', host)
    BY <1>1, <1>3, <2>3, SameGood DEF SetReceiving, DeviceRecord
  <2>5. QED
    BY <1>1, <1>3, <2>4 DEF BankInv
<1>4. CASE udp' = [udp EXCEPT !.recv = NoData] /\ UNCHANGED host
  <2>1. NoData \in OutPacket
    BY DEF NoData, OutPacket
  <2>2. udp' \in DeviceRecord
    BY <1>1, <1>4, <2>1 DEF DeviceRecord
  <2>3. Good(udp', host)
    BY <1>1, <1>4, <2>2, SameGood DEF DeviceRecord
  <2>4. QED
    BY <1>1, <1>4, <2>3 DEF BankInv
<1>5. CASE FirstConnection
  <2>1. EnumerateConnected \in OutPacket
    BY DEF EnumerateConnected, OutPacket
  <2>2. udp' \in DeviceRecord
    BY <1>1, <1>5, <2>1 DEF FirstConnection, AddEnumerateConnected, DeviceRecord
  <2>3. Good(udp', host)
    BY <1>1, <1>5, <2>2, SameGood
       DEF FirstConnection, AddEnumerateConnected, DeviceRecord
  <2>4. QED
    BY <1>1, <1>5, <2>3 DEF BankInv, FirstConnection
<1>6. CASE WakeUpCounter
  <2> DEFINE wakeup == (udp.wakeup + 1) % (WakeAt + 1)
             wakes == wakeup = WakeAt /\ udp.deviceState = "SUSPENDED"
  <2>1. wakeup \in WakeUps
    BY <1>1, UsbDeviceAssumption DEF DeviceRecord, WakeUps
  <2>2. /\ udp' = [udp EXCEPT !.wakeup = wakeup, !.clock = udp.clock \/ wakes]
        /\ host' = [host EXCEPT !.woken = host.woken \/ wakes]
    BY <1>6 DEF WakeUpCounter
  <2> HIDE DEF wakeup
  <2>3. udp' \in DeviceRecord
    <3> DEFINE slower == udp.clock \/ wakes
    <3>1. slower \in BOOLEAN
      BY <1>1, Zenon DEF DeviceRecord
    <3>2. udp' = [udp EXCEPT !.wakeup = wakeup, !.clock = slower]
      BY <2>2
    <3> HIDE DEF slower
    <3>3. QED
      BY <1>1, <2>1, <3>1, <3>2 DEF DeviceRecord
  <2>4. Good(udp', host)
    <3>1. /\ udp'.csr = udp.csr /\ udp'.txpktrdy = udp.txpktrdy
          /\ udp'.left = udp.left /\ udp'.request = udp.request
          /\ udp'.bank = udp.bank /\ udp'.hwBank = udp.hwBank
          /\ udp'.rx = udp.rx /\ udp'.events = udp.events
          /\ udp'.ep0 = udp.ep0 /\ udp'.deviceState = udp.deviceState
      BY <1>1, <2>2 DEF DeviceRecord
    <3>2. QED
      BY <1>1, <2>3, <3>1, SameGood
  <2>5. host' \in HostRecord
    BY <1>1, <2>2, Zenon DEF HostRecord
  <2>6. /\ host'.next = host.next /\ host'.phase = host.phase
        /\ host'.request = host.request /\ host'.configured = host.configured
        /\ host'.bus = host.bus
    BY <1>1, <2>2 DEF HostRecord
  <2>7. Good(udp', host')
    BY <2>4, <2>6 DEF Good, Fits, Control, Banks
  <2>8. QED
    BY <2>5, <2>7 DEF BankInv
<1>7. QED
  BY <1>2, <1>3, <1>4, <1>5, <1>6
     DEF LoopStep, RecvEmpty, RecvNothing, RecvCopy, RecvArm, RecvDone, Route

\* The bus becomes active or idle.
LEMMA BusGood ==
  ASSUME BankInv, HostActive \/ HostSuspends
  PROVE  BankInv'
<1>1. host \in HostRecord /\ Good(udp, host) /\ udp \in DeviceRecord
  BY DEF BankInv, Good
<1>2. "active" \in BusStates /\ "idle" \in BusStates
  BY DEF BusStates
<1>3. CASE HostActive
  <2>1. udp.events \cup {"WAKEUP"} \in EventSets
    BY <1>1, Zenon DEF DeviceRecord, EventSets
  <2>2. udp' \in DeviceRecord /\ host' \in HostRecord
    BY <1>1, <1>2, <1>3, <2>1 DEF HostActive, DeviceRecord, HostRecord
  <2>3. /\ udp'.csr = udp.csr /\ udp'.txpktrdy = udp.txpktrdy
        /\ udp'.left = udp.left /\ udp'.request = udp.request
        /\ udp'.bank = udp.bank /\ udp'.hwBank = udp.hwBank
        /\ udp'.rx = udp.rx /\ udp'.ep0 = udp.ep0
        /\ udp'.events = udp.events \cup {"WAKEUP"}
        /\ host.bus = "idle"
    BY <1>1, <1>3 DEF HostActive, DeviceRecord
  <2>4. /\ host'.next = host.next /\ host'.phase = host.phase
        /\ host'.request = host.request /\ host'.configured = host.configured
    BY <1>1, <1>3 DEF HostActive, HostRecord
  <2>5. Fits(udp', host') /\ Control(udp', host') /\ Banks(udp', host')
    BY <1>1, <2>3, <2>4 DEF Good, Fits, Control, Banks
  <2>6. QED
    BY <2>2, <2>5 DEF BankInv, Good
<1>4. CASE HostSuspends
  <2>1. {"RXSUSP"} \in EventSets /\ host.events + 1 \in Nat
    BY <1>1 DEF EventSets, HostRecord
  <2>2. udp' \in DeviceRecord /\ host' \in HostRecord
    BY <1>1, <1>2, <1>4, <2>1 DEF HostSuspends, DeviceRecord, HostRecord
  <2>3. /\ udp'.csr = udp.csr /\ udp'.txpktrdy = udp.txpktrdy
        /\ udp'.left = udp.left /\ udp'.request = udp.request
        /\ udp'.bank = udp.bank /\ udp'.hwBank = udp.hwBank
        /\ udp'.rx = udp.rx /\ udp'.ep0 = udp.ep0
        /\ udp'.events = {"RXSUSP"} /\ udp.events = {}
    BY <1>1, <1>4 DEF HostSuspends, Attentive, DeviceRecord
  <2>4. /\ host'.next = host.next /\ host'.phase = host.phase
        /\ host'.request = host.request /\ host'.configured = host.configured
    BY <1>1, <1>4 DEF HostSuspends, HostRecord
  <2>5. Fits(udp', host') /\ Control(udp', host') /\ Banks(udp', host')
    BY <1>1, <2>3, <2>4 DEF Good, Fits, Control, Banks
  <2>6. QED
    BY <2>2, <2>5 DEF BankInv, Good
<1>5. QED
  BY <1>3, <1>4

\* The PC resets the bus: the peripheral starts again with the first bank, and
\* the driver is told.
LEMMA ResetGood ==
  ASSUME BankInv, HostResets
  PROVE  BankInv'
<1>1. host \in HostRecord /\ Good(udp, host) /\ udp \in DeviceRecord
  BY DEF BankInv, Good
<1>2. /\ {"ENDBUSRES"} \in EventSets /\ 0 \in Bit /\ <<>> \in Fifo
      /\ {} \in FlagSets /\ {} \in StallSets /\ "none" \in Asked
      /\ "none" \in Phases
  BY DEF EventSets, Bit, Fifo, FlagSets, StallSets, Asked, Phases
<1>3. udp' \in DeviceRecord
  BY <1>1, <1>2 DEF HostResets, DeviceRecord
<1> DEFINE next == IF host.next.part = 2 THEN InStep(host.next.msg + 1) ELSE host.next
<1>4. next \in NextPackets /\ (next.part = 2 => next.msg \in Long)
  BY <1>1, UsbDeviceAssumption
     DEF Good, Fits, HostRecord, NextPackets, InStep
<1>5. host' = [host EXCEPT !.phase = "none", !.request = "none", !.address = 0,
                           !.configured = FALSE, !.halted = FALSE,
                           !.events = @ + 1, !.next = next]
  BY DEF HostResets
<1> HIDE DEF next
<1>6. host.events + 1 \in Nat
  BY <1>1 DEF HostRecord
<1>7. host' \in HostRecord
  BY <1>1, <1>2, <1>4, <1>5, <1>6 DEF HostRecord
<1>8. /\ udp'.csr = {} /\ ~udp'.txpktrdy /\ udp'.hwBank = 0
      /\ udp'.rx = <<>> /\ udp'.events = {"ENDBUSRES"}
      /\ udp'.deviceState = udp.deviceState /\ udp.deviceState # "SUSPENDED"
      /\ host.bus = "active"
  BY <1>1 DEF HostResets, Attentive, DeviceRecord
<1>9. /\ host'.next = next /\ host'.phase = "none"
      /\ host'.bus = host.bus
  BY <1>1, <1>5 DEF HostRecord
<1>10. Fits(udp', host') /\ Control(udp', host') /\ Banks(udp', host')
  BY <1>1, <1>4, <1>8, <1>9 DEF Good, Fits, Control, Banks
<1>11. QED
  BY <1>3, <1>7, <1>10 DEF BankInv, Good

\* The PC makes a request.
LEMMA SetupGood ==
  ASSUME BankInv, NEW request \in AllRequests, HostSetup(request)
  PROVE  BankInv'
<1>1. host \in HostRecord /\ Good(udp, host) /\ udp \in DeviceRecord
  BY DEF BankInv, Good
<1>2. /\ udp.csr \cup {"RXSETUP"} \in FlagSets
      /\ request \in Asked /\ request # "none" /\ "data" \in Phases
  <2>1. udp.csr \cup {"RXSETUP"} \in FlagSets
    BY <1>1, Zenon DEF DeviceRecord, FlagSets
  <2>2. request \in Asked /\ request # "none" /\ "data" \in Phases
    BY UsbDeviceAssumption DEF Asked, AllRequests, Phases
  <2>3. QED
    BY <2>1, <2>2
<1>3. udp' \in DeviceRecord
  BY <1>1, <1>2 DEF HostSetup, DeviceRecord
<1>4. host' \in HostRecord
  <2> DEFINE n == IF request \in Requests THEN host.events + 1 ELSE host.events
  <2>1. n \in Nat
    BY <1>1 DEF HostRecord
  <2>2. host' = [host EXCEPT !.phase = "data", !.request = request, !.events = n]
    BY DEF HostSetup
  <2> HIDE DEF n
  <2>3. QED
    BY <1>1, <1>2, <2>1, <2>2 DEF HostRecord
<1>5. /\ udp'.csr = udp.csr \cup {"RXSETUP"} /\ udp'.txpktrdy = udp.txpktrdy
      /\ udp'.left = udp.left /\ udp'.request = request
      /\ udp'.bank = udp.bank /\ udp'.hwBank = udp.hwBank
      /\ udp'.rx = udp.rx /\ udp'.ep0 = udp.ep0
      /\ udp'.events = udp.events /\ udp'.deviceState = udp.deviceState
  BY <1>1 DEF HostSetup, DeviceRecord
<1>6. /\ host'.next = host.next /\ host'.phase = "data"
      /\ host'.request = request /\ host'.configured = host.configured
      /\ host'.bus = host.bus
  BY <1>1 DEF HostSetup, HostRecord
<1>7. /\ host.phase = "none" /\ "STALLSENT" \notin udp.csr
      /\ request = "SETCONFIG" => ~host.configured
  BY DEF HostSetup, Sensible, Disturbing
<1>8. Fits(udp', host') /\ Banks(udp', host')
  BY <1>1, <1>5, <1>6, <1>7 DEF Good, Fits, Banks
<1>9. Control(udp', host')
  BY <1>1, <1>2, <1>5, <1>6, <1>7 DEF Good, Control
<1>10. QED
  BY <1>3, <1>4, <1>8, <1>9 DEF BankInv, Good

\* What the PC knows after a request (Done).
LEMMA DoneFacts ==
  ASSUME NEW h \in HostRecord
  PROVE  /\ Done(h) \in HostRecord
         /\ Done(h).phase = "none" /\ Done(h).next = h.next
         /\ Done(h).bus = h.bus
         /\ h.request = "SETCONFIG" => Done(h).configured
         /\ h.request \notin {"SETCONFIG", "UNCONFIG"} =>
              Done(h).configured = h.configured
<1> DEFINE address == IF h.request = "SETADDRESS" THEN 1 ELSE h.address
           configured == CASE h.request = "SETCONFIG" -> TRUE
                           [] h.request = "UNCONFIG" -> FALSE
                           [] OTHER -> h.configured
           halted == CASE h.request = "HALT" -> TRUE
                       [] h.request = "DESCRIPTOR" -> h.halted
                       [] OTHER -> FALSE
<1>1. address \in Bit /\ configured \in BOOLEAN /\ halted \in BOOLEAN
      /\ "none" \in Phases /\ "none" \in Asked
  <2>1. address \in Bit
    BY DEF HostRecord, Bit
  <2>2. configured \in BOOLEAN /\ halted \in BOOLEAN
    BY DEF HostRecord
  <2>3. "none" \in Phases /\ "none" \in Asked
    BY DEF Phases, Asked
  <2>4. QED
    BY <2>1, <2>2, <2>3
<1>2. Done(h) = [h EXCEPT !.phase = "none", !.request = "none",
                 !.address = address, !.configured = configured, !.halted = halted]
  BY DEF Done
<1>3. /\ h.request = "SETCONFIG" => configured
      /\ h.request \notin {"SETCONFIG", "UNCONFIG"} => configured = h.configured
  OBVIOUS
<1> HIDE DEF address, configured, halted
<1>4. Done(h) \in HostRecord
  BY <1>1, <1>2 DEF HostRecord
<1>5. /\ Done(h).phase = "none" /\ Done(h).next = h.next
      /\ Done(h).bus = h.bus /\ Done(h).configured = configured
  BY <1>2 DEF HostRecord
<1>6. QED
  BY <1>3, <1>4, <1>5

\* The PC takes a packet of the default endpoint.
LEMMA TakesGood ==
  ASSUME BankInv, HostTakes0
  PROVE  BankInv'
<1>1. host \in HostRecord /\ Good(udp, host) /\ udp \in DeviceRecord
  BY DEF BankInv, Good
<1>2. udp.csr \cup {"TXCOMP"} \in FlagSets /\ "status" \in Phases
  <2>1. udp.csr \cup {"TXCOMP"} \in FlagSets
    BY <1>1, Zenon DEF DeviceRecord, FlagSets
  <2>2. QED
    BY <2>1 DEF Phases
<1>3. udp' \in DeviceRecord
  BY <1>1, <1>2 DEF HostTakes0, DeviceRecord
<1>4. /\ udp'.csr = udp.csr \cup {"TXCOMP"} /\ ~udp'.txpktrdy
      /\ udp'.left = udp.left /\ udp'.request = udp.request
      /\ udp'.bank = udp.bank /\ udp'.hwBank = udp.hwBank
      /\ udp'.rx = udp.rx /\ udp'.ep0 = udp.ep0
      /\ udp'.events = udp.events /\ udp'.deviceState = udp.deviceState
  BY <1>1 DEF HostTakes0, DeviceRecord
<1>5. /\ udp.txpktrdy /\ host.phase = "data" /\ "RXSETUP" \notin udp.csr
      /\ "FORCESTALL" \notin udp.csr /\ host.request # "UNCONFIG"
      /\ host.request = "DESCRIPTOR" \/ udp.left = 0
  BY <1>1 DEF HostTakes0, Good, Control
<1>6. CASE host.request # "DESCRIPTOR"
  <2>1. host' = Done(host)
    BY <1>6 DEF HostTakes0
  <2>2. /\ host' \in HostRecord /\ host'.phase = "none"
        /\ host'.next = host.next /\ host'.bus = host.bus
        /\ ~host'.configured => ~host.configured
    BY <1>1, <1>5, <2>1, DoneFacts DEF HostRecord
  <2>3. udp.left = 0
    BY <1>5, <1>6
  <2>4. Fits(udp', host') /\ Control(udp', host') /\ Banks(udp', host')
    BY <1>1, <1>4, <1>5, <2>2, <2>3 DEF Good, Fits, Control, Banks
  <2>5. QED
    BY <1>3, <2>2, <2>4 DEF BankInv, Good
<1>7. CASE host.request = "DESCRIPTOR"
  <2>1. /\ host' \in HostRecord /\ host'.next = host.next /\ host'.bus = host.bus
        /\ host'.configured = host.configured /\ host'.request = "DESCRIPTOR"
        /\ IF udp.left = 0 THEN host'.phase = "status" ELSE host'.phase = "data"
    BY <1>1, <1>2, <1>5, <1>7 DEF HostTakes0, HostRecord
  <2>2. udp.left > 0 => udp.left # 0
    BY <1>1 DEF DeviceRecord, Bit
  <2>3. Fits(udp', host') /\ Control(udp', host') /\ Banks(udp', host')
    BY <1>1, <1>4, <1>5, <2>1, <2>2 DEF Good, Fits, Control, Banks
  <2>4. QED
    BY <1>3, <2>1, <2>3 DEF BankInv, Good
<1>8. QED
  BY <1>6, <1>7

\* The PC acknowledges data, or sees a stall of the default endpoint.
LEMMA AnswersGood ==
  ASSUME BankInv, HostStatus \/ HostStalled0
  PROVE  BankInv'
<1>1. host \in HostRecord /\ Good(udp, host) /\ udp \in DeviceRecord
  BY DEF BankInv, Good
<1>2. udp.csr \cup {"RXDATA"} \in FlagSets /\ udp.csr \cup {"STALLSENT"} \in FlagSets
      /\ "none" \in Phases /\ "none" \in Asked
  <2>1. udp.csr \cup {"RXDATA"} \in FlagSets /\ udp.csr \cup {"STALLSENT"} \in FlagSets
    BY <1>1, Zenon DEF DeviceRecord, FlagSets
  <2>2. QED
    BY <2>1 DEF Phases, Asked
<1>3. CASE HostStatus
  <2>1. udp' \in DeviceRecord
    BY <1>1, <1>2, <1>3 DEF HostStatus, DeviceRecord
  <2>2. /\ udp'.csr = udp.csr \cup {"RXDATA"} /\ udp'.txpktrdy = udp.txpktrdy
        /\ udp'.left = udp.left /\ udp'.request = udp.request
        /\ udp'.bank = udp.bank /\ udp'.hwBank = udp.hwBank
        /\ udp'.rx = udp.rx /\ udp'.ep0 = udp.ep0
        /\ udp'.events = udp.events /\ udp'.deviceState = udp.deviceState
    BY <1>1, <1>3 DEF HostStatus, DeviceRecord
  <2>3. host.phase = "status" /\ host.request = "DESCRIPTOR" /\ host' = Done(host)
    BY <1>1, <1>3 DEF HostStatus, Good, Control
  <2>4. /\ host' \in HostRecord /\ host'.phase = "none"
        /\ host'.next = host.next /\ host'.bus = host.bus
        /\ host'.configured = host.configured
    BY <1>1, <2>3, DoneFacts
  <2>5. Fits(udp', host') /\ Control(udp', host') /\ Banks(udp', host')
    BY <1>1, <2>2, <2>3, <2>4 DEF Good, Fits, Control, Banks
  <2>6. QED
    BY <2>1, <2>4, <2>5 DEF BankInv, Good
<1>4. CASE HostStalled0
  <2>1. udp' \in DeviceRecord /\ host' \in HostRecord
    BY <1>1, <1>2, <1>4 DEF HostStalled0, DeviceRecord, HostRecord
  <2>2. /\ udp'.csr = udp.csr \cup {"STALLSENT"} /\ udp'.txpktrdy = udp.txpktrdy
        /\ udp'.left = udp.left /\ udp'.request = udp.request
        /\ udp'.bank = udp.bank /\ udp'.hwBank = udp.hwBank
        /\ udp'.rx = udp.rx /\ udp'.ep0 = udp.ep0
        /\ udp'.events = udp.events /\ udp'.deviceState = udp.deviceState
    BY <1>1, <1>4 DEF HostStalled0, DeviceRecord
  <2>3. /\ host'.phase = "none" /\ host'.next = host.next /\ host'.bus = host.bus
        /\ host'.configured = host.configured
    BY <1>1, <1>4 DEF HostStalled0, HostRecord
  <2>4. "FORCESTALL" \in udp.csr
    BY <1>4 DEF HostStalled0
  <2>5. Fits(udp', host') /\ Control(udp', host') /\ Banks(udp', host')
    BY <1>1, <2>2, <2>3, <2>4 DEF Good, Fits, Control, Banks
  <2>6. QED
    BY <2>1, <2>5 DEF BankInv, Good
<1>5. QED
  BY <1>3, <1>4

\* The packet after a packet.
After(packet) ==
  IF Full(packet) THEN [packet EXCEPT !.part = 2] ELSE InStep(packet.msg + 1)

\* The PC sends a packet of a message, or finds the endpoint halted.
LEMMA OutGood ==
  ASSUME BankInv, HostOut \/ HostOutStalled
  PROVE  BankInv'
<1>1. host \in HostRecord /\ Good(udp, host) /\ udp \in DeviceRecord
  BY DEF BankInv, Good
<1>2. CASE HostOut
  <2>1. host.next \in NextPackets /\ host.next.msg <= MaxSent
    BY <1>1, <1>2 DEF HostOut, HostRecord
  <2>2. After(host.next) \in NextPackets
        /\ (After(host.next).part = 2 => After(host.next).msg \in Long)
    BY <2>1, UsbDeviceAssumption DEF After, Full, InStep, NextPackets
  <2>3. host' = [host EXCEPT !.next = After(host.next)]
    BY <1>2 DEF HostOut, After
  <2>4. udp.rx \in Seq(OutPacket) /\ host.next \in OutPacket
    BY <1>1, <2>1, UsbDeviceAssumption DEF DeviceRecord, Fifo, NextPackets, OutPacket
  <2>5. Append(udp.rx, host.next) \in Fifo
        /\ Len(Append(udp.rx, host.next)) = Len(udp.rx) + 1
    BY <2>4, AppendProperties DEF Fifo
  <2>6. udp' = [udp EXCEPT !.rx = Append(udp.rx, host.next)]
    BY <1>2 DEF HostOut
  <2>7. Len(udp.rx) < 2 /\ Len(udp.rx) \in Nat
    BY <1>2, <2>4, LenProperties DEF HostOut
  <2>8. udp.events = {} /\ host.configured /\ udp.deviceState # "SUSPENDED"
    BY <1>2 DEF HostOut, Addressed, Attentive
  <2> HIDE DEF After
  <2>9. udp' \in DeviceRecord /\ host' \in HostRecord
    BY <1>1, <2>2, <2>3, <2>5, <2>6 DEF DeviceRecord, HostRecord
  <2>10. /\ udp'.csr = udp.csr /\ udp'.txpktrdy = udp.txpktrdy
         /\ udp'.left = udp.left /\ udp'.request = udp.request
         /\ udp'.bank = udp.bank /\ udp'.hwBank = udp.hwBank
         /\ udp'.rx = Append(udp.rx, host.next) /\ udp'.ep0 = udp.ep0
         /\ udp'.events = udp.events /\ udp'.deviceState = udp.deviceState
    BY <1>1, <2>6 DEF DeviceRecord
  <2>11. /\ host'.phase = host.phase /\ host'.next = After(host.next)
         /\ host'.bus = host.bus /\ host'.configured = host.configured
         /\ host'.request = host.request
    BY <1>1, <2>3 DEF HostRecord
  <2>12. Fits(udp', host')
    BY <2>2, <2>5, <2>7, <2>10, <2>11 DEF Fits
  <2>13. Control(udp', host') /\ Banks(udp', host')
    BY <1>1, <2>8, <2>10, <2>11 DEF Good, Control, Banks
  <2>14. QED
    BY <2>9, <2>12, <2>13 DEF BankInv, Good
<1>3. CASE HostOutStalled
  <2>1. udp.stall \cup {"STALLSENT"} \in StallSets
    BY <1>1, Zenon DEF DeviceRecord, StallSets
  <2>2. udp' \in DeviceRecord
    BY <1>1, <1>3, <2>1 DEF HostOutStalled, DeviceRecord
  <2>3. Good(udp', host)
    BY <1>1, <1>3, <2>2, SameGood DEF HostOutStalled, DeviceRecord
  <2>4. QED
    BY <1>1, <1>3, <2>3 DEF BankInv, HostOutStalled
<1>4. QED
  BY <1>2, <1>3

LEMMA BankStep ==
  ASSUME Requests \cap {"UNHALT", "RECONFIG"} = {},
         BankInv, [DeviceNext]_deviceVars
  PROVE  BankInv'
<1>1. CASE UNCHANGED deviceVars
  BY <1>1 DEF deviceVars, BankInv
<1>2. CASE Configures \/ \E request \in Requests : HostSetup(request)
  BY <1>2, SetupGood DEF Configures, AllRequests
<1>3. CASE USBD_IrqHandler
  BY <1>3, IrqGood
<1>4. CASE LoopStep \/ FirstConnection \/ WakeUpCounter
  BY <1>4, TasksGood
<1>5. CASE HostActive \/ HostSuspends
  BY <1>5, BusGood
<1>6. CASE HostResets
  BY <1>6, ResetGood
<1>7. CASE HostAnswers
  BY <1>7, TakesGood, AnswersGood DEF HostAnswers
<1>8. CASE HostOut \/ HostOutStalled
  BY <1>8, OutGood
<1>9. QED
  BY <1>1, <1>2, <1>3, <1>4, <1>5, <1>6, <1>7, <1>8 DEF DeviceNext, LoopStep

\* The initial state.
LEMMA BankStart == DeviceInit => BankInv
<1> SUFFICES ASSUME DeviceInit PROVE BankInv
  OBVIOUS
<1>1. /\ "SUSPENDED" \in States /\ "POWERED" \in Resumable /\ 0 \in Bit
      /\ {} \in EventSets /\ "DISABLED" \in Ep0States /\ "DISABLED" \in InStates
      /\ "DISABLED" \in OutStates /\ {} \in Masks /\ {} \in FlagSets
      /\ {} \in StallSets /\ "none" \in Asked /\ "none" \in Callbacks
      /\ <<>> \in Fifo /\ NoData \in OutPacket /\ 0 \in UpTo2 /\ 0 \in WakeUps
      /\ "idle" \in BusStates /\ "none" \in Phases /\ InStep(1) \in NextPackets
  BY UsbDeviceAssumption
     DEF States, Resumable, Bit, EventSets, Ep0States, InStates, OutStates, Masks,
         FlagSets, StallSets, Asked, Callbacks, Fifo, NoData, OutPacket, UpTo2,
         WakeUps, BusStates, Phases, InStep, NextPackets
<1>2. udp \in DeviceRecord
  BY <1>1 DEF DeviceInit, DeviceRecord
<1>3. host \in HostRecord
  BY <1>1 DEF DeviceInit, HostRecord
<1>4. Fits(udp, host) /\ Control(udp, host) /\ Banks(udp, host)
  BY DEF DeviceInit, Fits, Control, Banks, InStep
<1>5. QED
  BY <1>2, <1>3, <1>4 DEF BankInv, Good

\* The driver and the peripheral agree on the bank whenever there is a packet
\* (UDP_ClearRxFlag), as long as the PC neither ends a halt nor sets the
\* configuration again: USBD_HAL_ConfigureEP and Unhalt reset the FIFO, and not
\* the driver's bank.
THEOREM BankStaysInStep ==
  ASSUME Requests \cap {"UNHALT", "RECONFIG"} = {}
  PROVE  DeviceSpec => []BankInStep
<1>1. BankInv => BankInStep
  BY DEF BankInv, Good, Banks, BankInStep
<1>2. QED
  BY <1>1, BankStart, BankStep, PTL DEF DeviceSpec

-----------------------------------------------------------------------------
(* The packets on their way, when nothing comes between two of a message.  *)

LoopStates == {"yielded", "empty", "call", "copied", "armed", "route"}

LoopRecord == [pc : LoopStates, got : Fifo, length : Nat, routed : Nat,
               last : Int, routes : Bit]

\* The first packet of the next message of the PC.
First(l) == InStep(l.routed + 1)

LastOf(l) == l.got[Len(l.got)]

\* The packet of the PC that follows what com_message_loop has.
Expected(l) ==
  IF l.got = <<>> \/ l.got = <<EnumerateConnected>> THEN First(l)
  ELSE After(LastOf(l))

\* usb_recv_buffer has a packet that com_message_loop does not have yet.
Pending(d, l) == d.recv # NoData /\ l.pc \notin {"copied", "armed"}

\* The packet of the PC that follows this one, too.
Following(d, l) ==
  IF Pending(d, l) /\ d.recv # EnumerateConnected THEN After(d.recv)
  ELSE Expected(l)

\* com_message_loop has the next message or its beginning, or the Brick's own
\* request; it knows how long what it has is, and whether it is whole.
Reception(d, l) ==
  /\ \/ l.got = <<>>
     \/ l.got = <<EnumerateConnected>>
     \/ l.got = <<First(l)>>
     \/ Full(First(l)) /\ l.got = <<First(l), After(First(l))>>
  /\ l.pc \in {"copied", "armed"} =>
       /\ l.got # <<>> /\ d.recv = LastOf(l)
       /\ l.length = IF Len(l.got) = 1 THEN 0 ELSE 64
  /\ l.pc \in {"yielded", "empty", "call"} =>
       /\ l.got = <<>> \/ (Full(First(l)) /\ l.got = <<First(l)>>)
       /\ l.length = IF l.got = <<>> THEN 0 ELSE 64
  /\ l.pc = "route" =>
       l.got # <<>> /\ ~(Full(First(l)) /\ l.got = <<First(l)>>)
  /\ Pending(d, l) =>
       \/ d.recv = Expected(l)
       \/ d.recv = EnumerateConnected /\ l.got = <<>>

\* The endpoint's FIFO has what follows, up to what the PC sends next.
Stream(d, h, l) ==
  LET next == Following(d, l)
  IN \/ d.rx = <<>> /\ h.next = next
     \/ d.rx = <<next>> /\ h.next = After(next)
     \/ d.rx = <<next, After(next)>> /\ h.next = After(After(next))

LongIn(s) == \E i \in 1..Len(s) : s[i].msg \in Long

\* A message of two packets is on its way.
Underway(d, h, l) ==
  \/ h.next.part = 2 \/ d.recv.msg \in Long \/ LongIn(d.rx) \/ LongIn(l.got)

\* Meanwhile the bus is not disturbed and no request of the Brick's own comes.
\* A halted endpoint has nothing that could be thrown away.
Calm(d, h, l) ==
  /\ Underway(d, h, l) =>
       /\ h.bus = "active" /\ d.events = {} /\ d.deviceState # "SUSPENDED"
       /\ ~d.firstConnection /\ ~(d.resumeSeen /\ d.configurationSeen)
       /\ h.configured
       /\ "RXSETUP" \in d.csr => h.request \notin Disturbing
  /\ "FORCESTALL" \in d.stall => d.rx = <<>>
  /\ "RXSETUP" \in d.csr /\ h.request \in Disturbing => d.rx = <<>>

Flows(d, h, l) == Reception(d, l) /\ Stream(d, h, l) /\ Calm(d, h, l)

FlowInv == loop \in LoopRecord /\ Flows(udp, host, loop)

\* What most of the interrupt leaves alone.
Keeps(d, e) ==
  /\ e.rx = d.rx /\ e.recv = d.recv /\ e.events = d.events
  /\ e.deviceState = d.deviceState \/ e.deviceState # "SUSPENDED"
  /\ e.resumeSeen = d.resumeSeen /\ e.configurationSeen = d.configurationSeen
  /\ e.firstConnection = d.firstConnection /\ e.stall = d.stall
  /\ "RXSETUP" \in e.csr => "RXSETUP" \in d.csr

LEMMA KeepsFlows ==
  ASSUME NEW h, NEW l, NEW d, NEW e, Flows(d, h, l), Keeps(d, e)
  PROVE  Flows(e, h, l)
BY DEF Flows, Keeps, Reception, Stream, Calm, Underway, Pending, Following

LEMMA EmptyNotLong == ~LongIn(<<>>)
BY DEF LongIn

LEMMA TailNotLong ==
  ASSUME NEW s \in Seq(OutPacket), s # <<>>
  PROVE  /\ LongIn(Tail(s)) => LongIn(s)
         /\ Head(s).msg \in Long => LongIn(s)
<1>1. /\ Len(Tail(s)) = Len(s) - 1 /\ Len(s) \in Nat /\ Len(s) > 0
      /\ Head(s) = s[1]
      /\ \A i \in 1..Len(Tail(s)) : Tail(s)[i] = s[i + 1]
  BY HeadTailProperties, EmptySeq, LenProperties
<1>2. ASSUME NEW i \in 1..Len(Tail(s)), Tail(s)[i].msg \in Long
      PROVE  LongIn(s)
  <2>1. i + 1 \in 1..Len(s) /\ s[i + 1].msg \in Long
    BY <1>1, <1>2
  <2>2. QED
    BY <2>1 DEF LongIn
<1>3. ASSUME Head(s).msg \in Long PROVE LongIn(s)
  <2>1. 1 \in 1..Len(s) /\ s[1].msg \in Long
    BY <1>1, <1>3
  <2>2. QED
    BY <2>1 DEF LongIn
<1>4. QED
  BY <1>2, <1>3 DEF LongIn

LEMMA AppendNotLong ==
  ASSUME NEW s \in Seq(OutPacket), NEW packet \in OutPacket,
         LongIn(Append(s, packet))
  PROVE  LongIn(s) \/ packet.msg \in Long
<1>1. /\ Len(Append(s, packet)) = Len(s) + 1 /\ Len(s) \in Nat
      /\ \A i \in 1..Len(s) : Append(s, packet)[i] = s[i]
      /\ Append(s, packet)[Len(s) + 1] = packet
  BY AppendProperties, LenProperties
<1>2. PICK i \in 1..(Len(s) + 1) : Append(s, packet)[i].msg \in Long
  BY <1>1 DEF LongIn
<1>3. CASE i = Len(s) + 1
  BY <1>1, <1>2, <1>3
<1>4. CASE i \in 1..Len(s)
  BY <1>1, <1>2, <1>4 DEF LongIn
<1>5. QED
  BY <1>1, <1>2, <1>3, <1>4

\* Transfers of the default endpoint leave them alone.
LEMMA TransfersKeep ==
  ASSUME NEW d \in DeviceRecord
  PROVE  /\ Keeps(d, UDP_EndOfTransfer(d)) /\ Keeps(d, TxComp0(d))
         /\ Keeps(d, RxData0(d)) /\ Keeps(d, StallSent0(d))
         /\ Keeps(d, USBD_HAL_Stall(d))
         /\ \A packets, callback : Keeps(d, USBD_Write(d, packets, callback))
<1>1. Keeps(d, UDP_EndOfTransfer(d))
  BY DEF UDP_EndOfTransfer, USBD_SetAddress, DeviceRecord, Keeps
<1>2. Keeps(d, TxComp0(d))
  BY DEF TxComp0, Cleared, UDP_EndOfTransfer, USBD_SetAddress, DeviceRecord, Keeps
<1>3. Keeps(d, RxData0(d))
  BY DEF RxData0, Cleared, UDP_EndOfTransfer, USBD_SetAddress, DeviceRecord, Keeps
<1>4. Keeps(d, StallSent0(d))
  BY DEF StallSent0, DeviceRecord, Keeps
<1>5. Keeps(d, USBD_HAL_Stall(d))
  BY DEF USBD_HAL_Stall, DeviceRecord, Keeps
<1>6. ASSUME NEW packets, NEW callback
      PROVE  Keeps(d, USBD_Write(d, packets, callback))
  BY DEF USBD_Write, DeviceRecord, Keeps
<1>7. QED
  BY <1>1, <1>2, <1>3, <1>4, <1>5, <1>6

\* A request that changes the endpoint comes when nothing is on its way.
LEMMA RxSetup0Flows ==
  ASSUME NEW h \in HostRecord, NEW l, NEW d, Good(d, h), Flows(d, h, l),
         Requests \cap {"UNHALT", "RECONFIG"} = {}
  PROVE  Flows(RxSetup0(d), h, l)
<1>1. d \in DeviceRecord
  BY DEF Good
<1>2. CASE "RXSETUP" \notin d.csr
  BY <1>2 DEF RxSetup0
<1>3. CASE "RXSETUP" \in d.csr
  <2> DEFINE c == UDP_EndOfTransfer(d)
             e == [Cleared(c, "RXSETUP") EXCEPT !.request = "none"]
  <2>1. Good(c, h) /\ Keeps(d, c)
    BY <1>1, EndOfTransferGood, TransfersKeep
  <2>2. RxSetup0(d) = Answer(e, d.request)
    BY <1>3 DEF RxSetup0
  <2> HIDE DEF c
  <2>3. c \in DeviceRecord /\ c.csr \ {"RXSETUP"} \in FlagSets /\ "none" \in Asked
    BY <2>1, Zenon DEF Good, DeviceRecord, FlagSets, Asked
  <2>4. e \in DeviceRecord
    BY <2>3 DEF Cleared, DeviceRecord
  <2>5. /\ Keeps(d, e) /\ "RXSETUP" \notin e.csr
    BY <2>1, <2>3 DEF Cleared, DeviceRecord, Keeps
  <2> HIDE DEF e
  <2>6. Flows(e, h, l)
    BY <2>5, KeepsFlows
  <2>7. /\ d.request = h.request /\ d.request # "none"
        /\ h.request = "SETCONFIG" => ~h.configured /\ d.rx = <<>>
    BY <1>3 DEF Good, Control, Banks
  <2>8. d.request \in {"SETADDRESS", "SETCONFIG", "UNCONFIG", "DESCRIPTOR",
                       "HALT", "UNKNOWN"}
    BY <1>1, <2>7, UsbDeviceAssumption DEF DeviceRecord, Asked, AllRequests
  <2>9. d.request \in {"SETCONFIG", "UNCONFIG", "HALT"} =>
          /\ e.rx = <<>> /\ ~Underway(d, h, l) /\ ~Underway(e, h, l)
    BY <1>3, <2>5, <2>7 DEF Flows, Calm, Disturbing, Keeps, Underway
  <2>10. CASE d.request = "SETADDRESS"
    <3>1. Answer(e, d.request) = USBD_Write(e, 1, "SetAddress")
      BY <2>10 DEF Answer
    <3>2. QED
      BY <2>2, <2>4, <2>6, <3>1, TransfersKeep, KeepsFlows
  <2>11. CASE d.request = "DESCRIPTOR"
    <3>1. Answer(e, d.request) = USBD_Write(e, 2, "none")
      BY <2>11 DEF Answer, GetDescriptor
    <3>2. QED
      BY <2>2, <2>4, <2>6, <3>1, TransfersKeep, KeepsFlows
  <2>12. CASE d.request = "UNKNOWN"
    <3>1. Answer(e, d.request) = USBD_HAL_Stall(e)
      BY <2>12 DEF Answer
    <3>2. QED
      BY <2>2, <2>4, <2>6, <3>1, TransfersKeep, KeepsFlows
  <2>13. CASE d.request = "HALT"
    <3> DEFINE f == Halt(e)
    <3>1. Answer(e, d.request) = USBD_Write(f, 1, "none")
      BY <2>13 DEF Answer
    <3>2. f \in DeviceRecord
      <4>1. e.stall \cup {"FORCESTALL"} \in StallSets /\ e.imr \cup {"OUT"} \in Masks
        BY <2>4, Zenon DEF DeviceRecord, StallSets, Masks
      <4>2. "HALTED" \in OutStates
        BY DEF OutStates
      <4>3. QED
        BY <2>4, <4>1, <4>2 DEF Halt, DeviceRecord
    <3>3. /\ f.rx = e.rx /\ f.recv = e.recv /\ f.csr = e.csr
      BY <2>4 DEF Halt, DeviceRecord
    <3> HIDE DEF f
    <3>4. Flows(f, h, l)
      BY <2>5, <2>6, <2>9, <2>13, <3>3
         DEF Flows, Reception, Stream, Calm, Underway, Pending, Following
    <3>5. QED
      BY <2>2, <3>1, <3>2, <3>4, TransfersKeep, KeepsFlows
  <2>14. CASE d.request \in {"SETCONFIG", "UNCONFIG"}
    <3> DEFINE f == ConfigurationChanged(
                 IF d.request = "SETCONFIG"
                 THEN ConfigureEndpoints([e EXCEPT !.deviceState = "CONFIGURED"])
                 ELSE USBD_HAL_ResetEPs([e EXCEPT !.deviceState = "ADDRESS"]))
    <3>1. Answer(e, d.request) = USBD_Write(f, 1, "none")
      BY <2>14 DEF Answer, SetConfiguration
    <3>2. f \in DeviceRecord
      <4>1. /\ "ADDRESS" \in States /\ "CONFIGURED" \in States
            /\ "IDLE" \in InStates /\ "DISABLED" \in InStates
            /\ "IDLE" \in OutStates /\ "DISABLED" \in OutStates
            /\ "DISABLED" \in Ep0States /\ 0 \in Bit /\ {} \in Masks /\ <<>> \in Fifo
        BY DEF States, InStates, OutStates, Ep0States, Bit, Masks, Fifo
      <4>2. QED
        BY <2>4, <4>1 DEF ConfigurationChanged, ConfigureEndpoints,
                          USBD_HAL_ResetEPs, DeviceRecord
    <3>3. f.rx = <<>> /\ f.recv = e.recv /\ f.csr = e.csr /\ f.stall = e.stall
      BY <2>4 DEF ConfigurationChanged, ConfigureEndpoints, USBD_HAL_ResetEPs,
                  DeviceRecord
    <3> HIDE DEF f
    <3>4. Flows(f, h, l)
      BY <2>5, <2>6, <2>9, <2>14, <3>3
         DEF Flows, Reception, Stream, Calm, Underway, Pending, Following
    <3>5. QED
      BY <2>2, <3>1, <3>2, <3>4, TransfersKeep, KeepsFlows
  <2>15. QED
    BY <2>8, <2>10, <2>11, <2>12, <2>13, <2>14
<1>4. QED
  BY <1>2, <1>3

LEMMA AppendOne ==
  ASSUME NEW S, NEW a \in S, NEW b \in S
  PROVE  Append(<<a>>, b) = <<a, b>>
<1> DEFINE s == Append(<<a>>, b)
           t == <<a, b>>
<1>1. <<a>> \in Seq(S) /\ t \in Seq(S) /\ Len(t) = 2 /\ t[1] = a /\ t[2] = b
  OBVIOUS
<1>2. s \in Seq(S) /\ Len(s) = 2 /\ s[1] = a /\ s[2] = b
  BY <1>1, AppendProperties
<1> HIDE DEF s, t
<1>3. Len(s) = Len(t) /\ \A i \in 1..Len(s) : s[i] = t[i]
  BY <1>1, <1>2
<1>4. s = t
  BY <1>1, <1>2, <1>3, SeqEqual
<1>5. QED
  BY <1>4 DEF s, t

\* The last of one or two packets.
LEMMA LastOfTuple ==
  ASSUME NEW l, NEW a, NEW b
  PROVE  /\ l.got = <<a>> => LastOf(l) = a
         /\ l.got = <<a, b>> => LastOf(l) = b
<1>1. ASSUME l.got = <<a>> PROVE LastOf(l) = a
  <2>1. Len(<<a>>) = 1 /\ <<a>>[1] = a
    OBVIOUS
  <2>2. QED
    BY <1>1, <2>1 DEF LastOf
<1>2. ASSUME l.got = <<a, b>> PROVE LastOf(l) = b
  <2>1. Len(<<a, b>>) = 2 /\ <<a, b>>[2] = b
    OBVIOUS
  <2>2. QED
    BY <1>2, <2>1 DEF LastOf
<1>3. QED
  BY <1>1, <1>2

\* The packet after a packet of the PC is one.
LEMMA AfterFacts ==
  ASSUME NEW packet \in OutPacket, packet.msg > 0
  PROVE  /\ After(packet) \in OutPacket /\ After(packet).msg > 0
         /\ Full(packet) => After(packet) = [msg |-> packet.msg, part |-> 2]
BY DEF After, InStep, OutPacket

\* What com_message_loop waits for is a packet of the PC.
LEMMA ExpectedFacts ==
  ASSUME NEW l \in LoopRecord, NEW d, Reception(d, l)
  PROVE  /\ Expected(l) \in OutPacket /\ Expected(l).msg > 0
         /\ l.got # <<>> => LastOf(l) \in OutPacket /\ LastOf(l).msg # 0
<1> DEFINE first == First(l)
           second == After(first)
<1>1. l.routed \in Nat
  BY DEF LoopRecord
<1>2. first \in OutPacket /\ first.msg = l.routed + 1 /\ first.part = 1
  BY <1>1 DEF First, InStep, OutPacket
<1>3. /\ second \in OutPacket /\ second.msg > 0
      /\ Full(first) => second.part = 2 /\ second.msg = first.msg
  <2> HIDE DEF first
  <2>1. first.msg > 0
    BY <1>1, <1>2
  <2>2. QED
    BY <1>2, <2>1, AfterFacts
<1>4. After(second) \in OutPacket /\ After(second).msg > 0
  <2> HIDE DEF second
  <2>1. QED
    BY <1>3, AfterFacts
<1>5. EnumerateConnected \in OutPacket /\ EnumerateConnected.msg = -1
  BY DEF EnumerateConnected, OutPacket
<1>6. /\ l.got = <<EnumerateConnected>> => LastOf(l) = EnumerateConnected
      /\ l.got = <<first>> => LastOf(l) = first
      /\ l.got = <<first, second>> => LastOf(l) = second
  BY LastOfTuple
<1>7. \/ l.got = <<>> \/ l.got = <<EnumerateConnected>>
      \/ l.got = <<first>> \/ l.got = <<first, second>>
  BY DEF Reception
<1>8. Expected(l) \in {first, second, After(second)}
  <2>1. CASE l.got = <<>> \/ l.got = <<EnumerateConnected>>
    BY <2>1 DEF Expected
  <2>2. CASE l.got # <<>> /\ l.got # <<EnumerateConnected>>
    <3>1. Expected(l) = After(LastOf(l))
      BY <2>2 DEF Expected
    <3>2. LastOf(l) = first \/ LastOf(l) = second
      BY <1>6, <1>7, <2>2
    <3>3. QED
      BY <3>1, <3>2
  <2>3. QED
    BY <2>1, <2>2
<1> HIDE DEF first, second
<1>9. QED
  BY <1>1, <1>2, <1>3, <1>4, <1>5, <1>6, <1>7, <1>8

\* The packet that usb_custom_read_hook reads is the next one.
LEMMA RxDataOutFlows ==
  ASSUME NEW h \in HostRecord, NEW l \in LoopRecord, NEW d,
         Good(d, h), Flows(d, h, l)
  PROVE  Flows(RxDataOut(d), h, l)
<1>1. d \in DeviceRecord /\ d.rx \in Seq(OutPacket)
  BY DEF Good, DeviceRecord, Fifo
<1>2. CASE d.rx = <<>>
  BY <1>2 DEF RxDataOut
<1>3. CASE d.rx # <<>>
  <2> DEFINE c == UDP_ClearRxFlag(d)
             packet == Head(d.rx)
             masked == [d EXCEPT !.imr = d.imr \ {"OUT"}]
             read == [c EXCEPT !.recv = packet]
             last == [read EXCEPT !.epOut = "IDLE"]
  <2>1. /\ c \in DeviceRecord
        /\ c = [d EXCEPT !.bank = 1 - d.bank, !.hwBank = 1 - d.hwBank,
                         !.rx = Tail(d.rx)]
    BY <1>3, ClearRxFlagGood DEF Good
  <2>2. "FORCESTALL" \notin d.stall
    BY <1>3 DEF Flows, Calm
  <2>3. \/ RxDataOut(d) = masked
        \/ d.recv = NoData /\ RxDataOut(d) \in {read, last}
    BY <1>3, <2>2, Zenon DEF RxDataOut, usb_custom_read_hook
  <2>4. Flows(masked, h, l)
    BY <1>1, KeepsFlows DEF Keeps, DeviceRecord
  <2>5. ASSUME NEW e \in {read, last}, d.recv = NoData
        PROVE  Flows(e, h, l)
    <3>1. /\ e.rx = Tail(d.rx) /\ e.recv = packet /\ e.events = d.events
          /\ e.deviceState = d.deviceState /\ e.stall = d.stall
          /\ e.resumeSeen = d.resumeSeen /\ e.csr = d.csr
          /\ e.configurationSeen = d.configurationSeen
          /\ e.firstConnection = d.firstConnection
      <4>1. /\ c.rx = Tail(d.rx) /\ c.events = d.events
            /\ c.deviceState = d.deviceState /\ c.stall = d.stall
            /\ c.resumeSeen = d.resumeSeen /\ c.csr = d.csr
            /\ c.configurationSeen = d.configurationSeen
            /\ c.firstConnection = d.firstConnection
        BY <1>1, <2>1 DEF DeviceRecord
      <4> HIDE DEF c
      <4>2. CASE e = read
        BY <2>1, <4>1, <4>2 DEF DeviceRecord
      <4>3. CASE e = last
        BY <2>1, <4>1, <4>3 DEF DeviceRecord
      <4>4. QED
        BY <2>5, <4>2, <4>3
    <3> DEFINE next == Following(d, l)
    <3>2. /\ d.rx = <<next>> \/ d.rx = <<next, After(next)>>
          /\ next = Expected(l)
      BY <1>3, <2>5 DEF Flows, Stream, Following, Pending
    <3>3. packet = next
      BY <3>2
    <3> HIDE DEF next, packet, read, last
    <3>4. /\ d.rx = <<next>> => e.rx = <<>> /\ h.next = After(next)
          /\ d.rx = <<next, After(next)>> =>
               e.rx = <<After(next)>> /\ h.next = After(After(next))
      <4>1. d.rx = <<next>> => Tail(d.rx) = <<>>
        OBVIOUS
      <4>2. d.rx = <<next, After(next)>> => Tail(d.rx) = <<After(next)>>
        OBVIOUS
      <4>3. <<next>> # <<>> /\ <<next, After(next)>> # <<>>
            /\ <<next>> # <<next, After(next)>>
        OBVIOUS
      <4>4. QED
        BY <1>3, <3>1, <3>2, <4>1, <4>2, <4>3 DEF Flows, Stream, next
    <3>5. l.pc \notin {"copied", "armed"}
      BY <2>5, ExpectedFacts DEF Flows, Reception, NoData
    <3>6. packet # NoData /\ packet # EnumerateConnected
      BY <3>2, <3>3, ExpectedFacts DEF Flows, NoData, EnumerateConnected
    <3>7. Reception(e, l)
      BY <3>1, <3>2, <3>3, <3>5 DEF Flows, Reception, Pending
    <3>8. Stream(e, h, l)
      <4>1. Following(e, l) = After(next)
        BY <3>1, <3>3, <3>5, <3>6 DEF Following, Pending
      <4>2. QED
        BY <3>2, <3>4, <4>1 DEF Stream
    <3>9. Calm(e, h, l)
      <4>1. Underway(e, h, l) => Underway(d, h, l)
        BY <1>1, <1>3, <3>1, TailNotLong DEF Underway, packet
      <4>2. QED
        BY <1>3, <2>2, <3>1, <4>1 DEF Flows, Calm
    <3>10. QED
      BY <3>7, <3>8, <3>9 DEF Flows
  <2>6. QED
    BY <2>3, <2>4, <2>5
<1>4. QED
  BY <1>2, <1>3

\* The PC has seen a stall of the OUT endpoint.
LEMMA StallSentOutFlows ==
  ASSUME NEW h \in HostRecord, NEW l, NEW d \in DeviceRecord, Flows(d, h, l)
  PROVE  Flows(StallSentOut(d), h, l)
<1> DEFINE e == StallSentOut(d)
<1>1. /\ e.rx = d.rx /\ e.recv = d.recv /\ e.events = d.events
      /\ e.deviceState = d.deviceState
      /\ e.resumeSeen = d.resumeSeen /\ e.configurationSeen = d.configurationSeen
      /\ e.firstConnection = d.firstConnection /\ e.csr = d.csr
      /\ "FORCESTALL" \in e.stall => "FORCESTALL" \in d.stall
  BY DEF StallSentOut, DeviceRecord
<1> HIDE DEF e
<1>2. Flows(e, h, l)
  BY <1>1 DEF Flows, Reception, Stream, Calm, Underway, Pending, Following
<1>3. QED
  BY <1>2 DEF e

LEMMA EndpointHandlerFlows ==
  ASSUME NEW h \in HostRecord, NEW l \in LoopRecord, NEW d, NEW status,
         Good(d, h), Flows(d, h, l), Requests \cap {"UNHALT", "RECONFIG"} = {}
  PROVE  Flows(UDP_EndpointHandler(d, status), h, l)
<1> DEFINE c1 == TxComp0(d)
           c2 == RxData0(c1)
           c3 == StallSent0(c2)
           first == RxSetup0(c3)
<1>1. Good(c1, h) /\ Flows(c1, h, l)
  BY TxComp0Good, TransfersKeep, KeepsFlows DEF Good
<1> HIDE DEF c1
<1>2. Good(c2, h) /\ Flows(c2, h, l)
  BY <1>1, RxData0Good, TransfersKeep, KeepsFlows DEF Good
<1> HIDE DEF c2
<1>3. Good(c3, h) /\ Flows(c3, h, l)
  BY <1>2, StallSent0Good, TransfersKeep, KeepsFlows DEF Good
<1> HIDE DEF c3
<1>4. Good(first, h) /\ Flows(first, h, l)
  BY <1>3, RxSetup0Good, RxSetup0Flows
<1> HIDE DEF first
<1>5. /\ Good(RxDataOut(first), h) /\ Flows(RxDataOut(first), h, l)
      /\ Good(RxDataOut(d), h) /\ Flows(RxDataOut(d), h, l)
  BY <1>4, RxDataOutGood, RxDataOutFlows
<1>6. /\ Flows(StallSentOut(RxDataOut(first)), h, l)
      /\ Flows(StallSentOut(RxDataOut(d)), h, l)
  BY <1>5, StallSentOutFlows DEF Good
<1>7. \/ UDP_EndpointHandler(d, status) = d
      \/ UDP_EndpointHandler(d, status) = first
      \/ UDP_EndpointHandler(d, status) = StallSentOut(RxDataOut(first))
      \/ UDP_EndpointHandler(d, status) = StallSentOut(RxDataOut(d))
  BY Zenon DEF UDP_EndpointHandler, first, c1, c2, c3
<1>8. QED
  BY <1>4, <1>6, <1>7

\* The interrupt.
LEMMA IrqFlows ==
  ASSUME BankInv, FlowInv, Requests \cap {"UNHALT", "RECONFIG"} = {},
         USBD_IrqHandler
  PROVE  FlowInv'
<1> DEFINE d == CountMessages(udp)
           status == Status(udp)
           awake == IF "WAKEUP" \in status THEN Resumed(d) ELSE d
<1>1. /\ host \in HostRecord /\ Good(udp, host) /\ udp \in DeviceRecord
      /\ loop \in LoopRecord /\ Flows(udp, host, loop)
  BY DEF BankInv, Good, FlowInv
<1>2. /\ Good(d, host) /\ d.events = udp.events
      /\ d.deviceState = udp.deviceState
  BY <1>1, CountMessagesGood
<1>3. d \in DeviceRecord
  BY <1>2 DEF Good
<1>4. Flows(d, host, loop)
  <2>1. /\ d.rx = udp.rx /\ d.recv = udp.recv /\ d.stall = udp.stall
        /\ d.csr = udp.csr
        /\ ~(udp.resumeSeen /\ udp.configurationSeen) => d = udp
    BY <1>1 DEF CountMessages, DeviceRecord
  <2>2. CASE ~(udp.resumeSeen /\ udp.configurationSeen)
    BY <1>1, <2>1, <2>2
  <2>3. CASE udp.resumeSeen /\ udp.configurationSeen
    <3> HIDE DEF d
    <3>1. QED
      BY <1>1, <2>1, <2>3
         DEF Flows, Reception, Stream, Calm, Underway, Pending, Following
  <2>4. QED
    BY <2>2, <2>3
<1>5. /\ host' = host /\ loop' = loop
      /\ udp' = IF status = {"RXSUSP"} THEN Suspended(d)
                ELSE IF "ENDBUSRES" \in status THEN EndOfBusReset(awake)
                ELSE UDP_EndpointHandler(awake, status)
  BY DEF USBD_IrqHandler
<1>6. /\ "WAKEUP" \in status => udp.deviceState = "SUSPENDED"
      /\ status = {"RXSUSP"} => "RXSUSP" \in udp.events
      /\ "ENDBUSRES" \in status => "ENDBUSRES" \in udp.events /\ "WAKEUP" \notin status
  BY <1>1 DEF Status
<1> HIDE DEF d, status
<1>7. Good(awake, host) /\ Flows(awake, host, loop)
  <2>1. CASE "WAKEUP" \notin status
    BY <1>2, <1>4, <2>1
  <2>2. CASE "WAKEUP" \in status
    <3> DEFINE r == Resumed(d)
    <3>1. Good(r, host)
      BY <1>1, <1>2, <1>6, <2>2, ResumedGood
    <3>2. r.rx = d.rx /\ r.recv = d.recv /\ r.stall = d.stall /\ r.csr = d.csr
      BY <1>3 DEF Resumed, DeviceRecord
    <3> HIDE DEF r
    <3>3. Flows(r, host, loop)
      BY <1>2, <1>4, <1>6, <2>2, <3>2
         DEF Flows, Reception, Stream, Calm, Underway, Pending, Following
    <3>4. QED
      BY <2>2, <3>1, <3>3 DEF r
  <2>3. QED
    BY <2>1, <2>2
<1>8. CASE status = {"RXSUSP"}
  <2> DEFINE e == Suspended(d)
  <2>1. /\ e.rx = d.rx /\ e.recv = d.recv /\ e.stall = d.stall /\ e.csr = d.csr
    BY <1>3 DEF Suspended, DeviceRecord
  <2> HIDE DEF e
  <2>2. Flows(e, host, loop)
    BY <1>2, <1>4, <1>6, <1>8, <2>1
       DEF Flows, Reception, Stream, Calm, Underway, Pending, Following
  <2>3. udp' = e
    BY <1>5, <1>8 DEF e
  <2>4. QED
    BY <1>1, <1>5, <2>2, <2>3 DEF FlowInv
<1>9. CASE status # {"RXSUSP"} /\ "ENDBUSRES" \in status
  <2> DEFINE r == USBD_HAL_ResetEPs(
                    [d EXCEPT !.deviceState = "DEFAULT", !.clock = TRUE, !.events = {}])
             e == EndOfBusReset(d)
  <2>1. awake = d
    BY <1>6, <1>9
  <2>2. /\ r.rx = <<>> /\ r.recv = d.recv /\ r.stall = d.stall /\ r.csr = d.csr
        /\ r.ep0 = "DISABLED"
    BY <1>3 DEF USBD_HAL_ResetEPs, DeviceRecord
  <2>3. e = [r EXCEPT !.ep0 = "IDLE", !.imr = r.imr \cup {"EP0"}]
    BY <2>2 DEF EndOfBusReset, ConfigureEP0, UDP_EndOfTransfer
  <2>4. /\ e.rx = <<>> /\ e.recv = d.recv /\ e.stall = d.stall /\ e.csr = d.csr
    BY <1>3, <2>2, <2>3 DEF USBD_HAL_ResetEPs, DeviceRecord
  <2> HIDE DEF r, e
  <2>5. d.rx = <<>>
    BY <1>2, <1>6, <1>9 DEF Good, Banks
  <2>6. Flows(e, host, loop)
    BY <1>2, <1>4, <1>6, <1>9, <2>4, <2>5
       DEF Flows, Reception, Stream, Calm, Underway, Pending, Following
  <2>7. udp' = e
    BY <1>5, <1>9, <2>1 DEF e
  <2>8. QED
    BY <1>1, <1>5, <2>6, <2>7 DEF FlowInv
<1>10. CASE status # {"RXSUSP"} /\ "ENDBUSRES" \notin status
  <2> HIDE DEF awake
  <2>1. Flows(UDP_EndpointHandler(awake, status), host, loop)
    BY <1>1, <1>7, EndpointHandlerFlows
  <2>2. QED
    BY <1>1, <1>5, <1>10, <2>1 DEF FlowInv
<1>11. QED
  BY <1>8, <1>9, <1>10

-----------------------------------------------------------------------------
(* The message loop.                                                       *)

\* usb_recv finds nothing, or copies what it finds and enables the interrupt.
LEMMA RecvFlows ==
  ASSUME BankInv, FlowInv, RecvEmpty \/ RecvNothing \/ RecvArm
  PROVE  FlowInv'
<1>1. /\ udp \in DeviceRecord /\ loop \in LoopRecord /\ Flows(udp, host, loop)
  BY DEF BankInv, Good, FlowInv
<1>2. \E at \in {"empty", "yielded", "armed"} : loop' = [loop EXCEPT !.pc = at]
  BY DEF RecvEmpty, RecvNothing, RecvArm
<1>3. loop' \in LoopRecord
  BY <1>1, <1>2 DEF LoopRecord, LoopStates
<1>4. /\ loop'.got = loop.got /\ loop'.length = loop.length
      /\ loop'.routed = loop.routed
      /\ host' = host
      /\ \/ loop.pc \in {"call", "yielded"} /\ loop'.pc = "empty"
         \/ loop.pc = "empty" /\ loop'.pc = "yielded"
         \/ loop.pc = "copied" /\ loop'.pc = "armed"
  BY <1>1 DEF RecvEmpty, RecvNothing, RecvArm, LoopRecord
<1>5. Keeps(udp, udp')
  BY <1>1 DEF RecvEmpty, RecvNothing, RecvArm, SetReceiving, DeviceRecord, Keeps
<1>6. /\ LastOf(loop') = LastOf(loop) /\ First(loop') = First(loop)
      /\ Expected(loop') = Expected(loop)
      /\ Pending(udp, loop') <=> Pending(udp, loop)
  BY <1>4 DEF LastOf, First, Expected, Pending
<1>7. Reception(udp, loop')
  BY <1>1, <1>4, <1>6 DEF Flows, Reception
<1>8. Stream(udp, host, loop') /\ Calm(udp, host, loop')
  BY <1>1, <1>4, <1>6 DEF Flows, Stream, Calm, Following, Underway
<1>9. Flows(udp', host, loop')
  BY <1>5, <1>7, <1>8, KeepsFlows DEF Flows
<1>10. QED
  BY <1>3, <1>4, <1>9 DEF FlowInv

\* usb_recv copies the buffer.
LEMMA CopyFlows ==
  ASSUME BankInv, FlowInv, RecvCopy
  PROVE  FlowInv'
<1> DEFINE first == First(loop)
           got == Append(loop.got, udp.recv)
<1>1. /\ udp \in DeviceRecord /\ loop \in LoopRecord /\ Flows(udp, host, loop)
      /\ loop.got \in Seq(OutPacket) /\ udp.recv \in OutPacket
  BY DEF BankInv, Good, FlowInv, LoopRecord, DeviceRecord, Fifo
<1>2. /\ loop' = [loop EXCEPT !.pc = "copied", !.got = got]
      /\ loop.pc \in {"call", "yielded"} /\ udp.recv # NoData
      /\ UNCHANGED <<udp, host>>
  BY DEF RecvCopy
<1>3. got \in Fifo /\ "copied" \in LoopStates
  BY <1>1, AppendProperties DEF Fifo, LoopStates
<1>4. /\ loop' \in LoopRecord
      /\ loop'.pc = "copied" /\ loop'.got = got
      /\ loop'.length = loop.length /\ loop'.routed = loop.routed
  BY <1>1, <1>2, <1>3 DEF LoopRecord
<1>5. First(loop') = first
  BY <1>4 DEF First
<1>6. Pending(udp, loop) /\ ~Pending(udp, loop')
  BY <1>2, <1>4 DEF Pending
<1>7. /\ loop.got = <<>> \/ (Full(first) /\ loop.got = <<first>>)
      /\ loop.length = IF loop.got = <<>> THEN 0 ELSE 64
      /\ \/ udp.recv = Expected(loop)
         \/ udp.recv = EnumerateConnected /\ loop.got = <<>>
  BY <1>1, <1>2, <1>6 DEF Flows, Reception
<1>8. EnumerateConnected # Expected(loop)
  BY <1>1, ExpectedFacts DEF Flows, EnumerateConnected
<1>9. ASSUME loop.got = <<>>
      PROVE  Reception(udp, loop') /\ Expected(loop') = Following(udp, loop)
  <2>1. /\ got = <<udp.recv>> /\ loop.length = 0 /\ Expected(loop) = first
    BY <1>7, <1>9 DEF Expected
  <2>2. LastOf(loop') = udp.recv /\ Len(got) = 1 /\ got # <<>>
    BY <1>4, <2>1, LastOfTuple
  <2> HIDE DEF got, first
  <2>3. udp.recv = EnumerateConnected \/ udp.recv = first
    BY <1>7, <1>9, <2>1
  <2>4. Reception(udp, loop')
    BY <1>4, <1>5, <1>6, <2>1, <2>2, <2>3 DEF Reception
  <2>5. Expected(loop') = Following(udp, loop)
    <3>1. CASE udp.recv = EnumerateConnected
      BY <1>4, <1>5, <1>6, <2>1, <3>1 DEF Expected, Following
    <3>2. CASE udp.recv # EnumerateConnected
      <4>1. got # <<EnumerateConnected>>
        BY <2>1, <3>2
      <4>2. QED
        BY <1>4, <1>6, <2>2, <3>2, <4>1 DEF Expected, Following
    <3>3. QED
      BY <3>1, <3>2
  <2>6. QED
    BY <2>4, <2>5
<1>10. ASSUME Full(first), loop.got = <<first>>
       PROVE  Reception(udp, loop') /\ Expected(loop') = Following(udp, loop)
  <2>1. loop.got # <<>> /\ <<first>> # <<EnumerateConnected>>
    <3>1. first # EnumerateConnected
      BY <1>1 DEF First, InStep, EnumerateConnected, LoopRecord
    <3>2. QED
      BY <1>10, <3>1
  <2>2. LastOf(loop) = first
    BY <1>10, LastOfTuple
  <2>3. /\ Expected(loop) = After(first) /\ udp.recv = After(first)
        /\ loop.length = 64
    BY <1>7, <1>10, <2>1, <2>2 DEF Expected
  <2> HIDE DEF first
  <2>4. got = <<first, After(first)>>
    <3>1. first \in OutPacket /\ After(first) \in OutPacket
      BY <1>1, <1>10, <2>3, ElementOfSeq, LenProperties DEF Fifo
    <3>2. Append(<<first>>, After(first)) = <<first, After(first)>>
      BY <3>1, AppendOne
    <3>3. QED
      BY <1>10, <2>3, <3>2
  <2>5. LastOf(loop') = udp.recv /\ Len(got) = 2 /\ got # <<>>
        /\ got # <<EnumerateConnected>>
    BY <1>4, <2>3, <2>4, LastOfTuple
  <2> HIDE DEF got
  <2>6. Reception(udp, loop')
    BY <1>4, <1>5, <1>6, <1>10, <2>3, <2>4, <2>5 DEF Reception
  <2>7. Expected(loop') = Following(udp, loop)
    BY <1>4, <1>6, <1>8, <2>3, <2>5 DEF Expected, Following
  <2>8. QED
    BY <2>6, <2>7
<1>11. Reception(udp, loop') /\ Expected(loop') = Following(udp, loop)
  BY <1>7, <1>9, <1>10
<1>12. Stream(udp, host, loop')
  BY <1>1, <1>6, <1>11 DEF Flows, Stream, Following
<1>13. Calm(udp, host, loop')
  <2>1. Underway(udp, host, loop') => Underway(udp, host, loop)
    BY <1>1, <1>4, AppendNotLong DEF Underway
  <2>2. QED
    BY <1>1, <2>1 DEF Flows, Calm
<1>14. QED
  BY <1>2, <1>4, <1>11, <1>12, <1>13 DEF FlowInv, Flows

\* com_message_loop looks whether the message is whole.
LEMMA DoneFlows ==
  ASSUME BankInv, FlowInv, RecvDone
  PROVE  FlowInv' /\ loop'.routes = loop.routes
<1> DEFINE first == First(loop)
           received == loop.length + Bytes(loop.got[Len(loop.got)])
<1>1. /\ udp \in DeviceRecord /\ loop \in LoopRecord /\ Flows(udp, host, loop)
      /\ Reception(udp, loop)
  BY DEF BankInv, Good, FlowInv, Flows
<1>2. /\ loop.pc = "armed" /\ udp' = [udp EXCEPT !.recv = NoData] /\ host' = host
      /\ \E length \in HeaderLengths(loop.got[1]) :
           loop' = [loop EXCEPT !.pc = IF received < length THEN "call" ELSE "route",
                                !.length = received]
  BY DEF RecvDone
<1>3. received \in Nat
  BY <1>1 DEF LoopRecord, Bytes
<1>4. /\ loop' \in LoopRecord
      /\ loop'.got = loop.got /\ loop'.routed = loop.routed
      /\ loop'.length = received
      /\ \E length \in HeaderLengths(loop.got[1]) :
           loop'.pc = IF received < length THEN "call" ELSE "route"
  BY <1>1, <1>2, <1>3 DEF LoopRecord, LoopStates
<1>5. /\ LastOf(loop') = LastOf(loop) /\ First(loop') = first
      /\ Expected(loop') = Expected(loop)
      /\ ~Pending(udp, loop) /\ ~Pending(udp', loop')
  BY <1>1, <1>2, <1>4 DEF LastOf, First, Expected, Pending, DeviceRecord
<1>6. /\ udp'.recv = NoData
      /\ udp'.rx = udp.rx /\ udp'.events = udp.events
      /\ udp'.deviceState = udp.deviceState /\ udp'.stall = udp.stall
      /\ udp'.resumeSeen = udp.resumeSeen /\ udp'.csr = udp.csr
      /\ udp'.configurationSeen = udp.configurationSeen
      /\ udp'.firstConnection = udp.firstConnection
  BY <1>1, <1>2 DEF DeviceRecord
<1>7. /\ loop.got # <<>>
      /\ loop.length = IF Len(loop.got) = 1 THEN 0 ELSE 64
  BY <1>1, <1>2 DEF Reception
<1>8. first \in OutPacket /\ first.part = 1 /\ first.msg > 0
  BY <1>1 DEF First, InStep, OutPacket, LoopRecord
<1>9. \/ /\ loop.got \in {<<EnumerateConnected>>, <<first>>}
         /\ ~(Full(first) /\ loop.got = <<first>>)
         /\ loop'.pc = "route"
      \/ /\ Full(first) /\ loop.got = <<first>>
         /\ loop'.pc = "call" /\ received = 64
      \/ /\ Full(first) /\ loop.got = <<first, After(first)>>
         /\ loop'.pc = "route"
  <2> HIDE DEF first
  <2>1. CASE loop.got = <<EnumerateConnected>>
    <3>1. Len(loop.got) = 1 /\ loop.got[1] = EnumerateConnected
      BY <2>1
    <3>2. EnumerateConnected.msg \notin Long /\ EnumerateConnected.part = 1
      BY UsbDeviceAssumption DEF EnumerateConnected
    <3>3. /\ received = 8 /\ HeaderLengths(loop.got[1]) = {8}
      BY <1>7, <3>1, <3>2 DEF Bytes, Full, HeaderLengths
    <3>4. first # EnumerateConnected
      BY <1>8 DEF EnumerateConnected
    <3>5. QED
      BY <1>4, <2>1, <3>3, <3>4
  <2>2. CASE loop.got = <<first>>
    <3>1. Len(loop.got) = 1 /\ loop.got[1] = first
      BY <2>2
    <3>2. CASE Full(first)
      <4>1. /\ received = 64 /\ HeaderLengths(loop.got[1]) = {80}
        BY <1>7, <1>8, <3>1, <3>2 DEF Bytes, Full, HeaderLengths
      <4>2. QED
        BY <1>4, <2>2, <3>2, <4>1
    <3>3. CASE ~Full(first)
      <4>1. /\ received = 8 /\ HeaderLengths(loop.got[1]) = {8}
        BY <1>7, <1>8, <3>1, <3>3 DEF Bytes, Full, HeaderLengths
      <4>2. QED
        BY <1>4, <2>2, <3>3, <4>1
    <3>4. QED
      BY <3>2, <3>3
  <2>3. CASE Full(first) /\ loop.got = <<first, After(first)>>
    <3> DEFINE second == After(first)
    <3>1. second = [msg |-> first.msg, part |-> 2]
      BY <1>8, <2>3, AfterFacts
    <3> HIDE DEF second
    <3>2. Len(loop.got) = 2 /\ loop.got[1] = first /\ loop.got[2] = second
      BY <2>3 DEF second
    <3>3. /\ received = 80 /\ HeaderLengths(loop.got[1]) = {80}
      BY <1>7, <1>8, <2>3, <3>1, <3>2 DEF Bytes, Full, HeaderLengths
    <3>4. QED
      BY <1>4, <2>3, <3>3
  <2>4. QED
    BY <1>1, <1>7, <2>1, <2>2, <2>3 DEF Reception, first
<1> HIDE DEF first, received
<1>10. Reception(udp', loop')
  BY <1>1, <1>4, <1>5, <1>7, <1>9 DEF Reception
<1>11. Stream(udp', host, loop')
  BY <1>1, <1>5, <1>6 DEF Flows, Stream, Following
<1>12. Calm(udp', host, loop')
  <2>1. NoData.msg \notin Long
    BY UsbDeviceAssumption DEF NoData
  <2>2. Underway(udp', host, loop') => Underway(udp, host, loop)
    BY <1>4, <1>6, <2>1 DEF Underway
  <2>3. QED
    BY <1>1, <1>6, <2>2 DEF Flows, Calm
<1>13. loop'.routes = loop.routes
  BY <1>1, <1>2 DEF LoopRecord
<1>14. QED
  BY <1>2, <1>4, <1>10, <1>11, <1>12, <1>13 DEF FlowInv, Flows

\* com_message_loop routes what it has: the next message of the PC, or the
\* Brick's own request.
LEMMA RouteFlows ==
  ASSUME BankInv, FlowInv, Route
  PROVE  /\ FlowInv'
         /\ \/ loop'.last = loop.routed + 1
            \/ loop'.last = EnumerateConnected.msg
<1> DEFINE first == First(loop)
           second == After(first)
           head == loop.got[1]
           whole == loop.got = [part \in 1..Parts(head.msg) |->
                                  [msg |-> head.msg, part |-> part]]
           msg == IF whole THEN head.msg ELSE NotAMessage
           routed == IF msg > 0 THEN msg ELSE loop.routed
<1>1. /\ udp \in DeviceRecord /\ loop \in LoopRecord /\ Flows(udp, host, loop)
      /\ Reception(udp, loop) /\ loop.routed \in Nat /\ loop.routes \in Bit
  BY DEF BankInv, Good, FlowInv, Flows, LoopRecord
<1>2. /\ loop.pc = "route" /\ UNCHANGED <<udp, host>>
      /\ loop' = [loop EXCEPT !.pc = "yielded", !.got = <<>>, !.length = 0,
                              !.last = msg, !.routed = routed,
                              !.routes = 1 - @]
  BY DEF Route
<1>3. /\ first = [msg |-> loop.routed + 1, part |-> 1]
      /\ Full(first) <=> loop.routed + 1 \in Long
  BY DEF First, InStep, Full
<1>4. \/ loop.got = <<EnumerateConnected>>
      \/ loop.got = <<first>> /\ ~Full(first)
      \/ loop.got = <<first, second>> /\ Full(first)
  BY <1>1, <1>2 DEF Reception
<1>5. \/ /\ loop.got = <<EnumerateConnected>>
         /\ msg = -1
      \/ /\ loop.got = <<first>> /\ ~Full(first)
         /\ msg = loop.routed + 1
      \/ /\ loop.got = <<first, second>> /\ Full(first)
         /\ msg = loop.routed + 1
  <2>1. CASE loop.got = <<EnumerateConnected>>
    <3>1. head = EnumerateConnected
      BY <2>1
    <3>2. Parts(head.msg) = 1
      BY <3>1, UsbDeviceAssumption DEF Parts, EnumerateConnected
    <3>3. [part \in 1..Parts(head.msg) |-> [msg |-> head.msg, part |-> part]]
            = <<[msg |-> head.msg, part |-> 1]>>
      BY <3>2
    <3>4. QED
      BY <2>1, <3>1, <3>3 DEF EnumerateConnected
  <2>2. CASE loop.got = <<first>> /\ ~Full(first)
    <3>1. head = first
      BY <2>2
    <3>2. Parts(head.msg) = 1
      BY <1>3, <2>2, <3>1 DEF Parts
    <3>3. [part \in 1..Parts(head.msg) |-> [msg |-> head.msg, part |-> part]]
            = <<[msg |-> head.msg, part |-> 1]>>
      BY <3>2
    <3>4. QED
      BY <1>3, <2>2, <3>1, <3>3
  <2>3. CASE loop.got = <<first, second>> /\ Full(first)
    <3>1. head = first
      BY <2>3
    <3>2. Parts(head.msg) = 2
      BY <1>3, <2>3, <3>1 DEF Parts
    <3>3. second = [msg |-> first.msg, part |-> 2]
      BY <1>3, <2>3 DEF After
    <3>4. [part \in 1..Parts(head.msg) |-> [msg |-> head.msg, part |-> part]]
            = <<[msg |-> head.msg, part |-> 1], [msg |-> head.msg, part |-> 2]>>
      BY <3>2
    <3>5. QED
      BY <1>3, <2>3, <3>1, <3>3, <3>4
  <2>4. QED
    BY <1>4, <2>1, <2>2, <2>3
<1>6. /\ msg \in Int /\ routed \in Nat
      /\ routed = IF loop.got = <<EnumerateConnected>> THEN loop.routed
                  ELSE loop.routed + 1
      /\ msg = loop.routed + 1 \/ msg = EnumerateConnected.msg
  <2>1. first # EnumerateConnected
    BY <1>1, <1>3 DEF EnumerateConnected
  <2>2. <<first>> # <<EnumerateConnected>>
        /\ <<first, second>> # <<EnumerateConnected>>
    BY <2>1
  <2> HIDE DEF msg, first, second
  <2>3. QED
    BY <1>1, <1>5, <2>2 DEF EnumerateConnected
<1> HIDE DEF msg, routed
<1>7. /\ loop' \in LoopRecord
      /\ loop'.pc = "yielded" /\ loop'.got = <<>> /\ loop'.length = 0
      /\ loop'.last = msg /\ loop'.routed = routed
  <2>1. "yielded" \in LoopStates /\ <<>> \in Fifo /\ 1 - loop.routes \in Bit
    BY <1>1 DEF LoopStates, Fifo, Bit
  <2>2. QED
    BY <1>1, <1>2, <1>6, <2>1 DEF LoopRecord
<1>8. Expected(loop') = Expected(loop)
  <2>1. Expected(loop') = InStep(routed + 1)
    BY <1>7 DEF Expected, First
  <2>2. CASE loop.got = <<EnumerateConnected>>
    BY <1>6, <2>1, <2>2 DEF Expected, First
  <2>3. CASE loop.got = <<first>> /\ ~Full(first)
    <3>1. LastOf(loop) = first
      BY <2>3, LastOfTuple
    <3>2. <<first>> # <<EnumerateConnected>>
      BY <1>1, <1>3 DEF EnumerateConnected
    <3>3. Expected(loop) = InStep(loop.routed + 1 + 1)
      BY <1>3, <2>3, <3>1, <3>2 DEF Expected, After
    <3>4. QED
      BY <1>6, <2>1, <2>3, <3>2, <3>3
  <2>4. CASE loop.got = <<first, second>> /\ Full(first)
    <3>1. LastOf(loop) = second
      BY <2>4, LastOfTuple
    <3>2. second = [msg |-> loop.routed + 1, part |-> 2]
      BY <1>3, <2>4 DEF After
    <3>3. ~Full(second) /\ second.msg = loop.routed + 1
      BY <3>2 DEF Full
    <3>4. loop.got # <<EnumerateConnected>> /\ loop.got # <<>>
      BY <2>4
    <3> HIDE DEF second
    <3>5. Expected(loop) = InStep(loop.routed + 1 + 1)
      BY <3>1, <3>3, <3>4 DEF Expected, After
    <3>6. QED
      BY <1>6, <2>1, <3>4, <3>5
  <2>5. QED
    BY <1>4, <2>2, <2>3, <2>4
<1>9. Pending(udp, loop') <=> Pending(udp, loop)
  BY <1>2, <1>7 DEF Pending
<1>10. Reception(udp, loop')
  BY <1>1, <1>2, <1>7, <1>8, <1>9 DEF Reception
<1>11. Stream(udp, host, loop')
  BY <1>1, <1>8, <1>9 DEF Flows, Stream, Following
<1>12. Calm(udp, host, loop')
  BY <1>1, <1>7, EmptyNotLong DEF Flows, Calm, Underway
<1>13. QED
  BY <1>2, <1>6, <1>7, <1>10, <1>11, <1>12 DEF FlowInv, Flows

-----------------------------------------------------------------------------
(* The Brick's own request, and the PC.                                    *)

\* With no message of two packets on its way the bus may do what it likes.
LEMMA QuietFlows ==
  ASSUME NEW h, NEW l, NEW d, NEW g, NEW e, Flows(d, h, l), ~Underway(d, h, l),
         e.rx = d.rx, e.recv = d.recv, g.next = h.next,
         "FORCESTALL" \in e.stall => "FORCESTALL" \in d.stall,
         "RXSETUP" \in e.csr /\ g.request \in Disturbing => e.rx = <<>>
  PROVE  Flows(e, g, l)
BY DEF Flows, Reception, Stream, Calm, Underway, Pending, Following

\* What the PC does at the default endpoint leaves them alone.
LEMMA ControlFlows ==
  ASSUME NEW h, NEW l, NEW d, NEW g, NEW e, Flows(d, h, l),
         e.rx = d.rx, e.recv = d.recv, e.events = d.events,
         e.deviceState = d.deviceState, e.resumeSeen = d.resumeSeen,
         e.configurationSeen = d.configurationSeen,
         e.firstConnection = d.firstConnection,
         "FORCESTALL" \in e.stall => "FORCESTALL" \in d.stall,
         g.next = h.next, g.bus = h.bus, h.configured => g.configured,
         \/ g.request \notin Disturbing
         \/ "RXSETUP" \notin e.csr
         \/ g.request = h.request /\ "RXSETUP" \in d.csr
  PROVE  Flows(e, g, l)
BY DEF Flows, Reception, Stream, Calm, Underway, Pending, Following

\* Nothing is on its way when the PC has found it so.
LEMMA BetweenIsQuiet ==
  ASSUME BetweenMessages
  PROVE  ~Underway(udp, host, loop)
BY EmptyNotLong, UsbDeviceAssumption DEF BetweenMessages, Underway, NoData

\* The Brick asks itself for an enumeration, or counts for the wake-up.
LEMMA TicksFlow ==
  ASSUME BankInv, FlowInv, FirstConnection \/ WakeUpCounter
  PROVE  FlowInv'
<1>1. /\ udp \in DeviceRecord /\ host \in HostRecord /\ loop \in LoopRecord
      /\ Flows(udp, host, loop) /\ Reception(udp, loop)
  BY DEF BankInv, Good, FlowInv, Flows
<1>2. CASE WakeUpCounter
  <2>1. /\ udp'.rx = udp.rx /\ udp'.recv = udp.recv /\ udp'.events = udp.events
        /\ udp'.deviceState = udp.deviceState /\ udp'.csr = udp.csr
        /\ udp'.resumeSeen = udp.resumeSeen /\ udp'.stall = udp.stall
        /\ udp'.configurationSeen = udp.configurationSeen
        /\ udp'.firstConnection = udp.firstConnection
    BY <1>1, <1>2 DEF WakeUpCounter, DeviceRecord
  <2>2. /\ host'.next = host.next /\ host'.bus = host.bus
        /\ host'.configured = host.configured /\ host'.request = host.request
    BY <1>1, <1>2 DEF WakeUpCounter, HostRecord
  <2>3. Flows(udp', host', loop)
    BY <1>1, <2>1, <2>2, ControlFlows
  <2>4. QED
    BY <1>1, <1>2, <2>3 DEF FlowInv, WakeUpCounter
<1>3. CASE FirstConnection /\ udp.recv # NoData
  BY <1>1, <1>3 DEF FirstConnection, AddEnumerateConnected, FlowInv
<1>4. CASE FirstConnection /\ udp.recv = NoData
  <2>1. /\ udp'.rx = udp.rx /\ udp'.recv = EnumerateConnected
        /\ udp'.events = udp.events /\ udp'.stall = udp.stall
        /\ udp'.deviceState = udp.deviceState /\ udp'.csr = udp.csr
        /\ ~udp'.firstConnection
    BY <1>1, <1>4 DEF FirstConnection, AddEnumerateConnected, DeviceRecord
  <2>2. /\ host' = host /\ loop' = loop /\ loop.pc = "yielded"
    BY <1>4 DEF FirstConnection
  <2>3. ~Underway(udp, host, loop)
    BY <1>1, <1>4 DEF FirstConnection, Flows, Calm
  <2>4. loop.got = <<>>
    <3>1. ASSUME Full(First(loop)), loop.got = <<First(loop)>>
          PROVE  FALSE
      <4>1. Len(loop.got) = 1 /\ loop.got[1] = First(loop)
        BY <3>1
      <4>2. LongIn(loop.got)
        BY <3>1, <4>1 DEF LongIn, Full
      <4>3. QED
        BY <2>3, <4>2 DEF Underway
    <3>2. QED
      BY <1>1, <2>2, <3>1 DEF Reception
  <2>5. /\ ~Pending(udp, loop) /\ Following(udp', loop) = Following(udp, loop)
    BY <1>4, <2>1 DEF Pending, Following
  <2>6. Reception(udp', loop)
    BY <1>1, <2>1, <2>2, <2>4 DEF Reception
  <2>7. Stream(udp', host, loop)
    BY <1>1, <2>1, <2>5 DEF Flows, Stream
  <2>8. ~Underway(udp', host, loop)
    <3>1. EnumerateConnected.msg \notin Long
      BY UsbDeviceAssumption DEF EnumerateConnected
    <3>2. QED
      BY <2>1, <2>3, <3>1 DEF Underway
  <2>9. Calm(udp', host, loop)
    BY <1>1, <2>1, <2>8 DEF Flows, Calm
  <2>10. QED
    BY <1>1, <2>2, <2>6, <2>7, <2>9 DEF FlowInv, Flows
<1>5. QED
  BY <1>2, <1>3, <1>4

\* The bus becomes active, idle, or is reset.
LEMMA BusFlows ==
  ASSUME BankInv, FlowInv, ~Interrupted, HostActive \/ HostSuspends \/ HostResets
  PROVE  FlowInv'
<1>1. /\ udp \in DeviceRecord /\ host \in HostRecord /\ loop \in LoopRecord
      /\ Flows(udp, host, loop) /\ loop' = loop
  BY DEF BankInv, Good, FlowInv, HostActive, HostSuspends, HostResets
<1>2. ~Underway(udp, host, loop)
  <2>1. CASE HostActive
    BY <1>1, <2>1 DEF HostActive, Flows, Calm
  <2>2. CASE HostSuspends \/ HostResets
    BY <2>2, BetweenIsQuiet DEF HostSuspends, HostResets
  <2>3. QED
    BY <2>1, <2>2
<1>3. CASE HostActive \/ HostSuspends
  <2>1. /\ udp'.rx = udp.rx /\ udp'.recv = udp.recv
        /\ udp'.stall = udp.stall /\ udp'.csr = udp.csr
    BY <1>1, <1>3 DEF HostActive, HostSuspends, DeviceRecord
  <2>2. host'.next = host.next /\ host'.request = host.request
    BY <1>1, <1>3 DEF HostActive, HostSuspends, HostRecord
  <2>3. "RXSETUP" \in udp.csr /\ host.request \in Disturbing => udp.rx = <<>>
    BY <1>1 DEF Flows, Calm
  <2>4. Flows(udp', host', loop)
    BY <1>1, <1>2, <2>1, <2>2, <2>3, QuietFlows
  <2>5. QED
    BY <1>1, <2>4 DEF FlowInv
<1>4. CASE HostResets
  <2>1. BetweenMessages
    BY <1>4 DEF HostResets
  <2>2. /\ udp'.rx = udp.rx /\ udp'.recv = udp.recv
        /\ udp'.stall = {} /\ udp'.csr = {}
    BY <1>1, <1>4, <2>1 DEF HostResets, BetweenMessages, DeviceRecord
  <2>3. host'.next = host.next
    BY <1>1, <1>4, <2>1 DEF HostResets, BetweenMessages, HostRecord
  <2>4. Flows(udp', host', loop)
    BY <1>1, <1>2, <2>2, <2>3, QuietFlows
  <2>5. QED
    BY <1>1, <2>4 DEF FlowInv
<1>5. QED
  BY <1>3, <1>4

\* The PC makes a request: one that changes the endpoint between messages.
LEMMA SetupFlows ==
  ASSUME BankInv, FlowInv, ~Interrupted, NEW request \in AllRequests,
         HostSetup(request)
  PROVE  FlowInv'
<1>1. /\ udp \in DeviceRecord /\ host \in HostRecord /\ loop \in LoopRecord
      /\ Flows(udp, host, loop) /\ loop' = loop
  BY DEF BankInv, Good, FlowInv, HostSetup
<1>2. /\ udp'.rx = udp.rx /\ udp'.recv = udp.recv /\ udp'.events = udp.events
      /\ udp'.deviceState = udp.deviceState
      /\ udp'.resumeSeen = udp.resumeSeen /\ udp'.stall = udp.stall
      /\ udp'.configurationSeen = udp.configurationSeen
      /\ udp'.firstConnection = udp.firstConnection
  BY <1>1 DEF HostSetup, DeviceRecord
<1>3. /\ host'.next = host.next /\ host'.bus = host.bus
      /\ host'.configured = host.configured /\ host'.request = request
  BY <1>1 DEF HostSetup, HostRecord
<1>4. CASE request \in Disturbing
  <2>1. BetweenMessages
    BY <1>4 DEF HostSetup, Sensible, Disturbing
  <2>2. ~Underway(udp, host, loop) /\ udp.rx = <<>>
    BY <2>1, BetweenIsQuiet DEF BetweenMessages
  <2>3. Flows(udp', host', loop)
    BY <1>1, <1>2, <1>3, <2>2, QuietFlows
  <2>4. QED
    BY <1>1, <2>3 DEF FlowInv
<1>5. CASE request \notin Disturbing
  <2>1. Flows(udp', host', loop)
    BY <1>1, <1>2, <1>3, <1>5, ControlFlows
  <2>2. QED
    BY <1>1, <2>1 DEF FlowInv
<1>6. QED
  BY <1>4, <1>5

\* A request is done.
LEMMA AnswersFlow ==
  ASSUME BankInv, FlowInv, HostAnswers
  PROVE  FlowInv'
<1>1. /\ udp \in DeviceRecord /\ host \in HostRecord /\ loop \in LoopRecord
      /\ Flows(udp, host, loop) /\ loop' = loop /\ Control(udp, host)
  BY DEF BankInv, Good, FlowInv, HostAnswers, HostTakes0, HostStatus, HostStalled0
<1>2. /\ udp'.rx = udp.rx /\ udp'.recv = udp.recv /\ udp'.events = udp.events
      /\ udp'.deviceState = udp.deviceState
      /\ udp'.resumeSeen = udp.resumeSeen /\ udp'.stall = udp.stall
      /\ udp'.configurationSeen = udp.configurationSeen
      /\ udp'.firstConnection = udp.firstConnection
      /\ "RXSETUP" \in udp'.csr => "RXSETUP" \in udp.csr
  <2>1. CASE HostTakes0
    BY <1>1, <2>1 DEF HostTakes0, DeviceRecord
  <2>2. CASE HostStatus
    BY <1>1, <2>2 DEF HostStatus, DeviceRecord
  <2>3. CASE HostStalled0
    BY <1>1, <2>3 DEF HostStalled0, DeviceRecord
  <2>4. QED
    BY <2>1, <2>2, <2>3 DEF HostAnswers
<1>3. /\ host'.next = host.next /\ host'.bus = host.bus
      /\ host.configured => host'.configured
      /\ "RXSETUP" \notin udp.csr \/ host'.request \notin Disturbing
  <2>1. CASE HostStalled0
    BY <1>1, <2>1 DEF HostStalled0, HostRecord, Disturbing
  <2>2. CASE host' = Done(host) /\ host.request # "UNCONFIG"
    <3>1. Done(host).request = "none"
      BY <1>1 DEF Done, HostRecord
    <3>2. QED
      BY <1>1, <2>2, <3>1, DoneFacts DEF Disturbing
  <2>3. CASE /\ host.request = "DESCRIPTOR"
             /\ host' \in {host, [host EXCEPT !.phase = "status"]}
    BY <1>1, <2>3 DEF HostRecord, Disturbing
  <2>4. QED
    BY <1>1, <2>1, <2>2, <2>3
       DEF HostAnswers, HostTakes0, HostStatus, Control
<1>4. Flows(udp', host', loop)
  BY <1>1, <1>2, <1>3, ControlFlows
<1>5. QED
  BY <1>1, <1>4 DEF FlowInv

\* The PC sends the next packet, or finds the endpoint halted.
LEMMA OutFlows ==
  ASSUME BankInv, FlowInv, ~Interrupted, HostOut \/ HostOutStalled
  PROVE  FlowInv'
<1>1. /\ udp \in DeviceRecord /\ host \in HostRecord /\ loop \in LoopRecord
      /\ Flows(udp, host, loop) /\ loop' = loop
  BY DEF BankInv, Good, FlowInv, HostOut, HostOutStalled
<1>2. CASE HostOutStalled
  <2>1. /\ udp'.rx = udp.rx /\ udp'.recv = udp.recv /\ udp'.events = udp.events
        /\ udp'.deviceState = udp.deviceState /\ udp'.csr = udp.csr
        /\ udp'.resumeSeen = udp.resumeSeen
        /\ udp'.configurationSeen = udp.configurationSeen
        /\ udp'.firstConnection = udp.firstConnection
        /\ "FORCESTALL" \in udp.stall /\ host' = host
    BY <1>1, <1>2 DEF HostOutStalled, DeviceRecord
  <2>2. Flows(udp', host', loop)
    BY <1>1, <2>1, ControlFlows
  <2>3. QED
    BY <1>1, <2>2 DEF FlowInv
<1>3. CASE HostOut
  <2> DEFINE next == host.next
             following == Following(udp, loop)
  <2>1. /\ host' = [host EXCEPT !.next = After(next)]
        /\ udp' = [udp EXCEPT !.rx = Append(udp.rx, next)]
        /\ Len(udp.rx) < 2 /\ "FORCESTALL" \notin udp.stall
        /\ host.configured /\ host.request \notin Disturbing
        /\ host.bus = "active" /\ udp.events = {} /\ udp.deviceState # "SUSPENDED"
        /\ Full(next) => NoneToCome
    BY <1>3 DEF HostOut, After, Addressed, Attentive
  <2>2. next \in OutPacket /\ udp.rx \in Seq(OutPacket)
    BY <1>1, UsbDeviceAssumption
       DEF HostRecord, NextPackets, OutPacket, DeviceRecord, Fifo
  <2>3. /\ udp'.rx = Append(udp.rx, next) /\ udp'.recv = udp.recv
        /\ udp'.events = udp.events
        /\ udp'.deviceState = udp.deviceState /\ udp'.csr = udp.csr
        /\ udp'.resumeSeen = udp.resumeSeen /\ udp'.stall = udp.stall
        /\ udp'.configurationSeen = udp.configurationSeen
        /\ udp'.firstConnection = udp.firstConnection
    BY <1>1, <2>1 DEF DeviceRecord
  <2>4. /\ host'.next = After(next) /\ host'.bus = host.bus
        /\ host'.configured = host.configured /\ host'.request = host.request
    BY <1>1, <2>1 DEF HostRecord
  <2>5. Reception(udp', loop) /\ Following(udp', loop) = following
    BY <1>1, <2>3 DEF Flows, Reception, Pending, Following
  <2>6. \/ udp.rx = <<>> /\ next = following
        \/ udp.rx = <<following>> /\ next = After(following)
    BY <1>1, <2>1 DEF Flows, Stream
  <2>7. Stream(udp', host', loop)
    <3>1. CASE udp.rx = <<>> /\ next = following
      BY <2>3, <2>4, <2>5, <3>1 DEF Stream
    <3>2. CASE udp.rx = <<following>> /\ next = After(following)
      <4>1. following \in OutPacket
        BY <2>2, <3>2, ElementOfSeq
      <4>2. udp'.rx = <<following, next>>
        BY <2>2, <2>3, <3>2, <4>1, AppendOne
      <4>3. QED
        BY <2>4, <2>5, <3>2, <4>2 DEF Stream
    <3>3. QED
      BY <2>6, <3>1, <3>2
  <2>8. Underway(udp', host', loop) => Underway(udp, host, loop) \/ Full(next)
    <3>1. next.msg \in Long => next.part = 2 \/ Full(next)
      BY <2>2 DEF Full, OutPacket
    <3>2. After(next).part = 2 => Full(next)
      BY DEF After, InStep
    <3>3. LongIn(udp'.rx) => LongIn(udp.rx) \/ next.msg \in Long
      BY <2>2, <2>3, AppendNotLong
    <3>4. QED
      BY <2>3, <2>4, <3>1, <3>2, <3>3 DEF Underway
  <2>9. Calm(udp', host', loop)
    BY <1>1, <2>1, <2>3, <2>4, <2>8 DEF Flows, Calm, NoneToCome
  <2>10. QED
    BY <1>1, <2>5, <2>7, <2>9 DEF FlowInv, Flows
<1>4. QED
  BY <1>2, <1>3

LEMMA FlowStep ==
  ASSUME ~Interrupted, Requests \cap {"UNHALT", "RECONFIG"} = {},
         BankInv, FlowInv, [DeviceNext]_deviceVars
  PROVE  /\ FlowInv'
         /\ loop'.routes # loop.routes
              => \/ loop'.last = loop.routed + 1
                 \/ loop'.last = EnumerateConnected.msg
<1>1. CASE UNCHANGED deviceVars
  BY <1>1 DEF deviceVars, FlowInv
<1>2. CASE Route
  BY <1>2, RouteFlows
<1>3. ASSUME DeviceNext, ~Route
      PROVE  loop'.routes = loop.routes
  <2>1. loop \in LoopRecord
    BY DEF FlowInv
  <2>2. CASE RecvEmpty \/ RecvNothing \/ RecvArm
    BY <2>1, <2>2 DEF LoopRecord, RecvEmpty, RecvNothing, RecvArm
  <2>3. CASE RecvCopy
    BY <2>1, <2>3 DEF LoopRecord, RecvCopy
  <2>4. CASE RecvDone
    BY <2>4, DoneFlows
  <2>5. CASE USBD_IrqHandler
    BY <2>5 DEF USBD_IrqHandler
  <2>6. CASE FirstConnection \/ WakeUpCounter
    BY <2>6, Zenon DEF FirstConnection, WakeUpCounter
  <2>7. CASE HostActive \/ HostSuspends \/ HostResets
    BY <2>7, Zenon DEF HostActive, HostSuspends, HostResets
  <2>8. CASE Configures \/ \E request \in Requests : HostSetup(request)
    BY <2>8, Zenon DEF Configures, HostSetup
  <2>9. CASE HostAnswers \/ HostOut \/ HostOutStalled
    BY <2>9, Zenon DEF HostAnswers, HostTakes0, HostStatus, HostStalled0, HostOut,
                       HostOutStalled
  <2>10. QED
    BY <1>3, <2>2, <2>3, <2>4, <2>5, <2>6, <2>7, <2>8, <2>9 DEF DeviceNext
<1>4. ASSUME DeviceNext, ~Route
      PROVE  FlowInv'
  <2>1. CASE USBD_IrqHandler
    BY <2>1, IrqFlows
  <2>2. CASE RecvEmpty \/ RecvNothing \/ RecvCopy \/ RecvArm \/ RecvDone
    BY <2>2, RecvFlows, CopyFlows, DoneFlows
  <2>3. CASE FirstConnection \/ WakeUpCounter
    BY <2>3, TicksFlow
  <2>4. CASE HostActive \/ HostSuspends \/ HostResets
    BY <2>4, BusFlows
  <2>5. CASE Configures \/ \E request \in Requests : HostSetup(request)
    BY <2>5, SetupFlows DEF Configures, AllRequests
  <2>6. CASE HostAnswers
    BY <2>6, AnswersFlow
  <2>7. CASE HostOut \/ HostOutStalled
    BY <2>7, OutFlows
  <2>8. QED
    BY <1>4, <2>1, <2>2, <2>3, <2>4, <2>5, <2>6, <2>7 DEF DeviceNext
<1>5. QED
  BY <1>1, <1>2, <1>3, <1>4 DEF deviceVars

\* Initially nothing is on its way.
LEMMA FlowStart == DeviceInit => FlowInv
<1> SUFFICES ASSUME DeviceInit PROVE FlowInv
  OBVIOUS
<1>1. /\ loop = [pc |-> "yielded", got |-> <<>>, length |-> 0, routed |-> 0,
                 last |-> 0, routes |-> 0]
      /\ udp.rx = <<>> /\ udp.recv = NoData /\ udp.csr = {} /\ udp.stall = {}
      /\ host.next = InStep(1)
  BY DEF DeviceInit
<1>2. loop \in LoopRecord
  BY <1>1 DEF LoopRecord, LoopStates, Fifo, Bit
<1>3. ~Underway(udp, host, loop)
  BY <1>1, EmptyNotLong, UsbDeviceAssumption DEF Underway, NoData, InStep
<1>4. ~Pending(udp, loop) /\ Expected(loop) = InStep(1)
  BY <1>1 DEF Pending, Expected, First
<1>5. Reception(udp, loop) /\ Stream(udp, host, loop) /\ Calm(udp, host, loop)
  BY <1>1, <1>3, <1>4 DEF Reception, Stream, Calm, Following
<1>6. QED
  BY <1>2, <1>5 DEF FlowInv, Flows

\* com_message_loop routes whole messages, each of the PC's once and in the
\* order they were sent, with the Brick's own request between two of them - as
\* long as nothing comes between the two packets of a message.
THEOREM RoutesInOrder ==
  ASSUME ~Interrupted, Requests \cap {"UNHALT", "RECONFIG"} = {}
  PROVE  DeviceSpec => RoutedInOrder
<1>1. /\ BankInv /\ FlowInv /\ [DeviceNext]_deviceVars
        => BankInv' /\ FlowInv'
  BY BankStep, FlowStep
<1>2. /\ BankInv /\ FlowInv /\ [DeviceNext]_deviceVars
        => [loop'.routes # loop.routes
             => \/ loop'.last = loop.routed + 1
                \/ loop'.last = EnumerateConnected.msg]_deviceVars
  BY FlowStep
<1>3. QED
  BY <1>1, <1>2, BankStart, FlowStart, PTL DEF DeviceSpec, RoutedInOrder

\* The states of the driver, the endpoints, the PC and the message loop are of
\* their sets: the endpoint never has more than its two banks, and
\* com_message_loop never collects more than the two packets of a message.
THEOREM DeviceTypeCorrect ==
  ASSUME ~Interrupted, Requests \cap {"UNHALT", "RECONFIG"} = {}
  PROVE  DeviceSpec => []DeviceTypeOK
<1>1. /\ BankInv /\ FlowInv /\ [DeviceNext]_deviceVars
        => BankInv' /\ FlowInv'
  BY BankStep, FlowStep
<1>2. BankInv /\ FlowInv => DeviceTypeOK
  <2> SUFFICES ASSUME BankInv, FlowInv PROVE DeviceTypeOK
    OBVIOUS
  <2>1. /\ udp.deviceState \in States /\ udp.previous \in Resumable
        /\ udp.ep0 \in Ep0States /\ udp.epIn \in InStates
        /\ udp.epOut \in OutStates /\ udp.imr \in Masks /\ Len(udp.rx) <= 2
        /\ udp.seen \in UpTo2 /\ udp.wakeup \in WakeUps
    <3>1. udp \in DeviceRecord /\ Len(udp.rx) <= 2
      BY DEF BankInv, Good, Fits
    <3>2. QED
      BY <3>1 DEF DeviceRecord
  <2>2. host.next.msg \in 1..MaxSent + 1
    BY DEF BankInv, HostRecord, NextPackets
  <2>3. Len(loop.got) <= 2
    <3> DEFINE first == First(loop)
               second == After(first)
    <3>1. \/ loop.got = <<>> \/ loop.got = <<EnumerateConnected>>
          \/ loop.got = <<first>> \/ loop.got = <<first, second>>
      BY DEF FlowInv, Flows, Reception
    <3> HIDE DEF first, second
    <3>2. /\ Len(<<>>) = 0 /\ Len(<<EnumerateConnected>>) = 1
          /\ Len(<<first>>) = 1 /\ Len(<<first, second>>) = 2
      OBVIOUS
    <3>3. loop.got \in Seq(OutPacket)
      BY DEF FlowInv, LoopRecord, Fifo
    <3>4. Len(loop.got) \in Nat /\ Len(loop.got) \in {0, 1, 2}
      BY <3>1, <3>2, <3>3, LenProperties
    <3>5. \A n \in {0, 1, 2} : n <= 2
      OBVIOUS
    <3>6. QED
      BY <3>4, <3>5, Zenon
  <2>4. QED
    BY <2>1, <2>2, <2>3
       DEF DeviceTypeOK, States, Resumable, Ep0States, InStates, OutStates,
           Masks, UpTo2, WakeUps
<1>3. QED
  BY <1>1, <1>2, BankStart, FlowStart, PTL DEF DeviceSpec

-----------------------------------------------------------------------------
(* Both halves.                                                            *)

\* Both halves of the connection keep their types: the driver's, the
\* endpoints', the PC's and the message loop's states are those the code and
\* the bus give them.
THEOREM UsbTypeCorrect ==
  ASSUME ~Interrupted, Requests \cap {"UNHALT", "RECONFIG"} = {}
  PROVE  UsbSpec => []UsbTypeOK
<1>1. UsbInit => Init /\ DeviceInit
  BY DEF UsbInit
<1>2. [UsbNext]_UsbVars => [Next]_vars
  BY DEF UsbNext, UsbVars
<1>3. [UsbNext]_UsbVars => [DeviceNext]_deviceVars
  BY DEF UsbNext, UsbVars
<1>4. TypeOK /\ DeviceTypeOK => UsbTypeOK
  BY DEF UsbTypeOK
<1>5. QED
  BY <1>1, <1>2, <1>3, <1>4, SendTypeCorrect, DeviceTypeCorrect, PTL
     DEF UsbSpec, Spec, DeviceSpec
=============================================================================
