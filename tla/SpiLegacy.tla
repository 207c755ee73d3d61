----------------------------- MODULE SpiLegacy ------------------------------
(***************************************************************************)
(* com/spi/spi_stack without DMA: spi_stack_common.c, spi_stack_master.c   *)
(* and spi_stack_slave.c.  Master and slave exchange one message in each   *)
(* direction byte by byte, both with their interrupts switched off, and    *)
(* tell each other in a last byte whether the checksum was right.  There   *)
(* is no sequence number: both must reach the same verdict.                *)
(*                                                                         *)
(* A whole exchange is one action, since neither side does anything else   *)
(* until it is over.  Its damage is the input: a byte of the data, or the  *)
(* verdict at the end.  Left out are a checksum that is right by chance    *)
(* and a damaged length, after which the sides wait for different numbers  *)
(* of bytes.                                                               *)
(***************************************************************************)
EXTENDS Integers, Sequences

CONSTANTS
  LgSlaves,      \* com_info.last_stack_address: the slaves are 1..LgSlaves
  LgMaxSent,     \* bound: messages of each sender
  LgMaxDamage,   \* bound: damaged exchanges
  LgAckDamage    \* may the last byte be damaged, too?

ASSUME LegacyAssumption ==
  /\ LgSlaves \in Nat \ {0}
  /\ LgMaxSent \in Nat
  /\ LgMaxDamage \in Nat
  /\ LgAckDamage \in BOOLEAN

LgStack == 1..LgSlaves

\* A message is <<slave, number>>: which slave it is for or from, and how many
\* came before it in that direction.
NoData == <<0, 0>>   \* spi_stack_buffer_size_send or _recv is 0

VARIABLES
  lgSend,      \* spi_stack_buffer_send of the master (0) and of each slave
  lgRecv,      \* spi_stack_buffer_recv of each
  lgTo,        \* spi_stack_send_to, -1 if routing has to find the slave
  lgCurrent,   \* com_info.current # COM_NONE
  lgListens,   \* slave: the interrupt RDRF is enabled
  lgTurn,      \* sa_counter
  lgDamage,    \* exchanges damaged so far
  lgSent,      \* history: messages a side accepted for the other, oldest first
  lgGot        \* history: messages a side handed to its message loop

lgVars == <<lgSend, lgRecv, lgTo, lgCurrent, lgListens, lgTurn, lgDamage, lgSent, lgGot>>

LgNodes == {0} \cup LgStack

LgInit ==
  /\ lgSend = [n \in LgNodes |-> NoData]
  /\ lgRecv = [n \in LgNodes |-> NoData]
  /\ lgTo = -1
  /\ lgCurrent = FALSE
  /\ lgListens = [s \in LgStack |-> TRUE]
  /\ lgTurn = 1
  /\ lgDamage = 0
  /\ lgSent = [d \in {"down", "up"} |-> [s \in LgStack |-> 0]]
  /\ lgGot = [d \in {"down", "up"} |-> [s \in LgStack |-> <<>>]]

\* spi_stack_send at the master: *options names the slave or leaves it open.
LgMasterSend(s, options) ==
  /\ lgSend[0] = NoData
  /\ lgSent["down"][s] < LgMaxSent
  /\ lgTo' = IF options \in LgStack THEN options ELSE -1
  /\ lgSend' = [lgSend EXCEPT ![0] = <<s, lgSent["down"][s] + 1>>]
  /\ lgSent' = [lgSent EXCEPT !["down"][s] = @ + 1]
  /\ UNCHANGED <<lgRecv, lgCurrent, lgListens, lgTurn, lgDamage, lgGot>>

\* spi_stack_send at a slave.
LgSlaveSend(s) ==
  /\ lgSend[s] = NoData
  /\ lgSent["up"][s] < LgMaxSent
  /\ lgSend' = [lgSend EXCEPT ![s] = <<s, lgSent["up"][s] + 1>>]
  /\ lgSent' = [lgSent EXCEPT !["up"][s] = @ + 1]
  /\ UNCHANGED <<lgRecv, lgTo, lgCurrent, lgListens, lgTurn, lgDamage, lgGot>>

\* What can go wrong in an exchange: the data of one or both directions, and
\* what a side reads as the verdict of the other.
LgFaults ==
  LET data == [down : BOOLEAN, up : BOOLEAN, ackDown : {FALSE}, ackUp : {FALSE}]
      acks == [down : {FALSE}, up : {FALSE}, ackDown : BOOLEAN, ackUp : BOOLEAN]
  IN IF LgAckDamage THEN data \cup acks ELSE data

NoFault == [down |-> FALSE, up |-> FALSE, ackDown |-> FALSE, ackUp |-> FALSE]

\* Mutant: a side believes its own checksum alone.
OwnVerdictOnly(own, other) == own

\* Both sides free and store a message only if both checksums were right.
Agreed(own, other) == own /\ other

\* Mutant: a slave listens again although its buffer is not yet read.
ListensAlways(s, recv) == TRUE

\* The slave listens for the next exchange only with an empty buffer.
ListensAfter(s, recv) == recv = NoData

\* The verdict of one side is whether its own checksum was right, that of the
\* other side is what it reads at the end: at the master, and in SPI_IrqHandler.
MasterStores(fault) ==
  Agreed(~fault.up, IF fault.ackUp THEN fault.down ELSE ~fault.down)

SlaveStores(fault) ==
  Agreed(~fault.down, IF fault.ackDown THEN fault.up ELSE ~fault.up)

\* spi_stack_master_transceive with slave s and, in lock step, SPI_IrqHandler
\* of the slave.  Nobody answers the preamble of a slave that does not listen.
\* Nothing is exchanged after the lengths if both are 0.
LgExchange(s, fault) ==
  LET exchanges == lgListens[s] /\ (lgSend[0] # NoData \/ lgSend[s] # NoData)
      stores(n) == IF n = 0 THEN MasterStores(fault) ELSE SlaveStores(fault)
      emptied == {n \in {0, s} : exchanges /\ stores(n)}
      other(n) == IF n = 0 THEN s ELSE 0
  IN /\ lgSend' = [n \in LgNodes |-> IF n \in emptied THEN NoData ELSE lgSend[n]]
     /\ lgRecv' = [n \in LgNodes |->
                     IF n \in emptied THEN lgSend[other(n)] ELSE lgRecv[n]]
     /\ lgListens' = IF exchanges
                     THEN [lgListens EXCEPT ![s] = ListensAfter(s, lgRecv'[s])]
                     ELSE lgListens
     /\ \/ fault = NoFault /\ UNCHANGED lgDamage
        \/ /\ fault # NoFault /\ exchanges
           /\ lgDamage < LgMaxDamage
           /\ lgDamage' = lgDamage + 1

\* One turn of spi_stack_master_state_machine_loop: poll the slaves in turn, or
\* send to the one the message is for; routing_route_stack_to finds it.
LgMasterTurn ==
  /\ lgRecv[0] = NoData
  /\ lgCurrent
  /\ LET s == IF lgSend[0] = NoData THEN lgTurn
              ELSE IF lgTo \in LgStack THEN lgTo ELSE lgSend[0][1]
     IN /\ \E fault \in LgFaults : LgExchange(s, fault)
        /\ IF lgSend[0] = NoData
           THEN /\ lgTurn' = IF lgTurn = LgSlaves THEN 1 ELSE lgTurn + 1
                /\ UNCHANGED lgTo
           ELSE /\ lgTo' = s
                /\ UNCHANGED lgTurn
  /\ UNCHANGED <<lgCurrent, lgSent, lgGot>>

\* spi_stack_recv and the message loop of the master.
LgMasterRecv ==
  /\ lgRecv[0] # NoData
  /\ lgGot' = [lgGot EXCEPT !["up"][lgRecv[0][1]] = Append(@, lgRecv[0])]
  /\ lgRecv' = [lgRecv EXCEPT ![0] = NoData]
  /\ UNCHANGED <<lgSend, lgTo, lgCurrent, lgListens, lgTurn, lgDamage, lgSent>>

\* The message loop of slave s; spi_stack_slave_message_loop_return switches
\* the interrupt on again before it routes the message.
LgSlaveRecv(s) ==
  /\ lgRecv[s] # NoData
  /\ lgGot' = [lgGot EXCEPT !["down"][s] = Append(@, lgRecv[s])]
  /\ lgRecv' = [lgRecv EXCEPT ![s] = NoData]
  /\ lgListens' = [lgListens EXCEPT ![s] = ListensAfter(s, lgRecv'[s])]
  /\ UNCHANGED <<lgSend, lgTo, lgCurrent, lgTurn, lgDamage, lgSent>>

\* The first message of a PC or a Brick sets com_info.current.
LgPcSpeaks ==
  /\ ~lgCurrent
  /\ lgCurrent' = TRUE
  /\ UNCHANGED <<lgSend, lgRecv, lgTo, lgListens, lgTurn, lgDamage, lgSent, lgGot>>

LgNext ==
  \/ LgPcSpeaks
  \/ \E s \in LgStack : \E options \in {-1, s} : LgMasterSend(s, options)
  \/ \E s \in LgStack : LgSlaveSend(s) \/ LgSlaveRecv(s)
  \/ LgMasterTurn
  \/ LgMasterRecv

LgSpec == LgInit /\ [][LgNext]_lgVars

-----------------------------------------------------------------------------
(* Properties.                                                             *)

LgTypeOK ==
  LET Message == {NoData} \cup (LgStack \X (1..LgMaxSent))
  IN /\ lgSend \in [LgNodes -> Message]
     /\ lgRecv \in [LgNodes -> Message]
     /\ lgTo \in {-1} \cup LgStack
     /\ lgCurrent \in BOOLEAN
     /\ lgListens \in [LgStack -> BOOLEAN]
     /\ lgTurn \in LgStack
     /\ lgDamage \in 0..LgMaxDamage
     /\ lgSent \in [{"down", "up"} -> [LgStack -> 0..LgMaxSent]]
     /\ lgGot \in [{"down", "up"} -> [LgStack -> Seq(Message)]]

\* The message in a buffer, if it belongs to slave s.
InBuffer(m, s) == IF m[1] = s THEN <<m>> ELSE <<>>

Accepted(d, s) == [i \in 1..lgSent[d][s] |-> <<s, i>>]

\* The handshake without sequence numbers of spi_stack_master_transceive and
\* SPI_IrqHandler: as long as only lengths and data are damaged, the two
\* verdicts agree, so every message a side accepted is in exactly one place,
\* handed over, in the receiver's buffer or in the sender's, in order, whatever
\* crosses it in the other direction.
LegacyExactlyOnce ==
  \A s \in LgStack :
    /\ lgGot["down"][s] \o InBuffer(lgRecv[s], s) \o InBuffer(lgSend[0], s)
         = Accepted("down", s)
    /\ lgGot["up"][s] \o InBuffer(lgRecv[0], s) \o InBuffer(lgSend[s], s)
         = Accepted("up", s)
=============================================================================
