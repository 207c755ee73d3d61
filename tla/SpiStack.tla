------------------------------ MODULE SpiStack ------------------------------
(***************************************************************************)
(* The DMA version of the SPI stack protocol between the master of a stack *)
(* and its slaves (com/spi/spi_stack/spi_stack_{master,slave,common}_dma.c)*)
(*                                                                         *)
(* Every transfer is full duplex and 84 bytes long: while the master       *)
(* shifts its frame out it shifts in the frame the slave prepared when the *)
(* previous transfer ended, so each side's acknowledgement is one transfer *)
(* old.  A frame carries a master sequence number (msn), a slave sequence  *)
(* number (ssn) and at most one message.                                   *)
(*                                                                         *)
(* The n-th message accepted for (or from) a slave carries the number n,   *)
(* NoMsg is an empty payload.  The info byte of a prepared frame is        *)
(* refreshed whenever the DMA is armed, so the numbers a frame carries are *)
(* those of its sender and only the payload of a send buffer is state.     *)
(***************************************************************************)
EXTENDS Integers, Sequences

CONSTANTS
  LastAddress,   \* com_info.last_stack_address: the slaves are 1..LastAddress
  MasterSeqMax,  \* SPI_STACK_INFO_SEQUENCE_MASTER_MASK, 7 in the code
  SlaveSeqMax,   \* SPI_STACK_INFO_SEQUENCE_SLAVE_MASK >> 3, 7 in the code
  EnumSlaves,    \* slaves that receive a stack enumerate request
  Receivers,     \* bound: slaves the master has messages for
  Senders,       \* bound: slaves that have messages for the master
  MaxDown,       \* bound: messages the master accepts for a slave
  MaxUp,         \* bound: messages a slave accepts for the master
  MaxBurst       \* bound: consecutive transfers a slave hears and answers
                 \* while the master cannot read the answer

Slaves == 1..LastAddress

ASSUME ConstantsAssumption ==
  /\ LastAddress \in Nat \ {0}
  /\ MasterSeqMax \in Nat \ {0}
  /\ SlaveSeqMax \in Nat \ {0}
  /\ EnumSlaves \subseteq Slaves
  /\ Receivers \subseteq Slaves /\ Senders \subseteq Slaves
  /\ MaxDown \in Nat /\ MaxUp \in Nat /\ MaxBurst \in Nat

NoMsg == 0        \* buffer size 0 (or an empty message, length 4)
EnumMsg == -1     \* the request a slave makes up for itself after 1000 ms

Frames == [msn : 0..MasterSeqMax, ssn : 0..SlaveSeqMax, msg : Nat]
NoFrame == [msn |-> -1, ssn |-> 0, msg |-> NoMsg]   \* DMA armed

VARIABLES
  connected,               \* com_info.current # COM_NONE
  transceive_state,        \* TRANSCEIVE_STATE_*
  stack_address_counter,   \* round robin position of empty polls
  stack_address_current,   \* slave of the current frame
  master_buffer_send,      \* message in the master's frame
  master_buffer_recv,      \* message read from stack_address_current
  master_seq,              \* spi_stack_master_master_seq[s]
  slave_seq_seen,          \* spi_stack_master_slave_seq[s]
  slave_seq,               \* spi_stack_slave_slave_seq of slave s
  master_seq_seen,         \* spi_stack_slave_master_seq of slave s
  dma_recv,                \* spi_dma_buffer_recv, until the NSSR interrupt
  dma_send,                \* message in spi_dma_buffer_send
  slave_buffer_send,       \* spi_stack_buffer_send of slave s
  slave_buffer_recv,       \* spi_stack_buffer_recv of slave s
  stack_enumerate_timer,   \* is the timer of slave s armed
  slave_pc,                \* where slave s is in spi_stack_slave_recv
  downSent, downGot,       \* last message accepted for / delivered by s
  upSent, upGot,           \* last message accepted by s / read from s
  downStored,              \* history: last message the interrupt of s stored
  burst                    \* burst[s]: length of the current run of answers
                           \* of s the master could not read

masterVars == <<connected, transceive_state, stack_address_counter,
                stack_address_current, master_buffer_send,
                master_buffer_recv, master_seq, slave_seq_seen>>
slaveVars  == <<slave_seq, master_seq_seen, dma_send, slave_buffer_send,
                slave_buffer_recv, stack_enumerate_timer, slave_pc>>
countVars  == <<downSent, downGot, upSent, upGot>>
vars == <<masterVars, slaveVars, countVars, downStored, dma_recv, burst>>

-----------------------------------------------------------------------------
\* Mutants of the two counters: no wrap, no increment.
NoWrap(seq) == seq + 1
NoIncrease(seq) == seq

increase_master_seq(seq) == IF seq + 1 > MasterSeqMax THEN 0 ELSE seq + 1

\* Zero is a slave's first number only: the counter wraps to one.
increase_slave_seq(seq) == IF seq + 1 > SlaveSeqMax THEN 1 ELSE seq + 1

Init ==
  /\ connected = FALSE
  /\ transceive_state = "EMPTY"
  /\ stack_address_counter = 1
  /\ stack_address_current = 1
  /\ master_buffer_send = NoMsg
  /\ master_buffer_recv = NoMsg
  /\ master_seq = [s \in Slaves |-> 1]
  /\ slave_seq_seen = [s \in Slaves |-> 0]
  /\ slave_seq = [s \in Slaves |-> 0]
  /\ master_seq_seen = [s \in Slaves |-> 0]
  /\ dma_recv = [s \in Slaves |-> NoFrame]
  /\ dma_send = [s \in Slaves |-> NoMsg]
  /\ slave_buffer_send = [s \in Slaves |-> NoMsg]
  /\ slave_buffer_recv = [s \in Slaves |-> NoMsg]
  /\ stack_enumerate_timer = [s \in Slaves |-> FALSE]
  /\ slave_pc = [s \in Slaves |-> "loop"]
  /\ downSent = [s \in Slaves |-> 0]
  /\ downGot = [s \in Slaves |-> 0]
  /\ upSent = [s \in Slaves |-> 0]
  /\ upGot = [s \in Slaves |-> 0]
  /\ downStored = [s \in Slaves |-> 0]
  /\ burst = [s \in Slaves |-> 0]

-----------------------------------------------------------------------------
(* The master's tasks.                                                     *)

\* The first message from a PC makes its interface the current one.
Connect ==
  /\ ~connected
  /\ connected' = TRUE
  /\ UNCHANGED <<transceive_state, stack_address_counter,
                 stack_address_current, master_buffer_send,
                 master_buffer_recv, master_seq, slave_seq_seen,
                 slaveVars, countVars, downStored, dma_recv, burst>>

\* Mutant: the round robin never reaches the last slave.
SkipLast(a) == IF a + 1 >= LastAddress THEN 1 ELSE a + 1

next_address(a) == IF a + 1 > LastAddress THEN 1 ELSE a + 1

\* spi_stack_master_start_transceive(NULL, 0, 0) with an empty receive buffer:
\* repeat the frame that is still to be acknowledged, else poll the next slave.
StartEmpty ==
  \/ /\ transceive_state = "EMPTY"
     /\ stack_address_counter' = next_address(stack_address_counter)
     /\ stack_address_current' = stack_address_counter'
     /\ master_buffer_send' = NoMsg
     /\ transceive_state' = "BUSY"
  \/ /\ transceive_state = "READY"
     /\ transceive_state' = "BUSY"
     /\ UNCHANGED <<stack_address_counter, stack_address_current,
                    master_buffer_send>>

\* start_transceive returns busy: a transfer is running, or the last deselect
\* is too recent.
StartBusy ==
  UNCHANGED <<transceive_state, stack_address_counter, stack_address_current,
              master_buffer_send>>

\* spi_stack_master_recv with nothing to read.
MasterPoll ==
  /\ connected
  /\ master_buffer_recv = NoMsg
  /\ StartEmpty
  /\ UNCHANGED <<connected, master_buffer_recv, master_seq, slave_seq_seen,
                 slaveVars, countVars, downStored, dma_recv, burst>>

\* spi_stack_master_recv hands a message to the message loop.
MasterRecv ==
  /\ master_buffer_recv # NoMsg
  /\ upGot' = [upGot EXCEPT ![stack_address_current] = master_buffer_recv]
  /\ master_buffer_recv' = NoMsg
  /\ StartEmpty \/ StartBusy
  /\ UNCHANGED <<connected, master_seq, slave_seq_seen, slaveVars,
                 downSent, downGot, upSent, downStored, dma_recv, burst>>

\* Mutant: the receive buffer is not looked at.
RecvBufferIgnored == TRUE

\* start_transceive may use the DMA, whose target is the receive buffer.
RecvBufferFree == master_buffer_recv = NoMsg

\* spi_stack_master_send accepts a message for slave s.
MasterSend(s) ==
  /\ s \in Receivers
  /\ downSent[s] < MaxDown
  /\ transceive_state = "EMPTY"
  /\ master_buffer_send = NoMsg
  /\ RecvBufferFree
  /\ stack_address_current' = s
  /\ master_buffer_send' = downSent[s] + 1
  /\ downSent' = [downSent EXCEPT ![s] = downSent[s] + 1]
  /\ transceive_state' = "BUSY"
  /\ UNCHANGED <<connected, stack_address_counter, master_buffer_recv,
                 master_seq, slave_seq_seen, slaveVars, downGot, upSent,
                 upGot, downStored, dma_recv, burst>>

-----------------------------------------------------------------------------
(* The transfer and the interrupt at its end.                              *)

\* The frame on the wire from the master to slave s, and the one coming back.
MasterFrame(s) == [msn |-> master_seq[s], ssn |-> slave_seq_seen[s],
                   msg |-> master_buffer_send]
SlaveFrame(s)  == [msn |-> master_seq_seen[s], ssn |-> slave_seq[s],
                   msg |-> dma_send[s]]

\* Mutant: an empty frame is always done.
FrameDoneUnguarded(s, f) ==
  f.msn = master_seq[s] \/ master_buffer_send = NoMsg

\* May the master take f's msn as the end of the frame it sent to slave s?
\* An empty frame needs no acknowledgement, but the next number must not be
\* the one the slave saw last.
FrameDone(s, f) ==
  \/ f.msn = master_seq[s]
  \/ master_buffer_send = NoMsg /\ increase_master_seq(master_seq[s]) # f.msn

\* spi_stack_master_irq on an answer with a bad preamble, length or checksum.
BadAnswer ==
  /\ transceive_state' = "READY"
  /\ UNCHANGED <<master_buffer_send, master_buffer_recv, master_seq,
                 slave_seq_seen>>

\* Mutant: a repeated answer counts as a new one.
EveryAnswerIsNew(s, f) == TRUE

AnswerIsNew(s, f) == f.ssn # slave_seq_seen[s]

\* spi_stack_master_irq on a good answer f of slave s.
GoodAnswer(s, f) ==
  /\ slave_seq_seen' = [slave_seq_seen EXCEPT ![s] = f.ssn]
  /\ master_buffer_recv' = IF AnswerIsNew(s, f)
                           THEN f.msg ELSE master_buffer_recv
  /\ \/ /\ FrameDone(s, f)
        /\ transceive_state' = "EMPTY"
        /\ master_seq' = [master_seq EXCEPT
                            ![s] = increase_master_seq(master_seq[s])]
        /\ master_buffer_send' = NoMsg
     \/ /\ ~FrameDone(s, f)
        /\ transceive_state' = "READY"
        /\ UNCHANGED <<master_seq, master_buffer_send>>

\* A transfer ends.  A slave whose DMA is not armed again (dma_recv # NoFrame)
\* neither reads nor answers; otherwise each direction fails on its own.  A
\* frame the slave cannot use leaves it unchanged: it arms the same answer.
Transfer(toSlave, toMaster) ==
  LET s == stack_address_current
  IN /\ transceive_state = "BUSY"
     /\ toSlave \/ toMaster => dma_recv[s] = NoFrame
     /\ toSlave /\ ~toMaster => burst[s] < MaxBurst
     /\ dma_recv' = IF toSlave THEN [dma_recv EXCEPT ![s] = MasterFrame(s)]
                    ELSE dma_recv
     /\ burst' = CASE toMaster -> [burst EXCEPT ![s] = 0]
                   [] toSlave /\ ~toMaster -> [burst EXCEPT ![s] = @ + 1]
                   [] OTHER -> burst
     /\ IF toMaster THEN GoodAnswer(s, SlaveFrame(s)) ELSE BadAnswer
     /\ UNCHANGED <<connected, stack_address_counter, stack_address_current,
                    slaveVars, countVars, downStored>>

-----------------------------------------------------------------------------
(* The slaves.                                                             *)

\* Mutants: a repeated frame is stored again; a frame that finds the receive
\* buffer full is acknowledged all the same.
EveryFrameIsFresh(s, f) == TRUE
SeenAlways(s, f) == f.msn

FrameIsFresh(s, f) == f.msn # master_seq_seen[s]

Stored(s, f) == FrameIsFresh(s, f) /\ slave_buffer_recv[s] = NoMsg

SeenAfter(s, f) == IF Stored(s, f) THEN f.msn ELSE master_seq_seen[s]

\* spi_stack_slave_irq for the frame in dma_recv: handle_irq_recv, then
\* handle_irq_send.
SlaveIrq(s) ==
  LET f == dma_recv[s]
      \* the master has our last frame, or there was nothing in it
      done == f.ssn = slave_seq[s] \/ dma_send[s] = NoMsg
  IN /\ f # NoFrame
     /\ dma_recv' = [dma_recv EXCEPT ![s] = NoFrame]
     /\ master_seq_seen' = [master_seq_seen EXCEPT ![s] = SeenAfter(s, f)]
     /\ slave_buffer_recv' = [slave_buffer_recv EXCEPT
                                ![s] = IF Stored(s, f) THEN f.msg ELSE @]
     /\ downStored' = [downStored EXCEPT
                         ![s] = IF Stored(s, f) /\ f.msg # NoMsg
                                THEN f.msg ELSE @]
     /\ IF done
        THEN /\ slave_seq' = [slave_seq EXCEPT
                                ![s] = increase_slave_seq(slave_seq[s])]
             /\ dma_send' = [dma_send EXCEPT ![s] = slave_buffer_send[s]]
             /\ slave_buffer_send' = [slave_buffer_send EXCEPT ![s] = NoMsg]
        ELSE UNCHANGED <<slave_seq, dma_send, slave_buffer_send>>
     /\ UNCHANGED <<masterVars, countVars, stack_enumerate_timer, slave_pc,
                    burst>>

\* spi_stack_slave_send accepts a message for the master.
SlaveSend(s) ==
  /\ s \in Senders
  /\ upSent[s] < MaxUp
  /\ slave_buffer_send[s] = NoMsg
  /\ slave_buffer_send' = [slave_buffer_send EXCEPT ![s] = upSent[s] + 1]
  /\ upSent' = [upSent EXCEPT ![s] = upSent[s] + 1]
  /\ UNCHANGED <<masterVars, slave_seq, master_seq_seen, dma_send,
                 slave_buffer_recv, stack_enumerate_timer, slave_pc, downSent,
                 downGot, upGot, downStored, dma_recv, burst>>

\* spi_stack_slave_recv hands a message to the message loop.  The handler of
\* a stack enumerate request arms the timer, that of an enumerate request
\* (the slave's own one is such a request) stops it.
SlaveRecv(s) ==
  /\ slave_pc[s] = "loop"
  /\ slave_buffer_recv[s] # NoMsg
  /\ slave_buffer_recv' = [slave_buffer_recv EXCEPT ![s] = NoMsg]
  /\ IF slave_buffer_recv[s] = EnumMsg
     THEN /\ stack_enumerate_timer' = [stack_enumerate_timer EXCEPT
                                         ![s] = FALSE]
          /\ UNCHANGED downGot
     ELSE /\ downGot' = [downGot EXCEPT ![s] = slave_buffer_recv[s]]
          /\ \/ UNCHANGED stack_enumerate_timer
             \/ \E armed \in BOOLEAN :
                  /\ s \in EnumSlaves
                  /\ stack_enumerate_timer' = [stack_enumerate_timer EXCEPT
                                                 ![s] = armed]
  /\ UNCHANGED <<masterVars, slave_seq, master_seq_seen, dma_send,
                 slave_buffer_send, slave_pc, downSent, upSent, upGot,
                 downStored, dma_recv, burst>>

\* spi_stack_slave_recv finds nothing to read and the timer elapsed...
SlaveTimerElapsed(s) ==
  /\ slave_pc[s] = "loop"
  /\ slave_buffer_recv[s] = NoMsg
  /\ stack_enumerate_timer[s]
  /\ stack_enumerate_timer' = [stack_enumerate_timer EXCEPT ![s] = FALSE]
  /\ slave_pc' = [slave_pc EXCEPT ![s] = "add"]
  /\ UNCHANGED <<masterVars, slave_seq, master_seq_seen, dma_send,
                 slave_buffer_send, slave_buffer_recv, countVars, downStored,
                 dma_recv, burst>>

\* ... and spi_stack_slave_add_enumerate_connected_request, with interrupts
\* disabled only now, writes its request without another look at the buffer.
SlaveAddEnumerate(s) ==
  /\ slave_pc[s] = "add"
  /\ slave_buffer_recv' = [slave_buffer_recv EXCEPT ![s] = EnumMsg]
  /\ slave_pc' = [slave_pc EXCEPT ![s] = "loop"]
  /\ UNCHANGED <<masterVars, slave_seq, master_seq_seen, dma_send,
                 slave_buffer_send, stack_enumerate_timer, countVars,
                 downStored, dma_recv, burst>>

-----------------------------------------------------------------------------
Next ==
  \/ Connect
  \/ MasterPoll
  \/ MasterRecv
  \/ \E s \in Slaves : MasterSend(s)
  \/ \E toSlave, toMaster \in BOOLEAN : Transfer(toSlave, toMaster)
  \/ \E s \in Slaves : SlaveIrq(s)
  \/ \E s \in Slaves : SlaveSend(s)
  \/ \E s \in Slaves : SlaveRecv(s)
  \/ \E s \in Slaves : SlaveTimerElapsed(s)
  \/ \E s \in Slaves : SlaveAddEnumerate(s)

Spec == Init /\ [][Next]_vars

\* The message loops and interrupts run: one task polls and reads for the master,
\* one reads for each slave.  A slave that is polled again and again is at times
\* heard while it hears the master.
MasterTask == MasterPoll \/ MasterRecv
SlaveTask(s) == SlaveRecv(s) \/ SlaveTimerElapsed(s) \/ SlaveAddEnumerate(s)
GoodTransfer(s) == stack_address_current = s /\ Transfer(TRUE, TRUE)

Fairness ==
  /\ WF_vars(MasterTask)
  /\ WF_vars(\E toSlave, toMaster \in BOOLEAN : Transfer(toSlave, toMaster))
  /\ \A s \in Slaves :
       /\ WF_vars(SlaveIrq(s))
       /\ WF_vars(SlaveTask(s))
       /\ SF_vars(GoodTransfer(s))

FairSpec == Spec /\ Fairness

-----------------------------------------------------------------------------
(* Properties.                                                             *)

\* Sequence numbers stay in the bits of the info byte, addresses in the stack,
\* and no buffer of the master ever holds a slave's made-up enumerate request.
TypeOK ==
  /\ connected \in BOOLEAN
  /\ transceive_state \in {"EMPTY", "READY", "BUSY"}
  /\ stack_address_counter \in Slaves
  /\ stack_address_current \in Slaves
  /\ master_buffer_send \in Nat
  /\ master_buffer_recv \in Nat
  /\ master_seq \in [Slaves -> 0..MasterSeqMax]
  /\ slave_seq_seen \in [Slaves -> 0..SlaveSeqMax]
  /\ slave_seq \in [Slaves -> 0..SlaveSeqMax]
  /\ master_seq_seen \in [Slaves -> 0..MasterSeqMax]
  /\ dma_recv \in [Slaves -> Frames \cup {NoFrame}]
  /\ dma_send \in [Slaves -> Nat]
  /\ slave_buffer_send \in [Slaves -> Nat]
  /\ slave_buffer_recv \in [Slaves -> Nat \cup {EnumMsg}]
  /\ stack_enumerate_timer \in [Slaves -> BOOLEAN]
  /\ slave_pc \in [Slaves -> {"loop", "add"}]
  /\ downSent \in [Slaves -> 0..MaxDown]
  /\ downGot \in [Slaves -> Nat]
  /\ upSent \in [Slaves -> 0..MaxUp]
  /\ upGot \in [Slaves -> Nat]
  /\ downStored \in [Slaves -> Nat]
  /\ burst \in [Slaves -> 0..MaxBurst]

\* The receive buffer is the target of the DMA: while a message waits in it no
\* transfer runs, whatever the tasks of the master do.
UnreadMessageIsSafe ==
  master_buffer_recv # NoMsg => transceive_state # "BUSY"

\* The master's current frame is one to slave s.
MasterHolds(s) ==
  /\ stack_address_current = s
  /\ transceive_state # "EMPTY"

\* What a number proves to the slave (spi_stack_slave_handle_irq_recv looks at
\* nothing else): the master reuses one only when the slave has seen another
\* since.  A slave has seen the master's current number only if it took the
\* current frame, and a frame it has not looked at yet is the current one, or
\* an empty one or a repetition of what it took, sent before the current one.
DownInv ==
  \A s \in Slaves :
    /\ master_seq_seen[s] = master_seq[s] => MasterHolds(s)
    /\ dma_recv[s] # NoFrame =>
         IF dma_recv[s].msn = master_seq[s]
         THEN MasterHolds(s) /\ dma_recv[s].msg = master_buffer_send
         ELSE /\ dma_recv[s].msg = NoMsg \/ dma_recv[s].msn = master_seq_seen[s]
              /\ master_seq_seen[s] # master_seq[s]

\* Messages on their way down to slave s: the one its task has not read and
\* the master's, until the slave has stored its number.
InSlave(s) ==
  IF slave_buffer_recv[s] > NoMsg THEN <<slave_buffer_recv[s]>> ELSE <<>>

InMaster(s) ==
  IF /\ MasterHolds(s)
     /\ master_buffer_send # NoMsg
     /\ master_seq_seen[s] # master_seq[s]
  THEN <<master_buffer_send>> ELSE <<>>

DownQueue(s) == InSlave(s) \o InMaster(s)

\* Messages on their way up from slave s: the one the master's task has not
\* read, the prepared one unless the master has its number, and the waiting one.
InMasterRecv(s) ==
  IF stack_address_current = s /\ master_buffer_recv # NoMsg
  THEN <<master_buffer_recv>> ELSE <<>>

InFrame(s) ==
  IF dma_send[s] # NoMsg /\ slave_seq_seen[s] # slave_seq[s]
  THEN <<dma_send[s]>> ELSE <<>>

InSlaveSend(s) ==
  IF slave_buffer_send[s] # NoMsg THEN <<slave_buffer_send[s]>> ELSE <<>>

UpQueue(s) == InMasterRecv(s) \o InFrame(s) \o InSlaveSend(s)

OrdinarySlaves == Slaves \ EnumSlaves

Down == INSTANCE ReliableLink WITH
          Endpoints <- OrdinarySlaves, Capacity <- 2,
          sent <- [s \in OrdinarySlaves |-> downSent[s]],
          got <- [s \in OrdinarySlaves |-> downGot[s]],
          queue <- [s \in OrdinarySlaves |-> DownQueue(s)]

Up == INSTANCE ReliableLink WITH
        Endpoints <- Slaves, Capacity <- 3,
        sent <- upSent, got <- upGot,
        queue <- [s \in Slaves |-> UpQueue(s)]

\* The stack delivers what the master sends to a slave exactly once and in
\* order, however transfers fail.
DownLink == Down!Spec

\* The stack delivers what a slave sends to the master exactly once and in
\* order, as long as the master does not miss more than SlaveSeqMax - 2 answers
\* in a row of a slave that hears it (which MaxBurst says).
UpLink == Up!Spec

\* A slave's interrupt stores every message of the master exactly once and in
\* order: a message it stores follows the one it stored last, also when the
\* slave's own enumerate request replaced that one before it was read.
NothingStoredTwice ==
  [][\A s \in Slaves :
       \/ slave_buffer_recv'[s] \in {slave_buffer_recv[s], NoMsg, EnumMsg}
       \/ slave_buffer_recv'[s] = downStored[s] + 1]_vars

\* Delivery is guaranteed (spi_stack_protocol_dma_description.txt:5): a slave's
\* message loop that reads a message (spi_stack_slave_recv) has read the one the
\* master accepted before it.
NothingSkippedDown ==
  [][\A s \in Slaves : downGot'[s] # downGot[s] =>
                         downGot'[s] = downGot[s] + 1]_vars

\* What the master accepted for a slave reaches the slave's message loop, all of
\* it, once there is a PC: retries end, whether the slave did not hear the master
\* or the master could not read the answer of a slave that did.
DownDelivered ==
  \A s \in Receivers :
    connected /\ downGot[s] < downSent[s] ~> downGot[s] = downSent[s]

\* What a slave accepted reaches the master's message loop, all of it, once there
\* is a PC: every slave is polled again and again, whichever one is being retried,
\* and a slave repeats its frame until the master has its number, also when it
\* hears the master and the master cannot read its answers.
UpDelivered ==
  \A s \in Senders :
    connected /\ upGot[s] < upSent[s] ~> upGot[s] = upSent[s]
=============================================================================
