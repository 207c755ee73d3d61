--------------------------- MODULE SpiStackProofs ---------------------------
(***************************************************************************)
(* Theorems about SpiStack, for every number of slaves, every modulus of   *)
(* the sequence numbers and any number of messages.                        *)
(***************************************************************************)
EXTENDS SpiStack, SequenceTheorems, TLAPS

USE DEF NoMsg, EnumMsg

\* spi_stack_increase_master_seq stays in range and changes the number.
LEMMA MasterSeqType ==
  ASSUME NEW q \in 0..MasterSeqMax
  PROVE  /\ increase_master_seq(q) \in 0..MasterSeqMax
         /\ increase_master_seq(q) # q
BY ConstantsAssumption DEF increase_master_seq

\* spi_stack_increase_slave_seq stays in range.
LEMMA SlaveSeqType ==
  ASSUME NEW q \in 0..SlaveSeqMax
  PROVE  increase_slave_seq(q) \in 0..SlaveSeqMax
BY ConstantsAssumption DEF increase_slave_seq

\* start_transceive picks an address of the stack and keeps the frame's type.
LEMMA StartEmptyType ==
  ASSUME TypeOK, StartEmpty
  PROVE  /\ transceive_state' \in {"EMPTY", "READY", "BUSY"}
         /\ stack_address_counter' \in Slaves
         /\ stack_address_current' \in Slaves
         /\ master_buffer_send' \in Nat
<1>1. \A a \in Slaves :
         (IF a + 1 > LastAddress THEN 1 ELSE a + 1) \in Slaves
  BY ConstantsAssumption DEF Slaves
<1>2. stack_address_counter \in Slaves /\ stack_address_current \in Slaves
      /\ master_buffer_send \in Nat
  BY DEF TypeOK
<1>3. QED
  BY <1>1, <1>2 DEF StartEmpty, next_address

\* A message's number is one the counters can hold.
LEMMA CountType ==
  ASSUME NEW max \in Nat, NEW n \in 0..max, n < max
  PROVE  n + 1 \in 0..max /\ n + 1 \in Nat
OBVIOUS

\* Sequence numbers, addresses and buffers stay in their ranges, whatever the
\* interrupts and tasks of the stack do (TypeOK of SpiStack).
THEOREM TypeCorrect == Spec => []TypeOK
<1>1. Init => TypeOK
  <2> SUFFICES ASSUME Init PROVE TypeOK
    OBVIOUS
  <2>1. 1 \in Slaves /\ 1 \in 0..MasterSeqMax /\ 0 \in 0..SlaveSeqMax
        /\ 0 \in 0..MasterSeqMax
        /\ 0 \in 0..MaxDown /\ 0 \in 0..MaxUp /\ 0 \in 0..MaxBurst
    BY ConstantsAssumption DEF Slaves
  <2>2. QED
    BY <2>1 DEF Init, TypeOK
<1>2. TypeOK /\ [Next]_vars => TypeOK'
  <2> SUFFICES ASSUME TypeOK, [Next]_vars PROVE TypeOK'
    OBVIOUS
  <2>1. CASE Connect
    BY <2>1 DEF Connect, TypeOK, slaveVars, countVars
  <2>2. CASE MasterPoll
    BY <2>2, StartEmptyType
       DEF MasterPoll, TypeOK, slaveVars, countVars
  <2>3. CASE MasterRecv
    <3>1. upGot' \in [Slaves -> Nat]
      BY <2>3 DEF MasterRecv, TypeOK
    <3>2. QED
      BY <2>3, <3>1, StartEmptyType
         DEF MasterRecv, StartBusy, TypeOK, slaveVars
  <2>4. CASE \E s \in Slaves : MasterSend(s)
    <3>1. PICK s \in Slaves : MasterSend(s)
      BY <2>4
    <3>2. downSent[s] + 1 \in 0..MaxDown /\ downSent[s] + 1 \in Nat
      BY <3>1, CountType, ConstantsAssumption DEF MasterSend, TypeOK
    <3>3. QED
      BY <3>1, <3>2 DEF MasterSend, TypeOK, slaveVars
  <2>5. ASSUME NEW toSlave \in BOOLEAN, NEW toMaster \in BOOLEAN,
               Transfer(toSlave, toMaster)
        PROVE  TypeOK'
    <3> DEFINE s == stack_address_current
    <3>1. s \in Slaves
      BY DEF TypeOK
    <3>2. MasterFrame(s) \in Frames /\ SlaveFrame(s) \in Frames
      BY <3>1 DEF MasterFrame, SlaveFrame, Frames, TypeOK
    <3>3. dma_recv' \in [Slaves -> Frames \cup {NoFrame}]
      BY <2>5, <3>2 DEF Transfer, TypeOK
    <3>4. burst' \in [Slaves -> 0..MaxBurst]
      <4>1. CASE toSlave /\ ~toMaster
        <5>1. burst[s] + 1 \in 0..MaxBurst
          BY <2>5, <3>1, <4>1, CountType, ConstantsAssumption
             DEF Transfer, TypeOK
        <5>2. QED
          BY <2>5, <4>1, <5>1 DEF Transfer, TypeOK
      <4>2. CASE ~(toSlave /\ ~toMaster)
        BY <2>5, <4>2, ConstantsAssumption DEF Transfer, TypeOK
      <4>3. QED
        BY <4>1, <4>2
    <3>5. /\ master_seq' \in [Slaves -> 0..MasterSeqMax]
          /\ slave_seq_seen' \in [Slaves -> 0..SlaveSeqMax]
          /\ master_buffer_send' \in Nat
          /\ master_buffer_recv' \in Nat
          /\ transceive_state' \in {"EMPTY", "READY", "BUSY"}
      <4>1. CASE toMaster
        <5>1. GoodAnswer(s, SlaveFrame(s))
          BY <2>5, <4>1 DEF Transfer
        <5>2. increase_master_seq(master_seq[s]) \in 0..MasterSeqMax
          BY <3>1, MasterSeqType DEF TypeOK
        <5>3. SlaveFrame(s).ssn \in 0..SlaveSeqMax /\ SlaveFrame(s).msg \in Nat
          BY <3>2 DEF Frames
        <5>4. QED
          BY <5>1, <5>2, <5>3 DEF GoodAnswer, TypeOK
      <4>2. CASE ~toMaster
        BY <2>5, <4>2 DEF Transfer, BadAnswer, TypeOK
      <4>3. QED
        BY <4>1, <4>2
    <3>6. QED
      BY <2>5, <3>3, <3>4, <3>5 DEF Transfer, TypeOK, slaveVars, countVars
  <2>6. ASSUME NEW s \in Slaves, SlaveIrq(s) PROVE TypeOK'
    <3>1. dma_recv[s] \in Frames
      BY <2>6 DEF SlaveIrq, SeenAfter, Stored, FrameIsFresh, TypeOK
    <3>2. dma_recv[s].msn \in 0..MasterSeqMax /\ dma_recv[s].msg \in Nat
      BY <3>1 DEF Frames
    <3>3. /\ master_seq_seen' \in [Slaves -> 0..MasterSeqMax]
          /\ slave_buffer_recv' \in [Slaves -> Nat \cup {EnumMsg}]
          /\ downStored' \in [Slaves -> Nat]
      BY <2>6, <3>2 DEF SlaveIrq, SeenAfter, Stored, FrameIsFresh, TypeOK
    <3>4. /\ slave_seq' \in [Slaves -> 0..SlaveSeqMax]
          /\ dma_send' \in [Slaves -> Nat]
          /\ slave_buffer_send' \in [Slaves -> Nat]
      <4>1. increase_slave_seq(slave_seq[s]) \in 0..SlaveSeqMax
        BY SlaveSeqType DEF TypeOK
      <4>2. QED
        BY <2>6, <4>1 DEF SlaveIrq, SeenAfter, Stored, FrameIsFresh, TypeOK
    <3>5. dma_recv' \in [Slaves -> Frames \cup {NoFrame}]
      BY <2>6 DEF SlaveIrq, SeenAfter, Stored, FrameIsFresh, TypeOK
    <3>6. QED
      BY <2>6, <3>3, <3>4, <3>5 DEF SlaveIrq, TypeOK, masterVars, countVars
  <2>7. ASSUME NEW s \in Slaves, SlaveSend(s) PROVE TypeOK'
    <3>1. upSent[s] + 1 \in 0..MaxUp /\ upSent[s] + 1 \in Nat
      BY <2>7, CountType, ConstantsAssumption DEF SlaveSend, TypeOK
    <3>2. QED
      BY <2>7, <3>1 DEF SlaveSend, TypeOK, masterVars
  <2>8. ASSUME NEW s \in Slaves, SlaveRecv(s) PROVE TypeOK'
    BY <2>8 DEF SlaveRecv, TypeOK, masterVars
  <2>9. ASSUME NEW s \in Slaves, SlaveTimerElapsed(s) PROVE TypeOK'
    BY <2>9 DEF SlaveTimerElapsed, TypeOK, masterVars, countVars
  <2>10. ASSUME NEW s \in Slaves, SlaveAddEnumerate(s) PROVE TypeOK'
    BY <2>10 DEF SlaveAddEnumerate, TypeOK, masterVars, countVars
  <2>11. CASE UNCHANGED vars
    BY <2>11 DEF vars, masterVars, slaveVars, countVars, TypeOK
  <2>12. QED
    BY <2>1, <2>2, <2>3, <2>4, <2>5, <2>6, <2>7, <2>8, <2>9, <2>10, <2>11
       DEF Next
<1>3. QED
  BY <1>1, <1>2, PTL DEF Spec

-----------------------------------------------------------------------------
(* Sequence numbers from the master to the slaves.                         *)

\* What DownInv says of slave s.
DownInvOf(s) ==
  /\ master_seq_seen[s] = master_seq[s] => MasterHolds(s)
  /\ dma_recv[s] # NoFrame =>
       IF dma_recv[s].msn = master_seq[s]
       THEN MasterHolds(s) /\ dma_recv[s].msg = master_buffer_send
       ELSE /\ dma_recv[s].msg = NoMsg \/ dma_recv[s].msn = master_seq_seen[s]
            /\ master_seq_seen[s] # master_seq[s]

\* A transfer to a slave keeps the numbers of every slave apart.
LEMMA TransferDownInv ==
  ASSUME TypeOK, DownInv, NEW toSlave \in BOOLEAN, NEW toMaster \in BOOLEAN,
         Transfer(toSlave, toMaster)
  PROVE  DownInv'
<1> DEFINE c == stack_address_current
           old == master_seq[c]
           new == increase_master_seq(master_seq[c])
<1>1. c \in Slaves /\ old \in 0..MasterSeqMax
  BY DEF TypeOK
<1>2. new # old
  BY <1>1, MasterSeqType
<1>3. /\ stack_address_current' = c
      /\ master_seq_seen' = master_seq_seen
      /\ MasterHolds(c)
  BY DEF Transfer, MasterHolds, slaveVars
<1>4. ASSUME NEW s \in Slaves, s # c PROVE DownInvOf(s)'
  <2>1. master_seq'[s] = master_seq[s] /\ dma_recv'[s] = dma_recv[s]
    BY <1>1, <1>4 DEF Transfer, GoodAnswer, BadAnswer, TypeOK
  <2>2. ~MasterHolds(s)
    BY <1>4 DEF MasterHolds
  <2>3. DownInvOf(s)
    BY DEF DownInv, DownInvOf
  <2>4. QED
    BY <1>3, <2>1, <2>2, <2>3 DEF DownInvOf
<1>5. DownInvOf(c)
  BY <1>1 DEF DownInv, DownInvOf
<1>6. dma_recv'[c] # NoFrame =>
        \/ /\ dma_recv'[c] = dma_recv[c]
           /\ ~toSlave
        \/ /\ dma_recv'[c] = MasterFrame(c)
           /\ toSlave
  BY <1>1 DEF Transfer, TypeOK
<1>7. CASE /\ toMaster
           /\ FrameDone(c, SlaveFrame(c))
  <2>1. /\ master_seq'[c] = new
        /\ master_buffer_send' = NoMsg
    BY <1>1, <1>7 DEF Transfer, GoodAnswer, TypeOK
  <2>2. dma_recv[c] = NoFrame
    BY <1>7 DEF Transfer
  <2>3. \/ master_seq_seen[c] = old
        \/ master_buffer_send = NoMsg /\ new # master_seq_seen[c]
    BY <1>7 DEF FrameDone, SlaveFrame
  <2>4. dma_recv'[c] # NoFrame =>
          dma_recv'[c].msn = old /\ dma_recv'[c].msg = master_buffer_send
    BY <1>6, <2>2 DEF MasterFrame
  <2>5. DownInvOf(c)'
    BY <1>2, <1>3, <2>1, <2>3, <2>4 DEF DownInvOf
  <2>6. QED
    BY <1>3, <1>4, <2>5 DEF DownInv, DownInvOf
<1>8. CASE ~(toMaster /\ FrameDone(c, SlaveFrame(c)))
  <2>1. /\ master_seq' = master_seq
        /\ master_buffer_send' = master_buffer_send
        /\ transceive_state' = "READY"
    BY <1>8 DEF Transfer, GoodAnswer, BadAnswer
  <2>2. MasterHolds(c)'
    BY <1>3, <2>1 DEF MasterHolds
  <2>3. DownInvOf(c)'
    BY <1>3, <1>5, <1>6, <2>1, <2>2 DEF DownInvOf, MasterFrame
  <2>4. QED
    BY <1>3, <1>4, <2>3 DEF DownInv, DownInvOf
<1>9. QED
  BY <1>7, <1>8

\* Starting a transfer holds only the slave whose frame is repeated, or one
\* whose number no slave has seen.
LEMMA StartDownInv ==
  ASSUME TypeOK, DownInv,
         UNCHANGED <<master_seq, master_seq_seen, dma_recv>>,
         \/ StartEmpty
         \/ transceive_state = "EMPTY"
         \/ UNCHANGED <<transceive_state, stack_address_current,
                        master_buffer_send>>
  PROVE  DownInv'
<1>1. CASE transceive_state = "EMPTY"
  <2>1. \A s \in Slaves : ~MasterHolds(s)
    BY <1>1 DEF MasterHolds
  <2>2. QED
    BY <2>1 DEF DownInv
<1>2. CASE /\ transceive_state = "READY"
           /\ StartEmpty
  BY <1>2 DEF StartEmpty, DownInv, MasterHolds
<1>3. CASE UNCHANGED <<transceive_state, stack_address_current,
                       master_buffer_send>>
  BY <1>3 DEF DownInv, MasterHolds
<1>4. QED
  BY <1>1, <1>2, <1>3 DEF StartEmpty

\* A slave has seen the master's current number only if it took the current
\* frame (spi_stack_master_irq, spi_stack_slave_handle_irq_recv).
THEOREM DownInvariant == Spec => []DownInv
<1>1. Init => DownInv
  <2>1. SUFFICES ASSUME Init PROVE DownInv
    OBVIOUS
  <2>2. \A s \in Slaves : master_seq_seen[s] = 0 /\ master_seq[s] = 1
                          /\ dma_recv[s] = NoFrame
    BY <2>1 DEF Init
  <2>3. QED
    BY <2>2 DEF DownInv
<1>2. TypeOK /\ DownInv /\ [Next]_vars => DownInv'
  <2> SUFFICES ASSUME TypeOK, DownInv, [Next]_vars PROVE DownInv'
    OBVIOUS
  <2>1. CASE Connect
    BY <2>1, StartDownInv DEF Connect, slaveVars
  <2>2. CASE MasterPoll
    BY <2>2, StartDownInv DEF MasterPoll, slaveVars
  <2>3. CASE MasterRecv
    BY <2>3, StartDownInv DEF MasterRecv, StartBusy, slaveVars
  <2>4. CASE \E s \in Slaves : MasterSend(s)
    BY <2>4, StartDownInv DEF MasterSend, slaveVars
  <2>5. ASSUME NEW toSlave \in BOOLEAN, NEW toMaster \in BOOLEAN,
               Transfer(toSlave, toMaster)
        PROVE  DownInv'
    BY <2>5, TransferDownInv
  <2>6. ASSUME NEW s \in Slaves, SlaveIrq(s) PROVE DownInv'
    <3>1. UNCHANGED <<master_seq, master_buffer_send, transceive_state,
                      stack_address_current>>
      BY <2>6 DEF SlaveIrq, masterVars
    <3>2. \A r \in Slaves : MasterHolds(r)' = MasterHolds(r)
      BY <3>1 DEF MasterHolds
    <3>3. dma_recv'[s] = NoFrame
      BY <2>6 DEF SlaveIrq, SeenAfter, Stored, FrameIsFresh, TypeOK
    <3>4. master_seq_seen'[s] = master_seq_seen[s]
          \/ master_seq_seen'[s] = dma_recv[s].msn
      BY <2>6 DEF SlaveIrq, SeenAfter, Stored, FrameIsFresh, TypeOK
    <3>5. dma_recv[s] # NoFrame
      BY <2>6 DEF SlaveIrq, SeenAfter, Stored, FrameIsFresh
    <3>6. \A r \in Slaves \ {s} : dma_recv'[r] = dma_recv[r]
                                  /\ master_seq_seen'[r] = master_seq_seen[r]
      BY <2>6 DEF SlaveIrq, SeenAfter, Stored, FrameIsFresh, TypeOK
    <3>7. master_seq_seen'[s] = master_seq[s] => MasterHolds(s)
      BY <3>4, <3>5 DEF DownInv
    <3>8. QED
      BY <3>1, <3>2, <3>3, <3>6, <3>7 DEF DownInv
  <2>7. ASSUME NEW s \in Slaves, SlaveSend(s) PROVE DownInv'
    BY <2>7, StartDownInv DEF SlaveSend, masterVars
  <2>8. ASSUME NEW s \in Slaves, SlaveRecv(s) PROVE DownInv'
    BY <2>8, StartDownInv DEF SlaveRecv, masterVars
  <2>9. ASSUME NEW s \in Slaves, SlaveTimerElapsed(s) PROVE DownInv'
    BY <2>9, StartDownInv DEF SlaveTimerElapsed, masterVars
  <2>10. ASSUME NEW s \in Slaves, SlaveAddEnumerate(s) PROVE DownInv'
    BY <2>10, StartDownInv DEF SlaveAddEnumerate, masterVars
  <2>11. CASE UNCHANGED vars
    BY <2>11, StartDownInv DEF vars, masterVars, slaveVars
  <2>12. QED
    BY <2>1, <2>2, <2>3, <2>4, <2>5, <2>6, <2>7, <2>8, <2>9, <2>10, <2>11
       DEF Next
<1>3. QED
  BY <1>1, <1>2, TypeCorrect, PTL DEF Spec

-----------------------------------------------------------------------------
(* The direction from the master to the slaves is a reliable FIFO.         *)

\* The queues a direction can hold: how a head leaves and a message joins them.
LEMMA ShortSequences ==
  ASSUME NEW a \in Nat, NEW b \in Nat
  PROVE  /\ <<>> \o <<>> = <<>>
         /\ <<>> \o <<a>> = <<a>>
         /\ <<a>> \o <<>> = <<a>>
         /\ <<a>> \o <<b>> = <<a, b>>
         /\ Append(<<>>, b) = <<b>>
         /\ Append(<<a>>, b) = <<a, b>>
         /\ Head(<<a>>) = a /\ Head(<<a, b>>) = a
         /\ Tail(<<a>>) = <<>> /\ Tail(<<a, b>>) = <<b>>
         /\ <<a>> # <<>> /\ <<a, b>> # <<>>
         /\ Len(<<>>) = 0 /\ Len(<<a>>) = 1
<1>1. <<>> \o <<>> = <<>>
  OBVIOUS
<1>2. <<>> \o <<a>> = <<a>>
  OBVIOUS
<1>3. <<a>> \o <<>> = <<a>>
  OBVIOUS
<1>4. <<a>> \o <<b>> = <<a, b>>
  <2>1. <<a>> \in Seq(Nat) /\ <<b>> \in Seq(Nat) /\ <<a, b>> \in Seq(Nat)
    OBVIOUS
  <2>2. /\ <<a>> \o <<b>> \in Seq(Nat)
        /\ Len(<<a>> \o <<b>>) = 2
        /\ (<<a>> \o <<b>>)[1] = a
        /\ (<<a>> \o <<b>>)[2] = b
    BY <2>1, ConcatProperties
  <2>3. Len(<<a, b>>) = 2 /\ <<a, b>>[1] = a /\ <<a, b>>[2] = b
    OBVIOUS
  <2>4. \A i \in 1..Len(<<a>> \o <<b>>) : (<<a>> \o <<b>>)[i] = <<a, b>>[i]
    BY <2>2, <2>3
  <2>5. QED
    <3> DEFINE p == <<a>> \o <<b>>
               q == <<a, b>>
    <3>1. p \in Seq(Nat) /\ q \in Seq(Nat) /\ Len(p) = Len(q)
          /\ \A i \in 1..Len(p) : p[i] = q[i]
      BY <2>1, <2>2, <2>3, <2>4
    <3> HIDE DEF p, q
    <3>2. p = q
      BY <3>1, SeqEqual
    <3>3. QED
      BY <3>2 DEF p, q
<1>5. Append(<<>>, b) = <<b>>
  OBVIOUS
<1>6. Append(<<a>>, b) = <<a, b>>
  <2>1. <<a>> \in Seq(Nat)
    OBVIOUS
  <2>2. QED
    BY <1>4, <2>1, AppendIsConcat, Zenon
<1>7. Head(<<a>>) = a
  OBVIOUS
<1>8. Head(<<a, b>>) = a
  OBVIOUS
<1>9. Tail(<<a>>) = <<>>
  OBVIOUS
<1>10. Tail(<<a, b>>) = <<b>>
  OBVIOUS
<1>11. <<a>> # <<>> /\ <<a, b>> # <<>>
  OBVIOUS
<1>12. Len(<<>>) = 0 /\ Len(<<a>>) = 1
  OBVIOUS
<1>13. QED
  BY <1>1, <1>2, <1>3, <1>4, <1>5, <1>6, <1>7, <1>8, <1>9, <1>10, <1>11, <1>12


\* A slave that gets no stack enumerate request makes up no request of its own.
NoOwnRequest ==
  \A s \in OrdinarySlaves :
    /\ ~stack_enumerate_timer[s]
    /\ slave_pc[s] = "loop"
    /\ slave_buffer_recv[s] # EnumMsg

\* A slave that never arms stack_enumerate_timer never makes up a request.
LEMMA NoOwnRequestInvariant == Spec => []NoOwnRequest
<1>1. Init => NoOwnRequest
  BY DEF Init, NoOwnRequest, OrdinarySlaves
<1>2. TypeOK /\ NoOwnRequest /\ [Next]_vars => NoOwnRequest'
  <2> SUFFICES ASSUME TypeOK, NoOwnRequest, [Next]_vars,
                      NEW r \in OrdinarySlaves
               PROVE  /\ ~stack_enumerate_timer'[r]
                      /\ slave_pc'[r] = "loop"
                      /\ slave_buffer_recv'[r] # EnumMsg
    BY DEF NoOwnRequest
  <2> r \in Slaves /\ r \notin EnumSlaves
    BY DEF OrdinarySlaves
  <2> /\ ~stack_enumerate_timer[r]
      /\ slave_pc[r] = "loop"
      /\ slave_buffer_recv[r] # EnumMsg
    BY DEF NoOwnRequest
  <2>1. ASSUME UNCHANGED <<stack_enumerate_timer, slave_pc, slave_buffer_recv>>
        PROVE  /\ ~stack_enumerate_timer'[r]
               /\ slave_pc'[r] = "loop"
               /\ slave_buffer_recv'[r] # EnumMsg
    BY <2>1
  <2>2. CASE \/ Connect \/ MasterPoll \/ MasterRecv
             \/ \E s \in Slaves : MasterSend(s)
             \/ \E toSlave, toMaster \in BOOLEAN : Transfer(toSlave, toMaster)
    BY <2>1, <2>2 DEF Connect, MasterPoll, MasterRecv, MasterSend, Transfer,
                      slaveVars
  <2>3. ASSUME NEW s \in Slaves, SlaveIrq(s)
        PROVE  /\ ~stack_enumerate_timer'[r]
               /\ slave_pc'[r] = "loop"
               /\ slave_buffer_recv'[r] # EnumMsg
    <3>1. dma_recv[s] \in Frames
      BY <2>3 DEF SlaveIrq, SeenAfter, Stored, FrameIsFresh, TypeOK
    <3>2. dma_recv[s].msg # EnumMsg
      BY <3>1 DEF Frames
    <3>3. QED
      BY <2>3, <3>2 DEF SlaveIrq, SeenAfter, Stored, FrameIsFresh, TypeOK
  <2>4. CASE \E s \in Slaves : SlaveSend(s)
    BY <2>1, <2>4 DEF SlaveSend
  <2>5. ASSUME NEW s \in Slaves, SlaveRecv(s)
        PROVE  /\ ~stack_enumerate_timer'[r]
               /\ slave_pc'[r] = "loop"
               /\ slave_buffer_recv'[r] # EnumMsg
    BY <2>5 DEF SlaveRecv, TypeOK
  <2>6. ASSUME NEW s \in Slaves, SlaveTimerElapsed(s) \/ SlaveAddEnumerate(s)
        PROVE  /\ ~stack_enumerate_timer'[r]
               /\ slave_pc'[r] = "loop"
               /\ slave_buffer_recv'[r] # EnumMsg
    BY <2>6 DEF SlaveTimerElapsed, SlaveAddEnumerate, TypeOK
  <2>7. CASE UNCHANGED vars
    BY <2>1, <2>7 DEF vars, slaveVars
  <2>8. QED
    BY <2>2, <2>3, <2>4, <2>5, <2>6, <2>7 DEF Next
<1>3. QED
  BY <1>1, <1>2, TypeCorrect, PTL DEF Spec

\* A step that leaves every slave's queue and both counts alone.
LEMMA DownStutter ==
  ASSUME \A s \in OrdinarySlaves : DownQueue(s)' = DownQueue(s),
         UNCHANGED <<downSent, downGot>>
  PROVE  UNCHANGED Down!linkVars
BY DEF Down!linkVars

\* Every step of master and slaves is one of the reliable FIFO, or none.
LEMMA DownStep ==
  ASSUME TypeOK, DownInv, NoOwnRequest, [Next]_vars
  PROVE  [Down!Next]_(Down!linkVars)
<1> USE DEF OrdinarySlaves
<1>1. ASSUME UNCHANGED <<master_seq, master_seq_seen, slave_buffer_recv>>,
             UNCHANGED <<downSent, downGot>>,
             \/ StartEmpty
             \/ UNCHANGED <<transceive_state, stack_address_current,
                            master_buffer_send>>
      PROVE  UNCHANGED Down!linkVars
  <2>1. \A s \in OrdinarySlaves : InSlave(s)' = InSlave(s)
    BY <1>1 DEF InSlave
  <2>2. \A s \in OrdinarySlaves : InMaster(s)' = InMaster(s)
    BY <1>1 DEF InMaster, MasterHolds, StartEmpty
  <2>3. QED
    BY <1>1, <2>1, <2>2, DownStutter DEF DownQueue
<1>2. CASE Connect
  BY <1>1, <1>2 DEF Connect, slaveVars, countVars
<1>3. CASE MasterPoll
  BY <1>1, <1>3 DEF MasterPoll, slaveVars, countVars
<1>4. CASE MasterRecv
  BY <1>1, <1>4 DEF MasterRecv, StartBusy, slaveVars
<1>5. ASSUME NEW s \in Slaves, MasterSend(s)
      PROVE  [Down!Next]_(Down!linkVars)
  <2>1. \A r \in Slaves : InSlave(r)' = InSlave(r)
    BY <1>5 DEF MasterSend, slaveVars, InSlave
  <2>2. \A r \in Slaves : ~MasterHolds(r) /\ InMaster(r) = <<>>
    BY <1>5 DEF MasterSend, MasterHolds, InMaster
  <2>3. \A r \in Slaves \ {s} : InMaster(r)' = <<>>
    BY <1>5 DEF MasterSend, MasterHolds, InMaster
  <2>4. CASE s \in EnumSlaves
    <3>1. \A r \in OrdinarySlaves : DownQueue(r)' = DownQueue(r)
      BY <2>1, <2>2, <2>3, <2>4 DEF DownQueue
    <3>2. \A r \in OrdinarySlaves : downSent'[r] = downSent[r]
      BY <1>5, <2>4 DEF MasterSend, TypeOK
    <3>3. UNCHANGED downGot
      BY <1>5 DEF MasterSend
    <3>4. QED
      BY <3>1, <3>2, <3>3 DEF Down!linkVars
  <2>5. CASE s \in OrdinarySlaves
    <3>1. master_seq_seen[s] # master_seq[s]
      BY <2>2 DEF DownInv
    <3>2. downSent[s] \in Nat
      BY ConstantsAssumption DEF TypeOK
    <3>3. InMaster(s)' = <<downSent[s] + 1>>
      BY <1>5, <3>1, <3>2
         DEF MasterSend, slaveVars, InMaster, MasterHolds
    <3>4. InSlave(s) = <<>> \/ \E m \in Nat : InSlave(s) = <<m>>
      <4>1. slave_buffer_recv[s] > NoMsg => slave_buffer_recv[s] \in Nat
        BY DEF TypeOK
      <4>2. QED
        BY <4>1 DEF InSlave
    <3>5. downSent[s] + 1 \in Nat
      BY <3>2
    <3>6. /\ DownQueue(s)' = Append(DownQueue(s), downSent[s] + 1)
          /\ Len(DownQueue(s)) < 2
      <4> DEFINE n == downSent[s] + 1
      <4>1. DownQueue(s) = InSlave(s) \o <<>>
            /\ DownQueue(s)' = InSlave(s) \o <<n>>
        BY <2>1, <2>2, <3>3 DEF DownQueue
      <4> HIDE DEF n
      <4>2. CASE InSlave(s) = <<>>
        <5>1. DownQueue(s) = <<>> /\ DownQueue(s)' = <<n>>
          BY <3>5, <4>1, <4>2, ShortSequences DEF n
        <5>2. QED
          BY <3>5, <5>1, ShortSequences DEF n
      <4>3. ASSUME NEW m \in Nat, InSlave(s) = <<m>>
            PROVE  /\ DownQueue(s)' = Append(DownQueue(s), n)
                   /\ Len(DownQueue(s)) < 2
        <5>1. DownQueue(s) = <<m>> /\ DownQueue(s)' = <<m, n>>
          BY <3>5, <4>1, <4>3, ShortSequences DEF n
        <5>2. QED
          BY <3>5, <5>1, ShortSequences DEF n
      <4>4. QED
        BY <3>4, <4>2, <4>3 DEF n
    <3>7. \A r \in OrdinarySlaves \ {s} : DownQueue(r)' = DownQueue(r)
      BY <2>1, <2>2, <2>3 DEF DownQueue
    <3>8. /\ downSent' = [downSent EXCEPT ![s] = downSent[s] + 1]
          /\ UNCHANGED downGot
      BY <1>5 DEF MasterSend
    <3>9. Down!Accept(s)
      BY <2>5, <3>6, <3>7, <3>8 DEF Down!Accept, TypeOK
    <3>10. QED
      BY <2>5, <3>9 DEF Down!Next
  <2>6. QED
    BY <2>4, <2>5
<1>6. ASSUME NEW toSlave \in BOOLEAN, NEW toMaster \in BOOLEAN,
             Transfer(toSlave, toMaster)
      PROVE  UNCHANGED Down!linkVars
  <2> DEFINE c == stack_address_current
  <2>1. /\ stack_address_current' = c
        /\ UNCHANGED <<slave_buffer_recv, master_seq_seen, downSent, downGot>>
        /\ MasterHolds(c)
        /\ c \in Slaves
    BY <1>6 DEF Transfer, slaveVars, countVars, MasterHolds, TypeOK
  <2>2. \A s \in Slaves : InSlave(s)' = InSlave(s)
    BY <2>1 DEF InSlave
  <2>3. \A s \in Slaves \ {c} : InMaster(s)' = <<>> /\ InMaster(s) = <<>>
    BY <2>1 DEF InMaster, MasterHolds
  <2>4. InMaster(c)' = InMaster(c)
    <3>1. CASE toMaster /\ FrameDone(c, SlaveFrame(c))
      <4>1. transceive_state' = "EMPTY"
        BY <1>6, <3>1 DEF Transfer, GoodAnswer
      <4>2. InMaster(c)' = <<>>
        BY <4>1 DEF InMaster, MasterHolds
      <4>3. master_seq_seen[c] = master_seq[c] \/ master_buffer_send = NoMsg
        BY <3>1 DEF FrameDone, SlaveFrame
      <4>4. QED
        BY <4>2, <4>3 DEF InMaster
    <3>2. CASE ~(toMaster /\ FrameDone(c, SlaveFrame(c)))
      <4>1. /\ UNCHANGED <<master_seq, master_buffer_send>>
            /\ transceive_state' = "READY"
        BY <1>6, <3>2 DEF Transfer, GoodAnswer, BadAnswer
      <4>2. QED
        BY <2>1, <4>1 DEF InMaster, MasterHolds
    <3>3. QED
      BY <3>1, <3>2
  <2>5. \A s \in OrdinarySlaves : DownQueue(s)' = DownQueue(s)
    BY <2>1, <2>2, <2>3, <2>4 DEF DownQueue
  <2>6. QED
    BY <2>1, <2>5, DownStutter
<1>7. ASSUME NEW s \in Slaves, SlaveIrq(s)
      PROVE  UNCHANGED Down!linkVars
  <2> DEFINE f == dma_recv[s]
  <2>1. /\ UNCHANGED <<transceive_state, stack_address_current,
                       master_buffer_send, master_seq, downSent, downGot>>
        /\ \A r \in Slaves \ {s} :
             /\ slave_buffer_recv'[r] = slave_buffer_recv[r]
             /\ master_seq_seen'[r] = master_seq_seen[r]
    BY <1>7 DEF SlaveIrq, masterVars, countVars, TypeOK
  <2>2. \A r \in Slaves : MasterHolds(r)' = MasterHolds(r)
    BY <2>1 DEF MasterHolds
  <2>3. \A r \in Slaves \ {s} :
          InSlave(r)' = InSlave(r) /\ InMaster(r)' = InMaster(r)
    BY <2>1, <2>2 DEF InSlave, InMaster
  <2>4. f \in Frames /\ f # NoFrame
    BY <1>7 DEF SlaveIrq, SeenAfter, Stored, FrameIsFresh, TypeOK
  <2>5. f.msg \in Nat
    BY <2>4 DEF Frames
  <2>6. DownQueue(s)' = DownQueue(s)
    <3>1. CASE f.msn = master_seq_seen[s] \/ slave_buffer_recv[s] # NoMsg
      <4>1. /\ slave_buffer_recv' = slave_buffer_recv
            /\ master_seq_seen' = master_seq_seen
        BY <1>7, <3>1 DEF SlaveIrq, SeenAfter, Stored, FrameIsFresh, TypeOK
      <4>2. QED
        BY <2>1, <2>2, <4>1 DEF DownQueue, InSlave, InMaster
    <3>2. CASE f.msn # master_seq_seen[s] /\ slave_buffer_recv[s] = NoMsg
      <4>1. /\ slave_buffer_recv'[s] = f.msg
            /\ master_seq_seen'[s] = f.msn
            /\ InSlave(s) = <<>>
        BY <1>7, <3>2
           DEF SlaveIrq, SeenAfter, Stored, FrameIsFresh, TypeOK, InSlave
      <4>2. CASE f.msn = master_seq[s]
        <5>1. MasterHolds(s) /\ f.msg = master_buffer_send
          BY <2>4, <4>2 DEF DownInv
        <5>2. master_seq_seen[s] # master_seq[s]
          BY <3>2, <4>2
        <5>3. InMaster(s)' = <<>>
          BY <2>1, <4>1, <4>2 DEF InMaster
        <5>4. CASE f.msg = NoMsg
          <6>1. InSlave(s)' = <<>> /\ InMaster(s) = <<>>
            BY <4>1, <5>1, <5>4 DEF InSlave, InMaster
          <6>2. QED
            BY <4>1, <5>3, <6>1 DEF DownQueue
        <5>5. CASE f.msg # NoMsg
          <6>1. InSlave(s)' = <<f.msg>>
            BY <2>5, <4>1, <5>5 DEF InSlave
          <6>2. InMaster(s) = <<f.msg>>
            BY <5>1, <5>2, <5>5 DEF InMaster
          <6>3. QED
            BY <2>5, <4>1, <5>3, <6>1, <6>2, ShortSequences DEF DownQueue
        <5>6. QED
          BY <5>4, <5>5
      <4>3. CASE f.msn # master_seq[s]
        <5>1. f.msg = NoMsg /\ master_seq_seen[s] # master_seq[s]
          BY <2>4, <3>2, <4>3 DEF DownInv
        <5>2. InSlave(s)' = <<>>
          BY <4>1, <5>1 DEF InSlave
        <5>3. InMaster(s)' = InMaster(s)
          BY <2>1, <2>2, <4>1, <4>3, <5>1 DEF InMaster
        <5>4. QED
          BY <4>1, <5>2, <5>3 DEF DownQueue
      <4>4. QED
        BY <4>2, <4>3
    <3>3. QED
      BY <3>1, <3>2
  <2>7. \A r \in OrdinarySlaves : DownQueue(r)' = DownQueue(r)
    BY <2>3, <2>6 DEF DownQueue
  <2>8. QED
    BY <2>1, <2>7, DownStutter
<1>8. ASSUME NEW s \in Slaves, SlaveSend(s)
      PROVE  UNCHANGED Down!linkVars
  BY <1>1, <1>8 DEF SlaveSend, masterVars
<1>9. ASSUME NEW s \in Slaves, SlaveRecv(s)
      PROVE  [Down!Next]_(Down!linkVars)
  <2>1. /\ UNCHANGED <<transceive_state, stack_address_current,
                       master_buffer_send, master_seq, master_seq_seen,
                       downSent>>
        /\ \A r \in Slaves \ {s} :
             /\ slave_buffer_recv'[r] = slave_buffer_recv[r]
             /\ downGot'[r] = downGot[r]
        /\ slave_buffer_recv'[s] = NoMsg
    BY <1>9 DEF SlaveRecv, masterVars, TypeOK
  <2>2. \A r \in Slaves : InMaster(r)' = InMaster(r)
    BY <2>1 DEF InMaster, MasterHolds
  <2>3. \A r \in Slaves \ {s} : DownQueue(r)' = DownQueue(r)
    BY <2>1, <2>2 DEF DownQueue, InSlave
  <2>4. CASE s \in EnumSlaves
    BY <2>1, <2>3, <2>4 DEF Down!linkVars
  <2>5. CASE s \in OrdinarySlaves
    <3>1. slave_buffer_recv[s] \in Nat /\ slave_buffer_recv[s] > NoMsg
      BY <1>9, <2>5 DEF SlaveRecv, NoOwnRequest, TypeOK
    <3>2. downGot' = [downGot EXCEPT ![s] = slave_buffer_recv[s]]
      BY <1>9, <3>1 DEF SlaveRecv
    <3>3. InSlave(s) = <<slave_buffer_recv[s]>> /\ InSlave(s)' = <<>>
      BY <2>1, <3>1 DEF InSlave
    <3>4. InMaster(s) = <<>> \/ \E m \in Nat : InMaster(s) = <<m>>
      BY DEF InMaster, TypeOK
    <3>5. /\ DownQueue(s) # <<>>
          /\ Head(DownQueue(s)) = slave_buffer_recv[s]
          /\ DownQueue(s)' = Tail(DownQueue(s))
      <4> DEFINE m == slave_buffer_recv[s]
      <4>1. /\ DownQueue(s) = <<m>> \o InMaster(s)
            /\ DownQueue(s)' = <<>> \o InMaster(s)
        BY <2>2, <3>3 DEF DownQueue
      <4> HIDE DEF m
      <4>2. CASE InMaster(s) = <<>>
        <5>1. DownQueue(s) = <<m>> /\ DownQueue(s)' = <<>>
          BY <3>1, <4>1, <4>2, ShortSequences DEF m
        <5>2. QED
          BY <3>1, <5>1, ShortSequences DEF m
      <4>3. ASSUME NEW n \in Nat, InMaster(s) = <<n>>
            PROVE  /\ DownQueue(s) # <<>>
                   /\ Head(DownQueue(s)) = m
                   /\ DownQueue(s)' = Tail(DownQueue(s))
        <5>1. DownQueue(s) = <<m, n>> /\ DownQueue(s)' = <<n>>
          BY <3>1, <4>1, <4>3, ShortSequences DEF m
        <5>2. QED
          BY <3>1, <5>1, ShortSequences DEF m
      <4>4. QED
        BY <3>4, <4>2, <4>3 DEF m
    <3>6. Down!Deliver(s)
      BY <2>1, <2>3, <2>5, <3>2, <3>5 DEF Down!Deliver, TypeOK
    <3>7. QED
      BY <2>5, <3>6 DEF Down!Next
  <2>6. QED
    BY <2>4, <2>5
<1>10. ASSUME NEW s \in Slaves, SlaveTimerElapsed(s)
       PROVE  UNCHANGED Down!linkVars
  BY <1>1, <1>10 DEF SlaveTimerElapsed, masterVars, countVars
<1>11. ASSUME NEW s \in Slaves, SlaveAddEnumerate(s)
       PROVE  UNCHANGED Down!linkVars
  <2>1. s \notin OrdinarySlaves
    BY <1>11 DEF SlaveAddEnumerate, NoOwnRequest
  <2>2. /\ UNCHANGED <<transceive_state, stack_address_current,
                       master_buffer_send, master_seq, master_seq_seen,
                       downSent, downGot>>
        /\ \A r \in OrdinarySlaves :
             slave_buffer_recv'[r] = slave_buffer_recv[r]
    BY <1>11, <2>1 DEF SlaveAddEnumerate, masterVars, countVars, TypeOK
  <2>3. \A r \in OrdinarySlaves : DownQueue(r)' = DownQueue(r)
    BY <2>2 DEF DownQueue, InSlave, InMaster, MasterHolds
  <2>4. QED
    BY <2>2, <2>3, DownStutter
<1>12. CASE UNCHANGED vars
  BY <1>1, <1>12 DEF vars, masterVars, slaveVars, countVars
<1>13. QED
  BY <1>2, <1>3, <1>4, <1>5, <1>6, <1>7, <1>8, <1>9, <1>10, <1>11, <1>12
     DEF Next

\* However transfers fail, an ordinary slave's message loop reads exactly the
\* messages spi_stack_master_send accepted for it, in order and once each.
THEOREM DownRefinement == Spec => DownLink
<1>1. Init => Down!Init
  <2>1. SUFFICES ASSUME Init PROVE Down!Init
    OBVIOUS
  <2>2. \A s \in OrdinarySlaves : InSlave(s) = <<>> /\ InMaster(s) = <<>>
    BY <2>1 DEF Init, InSlave, InMaster, MasterHolds, OrdinarySlaves
  <2>3. \A s \in OrdinarySlaves : DownQueue(s) = <<>>
    BY <2>2 DEF DownQueue
  <2>4. QED
    BY <2>1, <2>3 DEF Init, Down!Init, OrdinarySlaves
<1>2. QED
  BY <1>1, DownStep, TypeCorrect, DownInvariant, NoOwnRequestInvariant, PTL
     DEF Spec, DownLink, Down!Spec

-----------------------------------------------------------------------------
(* The master's receive buffer, the target of its DMA.                     *)

\* Every start of a transfer looks at the receive buffer first or empties it
\* (spi_stack_master_recv, spi_stack_master_send): no transfer runs while a
\* message waits there.
THEOREM UnreadIsSafe == Spec => []UnreadMessageIsSafe
<1>1. Init => UnreadMessageIsSafe
  BY DEF Init, UnreadMessageIsSafe
<1>2. UnreadMessageIsSafe /\ [Next]_vars => UnreadMessageIsSafe'
  <2> SUFFICES ASSUME UnreadMessageIsSafe, [Next]_vars
               PROVE  UnreadMessageIsSafe'
    OBVIOUS
  <2> USE DEF UnreadMessageIsSafe
  <2>1. CASE Connect
    BY <2>1 DEF Connect
  <2>2. CASE MasterPoll
    BY <2>2 DEF MasterPoll
  <2>3. CASE MasterRecv
    BY <2>3 DEF MasterRecv
  <2>4. CASE \E s \in Slaves : MasterSend(s)
    BY <2>4 DEF MasterSend, RecvBufferFree
  <2>5. ASSUME NEW toSlave \in BOOLEAN, NEW toMaster \in BOOLEAN,
               Transfer(toSlave, toMaster)
        PROVE  UnreadMessageIsSafe'
    BY <2>5 DEF Transfer, GoodAnswer, BadAnswer
  <2>6. ASSUME NEW s \in Slaves,
               \/ SlaveIrq(s) \/ SlaveSend(s) \/ SlaveRecv(s)
               \/ SlaveTimerElapsed(s) \/ SlaveAddEnumerate(s)
        PROVE  UnreadMessageIsSafe'
    BY <2>6 DEF SlaveIrq, SlaveSend, SlaveRecv, SlaveTimerElapsed,
                SlaveAddEnumerate, masterVars
  <2>7. CASE UNCHANGED vars
    BY <2>7 DEF vars, masterVars
  <2>8. QED
    BY <2>1, <2>2, <2>3, <2>4, <2>5, <2>6, <2>7 DEF Next
<1>3. QED
  BY <1>1, <1>2, PTL DEF Spec

-----------------------------------------------------------------------------
(* What a slave stores, its own enumerate requests included.               *)

\* The message in the master's frame to slave s is the last one accepted for s;
\* all the others are stored, and it is too once the slave has seen its number.
Waiting(s) ==
  MasterHolds(s) /\ master_buffer_send # NoMsg /\ master_seq_seen[s] # master_seq[s]

StoredInvOf(s) ==
  /\ MasterHolds(s) /\ master_buffer_send # NoMsg => master_buffer_send = downSent[s]
  /\ downStored[s] = IF Waiting(s) THEN downSent[s] - 1 ELSE downSent[s]

StoredInv == \A s \in Slaves : StoredInvOf(s)

\* A step that leaves what StoredInvOf reads of the slaves, or starts a frame
\* that is empty or was there before.
LEMMA StoredKept ==
  ASSUME StoredInv,
         UNCHANGED <<downStored, downSent, master_seq_seen, master_seq>>,
         \/ StartEmpty
         \/ UNCHANGED <<transceive_state, stack_address_current,
                        master_buffer_send>>
  PROVE  StoredInv'
BY DEF StoredInv, StoredInvOf, Waiting, StartEmpty, MasterHolds

\* What SlaveIrq stores: nothing or an empty message, or the message of the
\* master's current frame, which slave s had not seen.
LEMMA SlaveIrqStores ==
  ASSUME TypeOK, DownInv, NEW s \in Slaves, SlaveIrq(s)
  PROVE  \/ /\ slave_buffer_recv'[s] \in {slave_buffer_recv[s], NoMsg}
            /\ downStored'[s] = downStored[s]
            /\ Waiting(s)' = Waiting(s)
         \/ /\ slave_buffer_recv'[s] = master_buffer_send
            /\ downStored'[s] = master_buffer_send
            /\ Waiting(s) /\ ~Waiting(s)'
<1> DEFINE f == dma_recv[s]
<1>1. f # NoFrame /\ UNCHANGED <<masterVars, countVars>>
  BY DEF SlaveIrq
<1>2. MasterHolds(s)' = MasterHolds(s)
  BY <1>1 DEF masterVars, MasterHolds
<1>3. CASE ~Stored(s, f)
  BY <1>1, <1>2, <1>3 DEF SlaveIrq, SeenAfter, TypeOK, Waiting, masterVars
<1>4. CASE Stored(s, f)
  <2>1. /\ slave_buffer_recv'[s] = f.msg
        /\ master_seq_seen'[s] = f.msn
        /\ downStored'[s] = IF f.msg # NoMsg THEN f.msg ELSE downStored[s]
        /\ f.msn # master_seq_seen[s]
    BY <1>4 DEF SlaveIrq, SeenAfter, Stored, FrameIsFresh, TypeOK
  <2>2. CASE f.msn = master_seq[s]
    <3>1. MasterHolds(s) /\ f.msg = master_buffer_send
      BY <1>1, <2>2 DEF DownInv
    <3>2. QED
      BY <1>1, <1>2, <2>1, <2>2, <3>1 DEF Waiting, masterVars
  <2>3. CASE f.msn # master_seq[s]
    <3>1. f.msg = NoMsg /\ master_seq_seen[s] # master_seq[s]
      BY <1>1, <2>1, <2>3 DEF DownInv
    <3>2. QED
      BY <1>1, <1>2, <2>1, <2>3, <3>1 DEF Waiting, masterVars
  <2>4. QED
    BY <2>2, <2>3
<1>5. QED
  BY <1>3, <1>4

\* What a slave has stored follows what the master has accepted
\* (spi_stack_master_send, spi_stack_slave_handle_irq_recv).
LEMMA StoredInvariant == Spec => []StoredInv
<1>1. Init => StoredInv
  BY DEF Init, StoredInv, StoredInvOf, Waiting, MasterHolds
<1>2. TypeOK /\ DownInv /\ StoredInv /\ [Next]_vars => StoredInv'
  <2> SUFFICES ASSUME TypeOK, DownInv, StoredInv, [Next]_vars
               PROVE  StoredInv'
    OBVIOUS
  <2>1. CASE Connect
    BY <2>1, StoredKept DEF Connect, slaveVars, countVars
  <2>2. CASE MasterPoll
    BY <2>2, StoredKept DEF MasterPoll, slaveVars, countVars
  <2>3. CASE MasterRecv
    BY <2>3, StoredKept DEF MasterRecv, StartBusy, slaveVars
  <2>4. ASSUME NEW s \in Slaves, MasterSend(s) PROVE StoredInv'
    <3>1. /\ UNCHANGED <<downStored, master_seq_seen, master_seq>>
          /\ downSent'[s] = downSent[s] + 1
          /\ master_buffer_send' = downSent[s] + 1
          /\ \A r \in Slaves : ~MasterHolds(r)
          /\ \A r \in Slaves \ {s} :
               downSent'[r] = downSent[r] /\ ~MasterHolds(r)'
      BY <2>4 DEF MasterSend, slaveVars, MasterHolds, TypeOK
    <3>2. MasterHolds(s)'
      BY <2>4 DEF MasterSend, MasterHolds
    <3>3. downSent[s] \in Nat /\ master_seq_seen[s] # master_seq[s]
      BY <3>1, ConstantsAssumption DEF TypeOK, DownInv
    <3>4. \A r \in Slaves : downStored[r] = downSent[r]
      BY <3>1 DEF StoredInv, StoredInvOf, Waiting
    <3>5. StoredInvOf(s)'
      BY <3>1, <3>2, <3>3, <3>4 DEF StoredInvOf, Waiting, NoMsg
    <3>6. \A r \in Slaves \ {s} : StoredInvOf(r)'
      BY <3>1, <3>4 DEF StoredInvOf, Waiting
    <3>7. QED
      BY <3>5, <3>6 DEF StoredInv
  <2>5. ASSUME NEW toSlave \in BOOLEAN, NEW toMaster \in BOOLEAN,
               Transfer(toSlave, toMaster)
        PROVE  StoredInv'
    <3> DEFINE c == stack_address_current
    <3>1. /\ UNCHANGED <<downStored, downSent, master_seq_seen,
                         stack_address_current>>
          /\ MasterHolds(c) /\ c \in Slaves
      BY <2>5 DEF Transfer, slaveVars, countVars, MasterHolds, TypeOK
    <3>2. \/ UNCHANGED <<master_seq, master_buffer_send>> /\ transceive_state' # "EMPTY"
          \/ /\ transceive_state' = "EMPTY"
             /\ master_seq_seen[c] = master_seq[c] \/ master_buffer_send = NoMsg
      BY <2>5 DEF Transfer, GoodAnswer, BadAnswer, FrameDone, SlaveFrame
    <3>3. CASE transceive_state' # "EMPTY"
      BY <3>1, <3>2, <3>3 DEF StoredInv, StoredInvOf, Waiting, MasterHolds
    <3>4. CASE transceive_state' = "EMPTY"
      <4>1. \A r \in Slaves : ~MasterHolds(r)'
        BY <3>4 DEF MasterHolds
      <4>2. \A r \in Slaves : ~Waiting(r)
        BY <3>1, <3>2, <3>4 DEF Waiting, MasterHolds
      <4>3. QED
        BY <3>1, <4>1, <4>2 DEF StoredInv, StoredInvOf, Waiting
    <3>5. QED
      BY <3>3, <3>4
  <2>6. ASSUME NEW s \in Slaves, SlaveIrq(s) PROVE StoredInv'
    <3>1. /\ UNCHANGED <<downSent, master_seq, master_buffer_send,
                         transceive_state, stack_address_current>>
          /\ \A r \in Slaves \ {s} :
               /\ downStored'[r] = downStored[r]
               /\ master_seq_seen'[r] = master_seq_seen[r]
      BY <2>6 DEF SlaveIrq, masterVars, countVars, TypeOK
    <3>2. \A r \in Slaves : MasterHolds(r)' = MasterHolds(r)
      BY <3>1 DEF MasterHolds
    <3>3. StoredInvOf(s)'
      BY <2>6, <3>1, <3>2, SlaveIrqStores DEF StoredInv, StoredInvOf, Waiting
    <3>4. QED
      BY <3>1, <3>2, <3>3 DEF StoredInv, StoredInvOf, Waiting
  <2>7. ASSUME NEW s \in Slaves,
               SlaveSend(s) \/ SlaveRecv(s) \/ SlaveTimerElapsed(s) \/ SlaveAddEnumerate(s)
        PROVE  StoredInv'
    BY <2>7, StoredKept DEF SlaveSend, SlaveRecv, SlaveTimerElapsed, SlaveAddEnumerate,
                            masterVars, countVars
  <2>8. CASE UNCHANGED vars
    BY <2>8, StoredKept DEF vars, masterVars, slaveVars, countVars
  <2>9. QED
    BY <2>1, <2>2, <2>3, <2>4, <2>5, <2>6, <2>7, <2>8 DEF Next
<1>3. QED
  BY <1>1, <1>2, TypeCorrect, DownInvariant, PTL DEF Spec

\* spi_stack_slave_handle_irq_recv stores a frame again only if its number is
\* new, so what it stores is the message after the one it stored last, also when
\* the slave's own enumerate request replaced that one before it was read.
THEOREM StoredOnce == Spec => NothingStoredTwice
<1>1. ASSUME TypeOK, DownInv, StoredInv, [Next]_vars, NEW r \in Slaves
      PROVE  \/ slave_buffer_recv'[r] \in {slave_buffer_recv[r], NoMsg, EnumMsg}
             \/ slave_buffer_recv'[r] = downStored[r] + 1
  <2>1. CASE UNCHANGED slave_buffer_recv
    BY <2>1
  <2>2. ASSUME NEW s \in Slaves, SlaveIrq(s)
        PROVE  \/ slave_buffer_recv'[r] \in {slave_buffer_recv[r], NoMsg, EnumMsg}
               \/ slave_buffer_recv'[r] = downStored[r] + 1
    <3>1. CASE r # s
      BY <1>1, <2>2, <3>1 DEF SlaveIrq, TypeOK
    <3>2. CASE r = s
      <4>1. \/ slave_buffer_recv'[s] \in {slave_buffer_recv[s], NoMsg}
            \/ slave_buffer_recv'[s] = master_buffer_send /\ Waiting(s)
        BY <1>1, <2>2, SlaveIrqStores
      <4>2. downSent[s] \in Nat
        BY <1>1, ConstantsAssumption DEF TypeOK
      <4>3. QED
        BY <1>1, <3>2, <4>1, <4>2 DEF StoredInv, StoredInvOf, Waiting
    <3>3. QED
      BY <3>1, <3>2
  <2>3. ASSUME NEW s \in Slaves, SlaveRecv(s) \/ SlaveAddEnumerate(s)
        PROVE  slave_buffer_recv'[r] \in {slave_buffer_recv[r], NoMsg, EnumMsg}
    BY <1>1, <2>3 DEF SlaveRecv, SlaveAddEnumerate, TypeOK
  <2>4. QED
    BY <1>1, <2>1, <2>2, <2>3
       DEF Next, Connect, MasterPoll, MasterRecv, MasterSend, Transfer,
           SlaveSend, SlaveTimerElapsed, vars, slaveVars
<1>2. TypeOK /\ DownInv /\ StoredInv /\ [Next]_vars =>
        [\A s \in Slaves :
           \/ slave_buffer_recv'[s] \in {slave_buffer_recv[s], NoMsg, EnumMsg}
           \/ slave_buffer_recv'[s] = downStored[s] + 1]_vars
  BY <1>1
<1>3. QED
  BY <1>2, TypeCorrect, DownInvariant, StoredInvariant, PTL
     DEF Spec, NothingStoredTwice

-----------------------------------------------------------------------------
(* The direction from the slaves to the master is a reliable FIFO, as long *)
(* as the master misses no more than SlaveSeqMax - 2 answers in a row.     *)

\* How many numbers slave s has used since the one the master knows: the
\* counter runs through 1..SlaveSeqMax.
Ahead(seq, seen) == IF seq >= seen THEN seq - seen ELSE seq - seen + SlaveSeqMax

\* The slave's number is not one the master could take for the one it knows: a
\* number is used up by an interrupt, and of those there has been one for each
\* missed answer and one for the answer before.  A frame the interrupt has not
\* looked at carries a number that is the slave's only if the master knows it.
UpInvOf(s) ==
  /\ dma_recv[s] = NoFrame => Ahead(slave_seq[s], slave_seq_seen[s]) <= burst[s] + 1
  /\ dma_recv[s] # NoFrame =>
       /\ Ahead(slave_seq[s], slave_seq_seen[s]) <= burst[s]
       /\ slave_seq_seen[s] \in {dma_recv[s].ssn, slave_seq[s]}

UpInv == \A s \in Slaves : UpInvOf(s)

\* spi_stack_increase_slave_seq: short of a full round, the next number is one
\* further ahead, and none the master knows.
LEMMA AheadStep ==
  ASSUME NEW q \in 0..SlaveSeqMax, NEW k \in 0..SlaveSeqMax,
         Ahead(q, k) <= SlaveSeqMax - 2
  PROVE  /\ increase_slave_seq(q) # k
         /\ Ahead(increase_slave_seq(q), k) = Ahead(q, k) + 1
BY ConstantsAssumption DEF Ahead, increase_slave_seq

\* The interrupt of a slave that prepares its next frame does not use a number
\* the master knows.
LEMMA IrqNumber ==
  ASSUME MaxBurst <= SlaveSeqMax - 2, TypeOK, UpInv,
         NEW s \in Slaves, dma_recv[s] # NoFrame
  PROVE  /\ increase_slave_seq(slave_seq[s]) # slave_seq_seen[s]
         /\ Ahead(increase_slave_seq(slave_seq[s]), slave_seq_seen[s])
              <= burst[s] + 1
<1>1. /\ Ahead(slave_seq[s], slave_seq_seen[s]) <= burst[s]
  BY DEF UpInv, UpInvOf
<1>2. /\ burst[s] \in Nat /\ burst[s] <= MaxBurst
      /\ slave_seq[s] \in 0..SlaveSeqMax /\ slave_seq_seen[s] \in 0..SlaveSeqMax
  BY ConstantsAssumption DEF TypeOK
<1>3. Ahead(slave_seq[s], slave_seq_seen[s]) \in Int
  BY <1>2, ConstantsAssumption DEF Ahead
<1>4. Ahead(slave_seq[s], slave_seq_seen[s]) <= SlaveSeqMax - 2
  BY <1>1, <1>2, <1>3, ConstantsAssumption
<1>5. QED
  BY <1>1, <1>2, <1>3, <1>4, AheadStep

\* A step that leaves what UpInvOf reads alone.
LEMMA UpInvKept ==
  ASSUME UpInv, UNCHANGED <<slave_seq, slave_seq_seen, dma_recv, burst>>
  PROVE  UpInv'
BY DEF UpInv, UpInvOf

\* A slave never gets a full round of numbers ahead of the master.
LEMMA UpInvariant ==
  ASSUME MaxBurst <= SlaveSeqMax - 2
  PROVE  Spec => []UpInv
<1>1. Init => UpInv
  BY ConstantsAssumption DEF Init, UpInv, UpInvOf, Ahead
<1>2. TypeOK /\ UpInv /\ [Next]_vars => UpInv'
  <2> SUFFICES ASSUME TypeOK, UpInv, [Next]_vars PROVE UpInv'
    OBVIOUS
  <2>1. CASE Connect \/ MasterPoll \/ MasterRecv
    BY <2>1, UpInvKept DEF Connect, MasterPoll, MasterRecv, slaveVars
  <2>2. CASE \E s \in Slaves : MasterSend(s)
    BY <2>2, UpInvKept DEF MasterSend, slaveVars
  <2>3. ASSUME NEW toSlave \in BOOLEAN, NEW toMaster \in BOOLEAN,
               Transfer(toSlave, toMaster)
        PROVE  UpInv'
    <3> PICK c \in Slaves : c = stack_address_current
      BY DEF TypeOK
    <3>1. /\ slave_seq' = slave_seq
          /\ burst[c] \in Nat
          /\ slave_seq[c] \in 0..SlaveSeqMax
      BY <2>3, ConstantsAssumption DEF Transfer, slaveVars, TypeOK
    <3>2. \A r \in Slaves \ {c} : UpInvOf(r)'
      <4>1. \A r \in Slaves \ {c} : /\ slave_seq_seen'[r] = slave_seq_seen[r]
                                    /\ dma_recv'[r] = dma_recv[r]
                                    /\ burst'[r] = burst[r]
        BY <2>3 DEF Transfer, GoodAnswer, BadAnswer, TypeOK
      <4>2. QED
        BY <3>1, <4>1 DEF UpInv, UpInvOf
    <3>3. CASE toMaster
      <4>1. /\ slave_seq_seen'[c] = slave_seq[c]
            /\ burst'[c] = 0
        BY <2>3, <3>1, <3>3 DEF Transfer, GoodAnswer, SlaveFrame, TypeOK
      <4>2. Ahead(slave_seq[c], slave_seq[c]) = 0
        BY <3>1 DEF Ahead
      <4>3. UpInvOf(c)'
        BY <3>1, <4>1, <4>2 DEF UpInvOf
      <4>4. QED
        BY <3>2, <4>3 DEF UpInv
    <3>4. CASE toSlave /\ ~toMaster
      <4>1. /\ slave_seq_seen' = slave_seq_seen
            /\ burst'[c] = burst[c] + 1
            /\ dma_recv[c] = NoFrame
            /\ dma_recv'[c] = MasterFrame(c)
        BY <2>3, <3>1, <3>4 DEF Transfer, BadAnswer, TypeOK
      <4>2. MasterFrame(c).ssn = slave_seq_seen[c] /\ MasterFrame(c) # NoFrame
        BY <3>1 DEF MasterFrame, NoFrame, TypeOK
      <4>3. UpInvOf(c)'
        BY <3>1, <4>1, <4>2 DEF UpInv, UpInvOf
      <4>4. QED
        BY <3>2, <4>3 DEF UpInv
    <3>5. CASE ~toSlave /\ ~toMaster
      BY <2>3, <3>1, <3>5, UpInvKept DEF Transfer, BadAnswer
    <3>6. QED
      BY <3>3, <3>4, <3>5
  <2>4. ASSUME NEW s \in Slaves, SlaveIrq(s) PROVE UpInv'
    <3>1. /\ UNCHANGED <<slave_seq_seen, burst>>
          /\ dma_recv[s] # NoFrame
          /\ dma_recv'[s] = NoFrame
          /\ slave_seq'[s] \in {slave_seq[s], increase_slave_seq(slave_seq[s])}
          /\ \A r \in Slaves \ {s} :
               slave_seq'[r] = slave_seq[r] /\ dma_recv'[r] = dma_recv[r]
      BY <2>4 DEF SlaveIrq, masterVars, TypeOK
    <3>2. Ahead(slave_seq[s], slave_seq_seen[s]) <= burst[s]
      BY <3>1 DEF UpInv, UpInvOf
    <3>3. /\ burst[s] \in Nat
          /\ Ahead(slave_seq[s], slave_seq_seen[s]) \in Int
      BY ConstantsAssumption DEF TypeOK, Ahead
    <3>4. Ahead(slave_seq'[s], slave_seq_seen[s]) <= burst[s] + 1
      BY <3>1, <3>2, <3>3, IrqNumber
    <3>5. UpInvOf(s)'
      BY <3>1, <3>4 DEF UpInvOf
    <3>6. QED
      BY <3>1, <3>5 DEF UpInv, UpInvOf
  <2>5. ASSUME NEW s \in Slaves,
               \/ SlaveSend(s) \/ SlaveRecv(s)
               \/ SlaveTimerElapsed(s) \/ SlaveAddEnumerate(s)
        PROVE  UpInv'
    BY <2>5, UpInvKept
       DEF SlaveSend, SlaveRecv, SlaveTimerElapsed, SlaveAddEnumerate,
           masterVars
  <2>6. CASE UNCHANGED vars
    BY <2>6, UpInvKept DEF vars, masterVars, slaveVars
  <2>7. QED
    BY <2>1, <2>2, <2>3, <2>4, <2>5, <2>6 DEF Next
<1>3. QED
  BY <1>1, <1>2, TypeCorrect, PTL DEF Spec

\* A message joins a queue of three parts at its end.
LEMMA JoinsLast ==
  ASSUME NEW a \in Seq(Nat), NEW b \in Seq(Nat), NEW n \in Nat
  PROVE  /\ a \o b \o <<n>> = Append(a \o b \o <<>>, n)
         /\ Len(a \o b \o <<>>) = Len(a) + Len(b)
<1>1. a \o b \in Seq(Nat) /\ Len(a \o b) = Len(a) + Len(b)
  BY ConcatProperties
<1>2. a \o b \o <<>> = a \o b
  BY <1>1, ConcatEmptySeq
<1>3. Append(a \o b, n) = a \o b \o <<n>>
  BY <1>1, AppendIsConcat
<1>4. QED
  BY <1>1, <1>2, <1>3

\* What one element and a sequence after it start with and leave.
LEMMA OneBefore ==
  ASSUME NEW n \in Nat, NEW q \in Seq(Nat)
  PROVE  /\ <<n>> \o q # <<>>
         /\ Head(<<n>> \o q) = n
         /\ Tail(<<n>> \o q) = q
<1> DEFINE p == <<n>> \o q
<1>1. <<n>> \in Seq(Nat) /\ Len(<<n>>) = 1 /\ <<n>>[1] = n
  OBVIOUS
<1>2. /\ p \in Seq(Nat)
      /\ Len(p) = Len(q) + 1
      /\ \A i \in 1..Len(p) : p[i] = IF i <= 1 THEN <<n>>[i] ELSE q[i - 1]
  BY <1>1, ConcatProperties
<1>3. p # <<>> /\ Len(q) \in Nat
  BY <1>2
<1> HIDE DEF p
<1>4. Head(p) = n
  BY <1>1, <1>2, <1>3
<1>5. /\ Tail(p) \in Seq(Nat)
      /\ Len(Tail(p)) = Len(q)
      /\ \A i \in 1..Len(q) : Tail(p)[i] = p[i + 1]
  BY <1>2, <1>3, HeadTailProperties
<1>6. \A i \in 1..Len(q) : p[i + 1] = q[i]
  BY <1>2, <1>3, SMTT(20)
<1>7. Tail(p) = q
  BY <1>5, <1>6, SeqEqual
<1>8. QED
  BY <1>3, <1>4, <1>7 DEF p

\* A message leaves a queue of three parts at its front.
LEMMA LeavesFirst ==
  ASSUME NEW n \in Nat, NEW b \in Seq(Nat), NEW c \in Seq(Nat)
  PROVE  /\ <<n>> \o b \o c # <<>>
         /\ Head(<<n>> \o b \o c) = n
         /\ Tail(<<n>> \o b \o c) = <<>> \o b \o c
<1>1. <<n>> \in Seq(Nat) /\ b \o c \in Seq(Nat)
  BY ConcatProperties
<1>2. <<n>> \o b \o c = <<n>> \o (b \o c)
  BY <1>1, ConcatAssociative
<1>3. <<>> \o b \o c = b \o c
  BY ConcatEmptySeq
<1>4. QED
  BY <1>1, <1>2, <1>3, OneBefore

\* A part of a queue of three moves into the empty one before it.
LEMMA MovesUp ==
  ASSUME NEW a \in Seq(Nat), NEW b \in Seq(Nat)
  PROVE  /\ <<>> \o a \o b = a \o <<>> \o b
         /\ a \o <<>> \o b = a \o b \o <<>>
<1>1. a \o b \in Seq(Nat)
  BY ConcatProperties
<1>2. <<>> \o a = a /\ a \o <<>> = a /\ (a \o b) \o <<>> = a \o b
  BY <1>1, ConcatEmptySeq
<1>3. QED
  BY <1>2


\* The three places of a message on its way up hold at most one each.
LEMMA UpParts ==
  ASSUME TypeOK, NEW s \in Slaves
  PROVE  /\ InMasterRecv(s) \in Seq(Nat) /\ Len(InMasterRecv(s)) <= 1
         /\ InFrame(s) \in Seq(Nat) /\ Len(InFrame(s)) <= 1
         /\ InSlaveSend(s) \in Seq(Nat) /\ Len(InSlaveSend(s)) <= 1
<1>1. /\ master_buffer_recv \in Nat /\ dma_send[s] \in Nat
      /\ slave_buffer_send[s] \in Nat
  BY DEF TypeOK
<1>2. /\ <<>> \in Seq(Nat) /\ Len(<<>>) = 0
      /\ \A n \in Nat : <<n>> \in Seq(Nat) /\ Len(<<n>>) = 1
  OBVIOUS
<1>3. QED
  BY <1>1, <1>2 DEF InMasterRecv, InFrame, InSlaveSend

\* A step that leaves every slave's queue and both counts alone.
LEMMA UpStutter ==
  ASSUME \A s \in Slaves : UpQueue(s)' = UpQueue(s), UNCHANGED <<upSent, upGot>>
  PROVE  UNCHANGED Up!linkVars
BY DEF Up!linkVars

\* A step that leaves all that the queues are made of.
LEMMA UpUntouched ==
  ASSUME UNCHANGED <<dma_send, slave_buffer_send, slave_seq, slave_seq_seen,
                     upSent, upGot>>,
         \/ master_buffer_recv = NoMsg /\ master_buffer_recv' = NoMsg
         \/ UNCHANGED <<master_buffer_recv, stack_address_current>>
  PROVE  UNCHANGED Up!linkVars
<1>1. \A s \in Slaves : /\ InMasterRecv(s)' = InMasterRecv(s)
                        /\ InFrame(s)' = InFrame(s)
                        /\ InSlaveSend(s)' = InSlaveSend(s)
  BY DEF InMasterRecv, InFrame, InSlaveSend
<1>2. QED
  BY <1>1, UpStutter DEF UpQueue

\* Every step of master and slaves is one of the reliable FIFO, or none.
LEMMA UpStep ==
  ASSUME MaxBurst <= SlaveSeqMax - 2,
         TypeOK, UnreadMessageIsSafe, UpInv, [Next]_vars
  PROVE  [Up!Next]_(Up!linkVars)
<1>1. CASE Connect \/ MasterPoll
  BY <1>1, UpUntouched DEF Connect, MasterPoll, slaveVars, countVars
<1>2. CASE MasterRecv
  <2> PICK c \in Slaves : c = stack_address_current
    BY DEF TypeOK
  <2> DEFINE n == master_buffer_recv
  <2>1. /\ UNCHANGED <<slave_seq, slave_seq_seen, dma_send, slave_buffer_send,
                       upSent>>
        /\ upGot' = [upGot EXCEPT ![c] = n]
        /\ master_buffer_recv' = NoMsg
        /\ n \in Nat /\ n # NoMsg
    BY <1>2 DEF MasterRecv, slaveVars, TypeOK
  <2>2. \A s \in Slaves : /\ InFrame(s)' = InFrame(s)
                          /\ InSlaveSend(s)' = InSlaveSend(s)
                          /\ InMasterRecv(s)' = <<>>
    BY <2>1 DEF InFrame, InSlaveSend, InMasterRecv
  <2>3. /\ InMasterRecv(c) = <<n>>
        /\ \A s \in Slaves \ {c} : InMasterRecv(s) = <<>>
    BY <2>1 DEF InMasterRecv
  <2>4. /\ UpQueue(c) # <<>>
        /\ Head(UpQueue(c)) = n
        /\ UpQueue(c)' = Tail(UpQueue(c))
    <3>1. /\ UpQueue(c) = <<n>> \o InFrame(c) \o InSlaveSend(c)
          /\ UpQueue(c)' = <<>> \o InFrame(c) \o InSlaveSend(c)
      BY <2>2, <2>3 DEF UpQueue
    <3>2. InFrame(c) \in Seq(Nat) /\ InSlaveSend(c) \in Seq(Nat) /\ n \in Nat
      BY <2>1, UpParts
    <3> HIDE DEF n
    <3>3. /\ <<n>> \o InFrame(c) \o InSlaveSend(c) # <<>>
          /\ Head(<<n>> \o InFrame(c) \o InSlaveSend(c)) = n
          /\ Tail(<<n>> \o InFrame(c) \o InSlaveSend(c))
               = <<>> \o InFrame(c) \o InSlaveSend(c)
      BY <3>2, LeavesFirst, Zenon
    <3>4. QED
      BY <3>1, <3>3, Zenon
  <2>5. \A s \in Slaves \ {c} : UpQueue(s)' = UpQueue(s)
    BY <2>2, <2>3 DEF UpQueue
  <2>6. Up!Deliver(c)
    BY <2>1, <2>4, <2>5 DEF Up!Deliver
  <2>7. QED
    BY <2>6 DEF Up!Next
<1>3. CASE \E s \in Slaves : MasterSend(s)
  BY <1>3, UpUntouched DEF MasterSend, RecvBufferFree, slaveVars
<1>4. ASSUME NEW toSlave \in BOOLEAN, NEW toMaster \in BOOLEAN,
             Transfer(toSlave, toMaster)
      PROVE  UNCHANGED Up!linkVars
  <2> PICK c \in Slaves : c = stack_address_current
    BY DEF TypeOK
  <2>1. /\ UNCHANGED <<slave_seq, dma_send, slave_buffer_send, upSent, upGot,
                       stack_address_current>>
        /\ master_buffer_recv = NoMsg
    BY <1>4 DEF Transfer, slaveVars, countVars, UnreadMessageIsSafe
  <2>2. CASE ~toMaster
    BY <1>4, <2>1, <2>2, UpUntouched DEF Transfer, BadAnswer
  <2>3. CASE toMaster
    <3>1. /\ slave_seq_seen' = [slave_seq_seen EXCEPT ![c] = slave_seq[c]]
          /\ master_buffer_recv' = IF slave_seq[c] # slave_seq_seen[c]
                                   THEN dma_send[c] ELSE NoMsg
      BY <1>4, <2>1, <2>3
         DEF Transfer, GoodAnswer, AnswerIsNew, SlaveFrame
    <3>2. /\ InFrame(c)' = <<>>
          /\ InMasterRecv(c) = <<>>
          /\ InMasterRecv(c)' = InFrame(c)
      BY <2>1, <3>1 DEF InFrame, InMasterRecv, TypeOK
    <3>3. \A s \in Slaves : InSlaveSend(s)' = InSlaveSend(s)
      BY <2>1 DEF InSlaveSend
    <3>4. UpQueue(c)' = UpQueue(c)
      BY <3>2, <3>3, UpParts, MovesUp DEF UpQueue
    <3>5. \A s \in Slaves \ {c} : /\ InFrame(s)' = InFrame(s)
                                  /\ InMasterRecv(s)' = InMasterRecv(s)
      BY <2>1, <3>1 DEF InFrame, InMasterRecv, TypeOK
    <3>6. \A s \in Slaves : UpQueue(s)' = UpQueue(s)
      BY <3>3, <3>4, <3>5 DEF UpQueue
    <3>7. QED
      BY <2>1, <3>6, UpStutter
  <2>4. QED
    BY <2>2, <2>3
<1>5. ASSUME NEW s \in Slaves, SlaveIrq(s)
      PROVE  UNCHANGED Up!linkVars
  <2> DEFINE done == dma_recv[s].ssn = slave_seq[s] \/ dma_send[s] = NoMsg
  <2>1. /\ UNCHANGED <<master_buffer_recv, stack_address_current,
                       slave_seq_seen, upSent, upGot>>
        /\ dma_recv[s] # NoFrame
    BY <1>5 DEF SlaveIrq, masterVars, countVars
  <2>2. CASE ~done
    BY <1>5, <2>1, <2>2, UpUntouched DEF SlaveIrq
  <2>3. CASE done
    <3>1. /\ slave_seq'[s] # slave_seq_seen[s]
          /\ dma_send'[s] = slave_buffer_send[s]
          /\ slave_buffer_send'[s] = NoMsg
          /\ \A r \in Slaves \ {s} :
               /\ slave_seq'[r] = slave_seq[r]
               /\ dma_send'[r] = dma_send[r]
               /\ slave_buffer_send'[r] = slave_buffer_send[r]
      <4>1. slave_seq'[s] = increase_slave_seq(slave_seq[s])
        BY <1>5, <2>3 DEF SlaveIrq, TypeOK
      <4>2. slave_seq'[s] # slave_seq_seen[s]
        BY <2>1, <4>1, IrqNumber
      <4>3. QED
        BY <1>5, <2>3, <4>2 DEF SlaveIrq, TypeOK
    <3>2. dma_send[s] = NoMsg \/ slave_seq_seen[s] = slave_seq[s]
      BY <2>1, <2>3 DEF UpInv, UpInvOf
    <3>3. /\ InFrame(s) = <<>>
          /\ InFrame(s)' = InSlaveSend(s)
          /\ InSlaveSend(s)' = <<>>
      BY <2>1, <3>1, <3>2 DEF InFrame, InSlaveSend
    <3>4. \A r \in Slaves : InMasterRecv(r)' = InMasterRecv(r)
      BY <2>1 DEF InMasterRecv
    <3>5. UpQueue(s)' = UpQueue(s)
      BY <3>3, <3>4, UpParts, MovesUp DEF UpQueue
    <3>6. \A r \in Slaves \ {s} : /\ InFrame(r)' = InFrame(r)
                                  /\ InSlaveSend(r)' = InSlaveSend(r)
      BY <2>1, <3>1 DEF InFrame, InSlaveSend
    <3>7. \A r \in Slaves : UpQueue(r)' = UpQueue(r)
      BY <3>4, <3>5, <3>6 DEF UpQueue
    <3>8. QED
      BY <2>1, <3>7, UpStutter
  <2>4. QED
    BY <2>2, <2>3
<1>6. ASSUME NEW s \in Slaves, SlaveSend(s)
      PROVE  [Up!Next]_(Up!linkVars)
  <2> DEFINE n == upSent[s] + 1
  <2>1. /\ UNCHANGED <<master_buffer_recv, stack_address_current, dma_send,
                       slave_seq, slave_seq_seen, upGot>>
        /\ slave_buffer_send[s] = NoMsg
        /\ slave_buffer_send' = [slave_buffer_send EXCEPT ![s] = n]
        /\ upSent' = [upSent EXCEPT ![s] = n]
    BY <1>6 DEF SlaveSend, masterVars
  <2>2. n \in Nat /\ n # NoMsg
    BY ConstantsAssumption DEF TypeOK
  <2>3. \A r \in Slaves : /\ InMasterRecv(r)' = InMasterRecv(r)
                          /\ InFrame(r)' = InFrame(r)
    BY <2>1 DEF InMasterRecv, InFrame
  <2>4. /\ InSlaveSend(s) = <<>>
        /\ InSlaveSend(s)' = <<n>>
        /\ \A r \in Slaves \ {s} : InSlaveSend(r)' = InSlaveSend(r)
    BY <2>1, <2>2 DEF InSlaveSend, TypeOK
  <2>5. /\ UpQueue(s)' = Append(UpQueue(s), n)
        /\ Len(UpQueue(s)) < 3
    <3> HIDE DEF n
    <3>1. /\ UpQueue(s) = InMasterRecv(s) \o InFrame(s) \o <<>>
          /\ UpQueue(s)' = InMasterRecv(s) \o InFrame(s) \o <<n>>
      BY <2>3, <2>4 DEF UpQueue
    <3>2. Len(UpQueue(s)) = Len(InMasterRecv(s)) + Len(InFrame(s))
      BY <2>2, <3>1, UpParts, JoinsLast
    <3>3. Len(InMasterRecv(s)) \in Nat /\ Len(InFrame(s)) \in Nat
      BY UpParts
    <3>4. Len(UpQueue(s)) < 3
      BY <3>2, <3>3, UpParts
    <3>5. QED
      BY <2>2, <3>1, <3>4, UpParts, JoinsLast
  <2>6. \A r \in Slaves \ {s} : UpQueue(r)' = UpQueue(r)
    BY <2>3, <2>4 DEF UpQueue
  <2>7. Up!Accept(s)
    BY <2>1, <2>5, <2>6 DEF Up!Accept
  <2>8. QED
    BY <2>7 DEF Up!Next
<1>7. ASSUME NEW s \in Slaves,
             \/ SlaveRecv(s) \/ SlaveTimerElapsed(s) \/ SlaveAddEnumerate(s)
      PROVE  UNCHANGED Up!linkVars
  BY <1>7, UpUntouched
     DEF SlaveRecv, SlaveTimerElapsed, SlaveAddEnumerate, masterVars, countVars
<1>8. CASE UNCHANGED vars
  BY <1>8, UpUntouched DEF vars, masterVars, slaveVars, countVars
<1>9. QED
  BY <1>1, <1>2, <1>3, <1>4, <1>5, <1>6, <1>7, <1>8 DEF Next

\* As long as the master misses at most SlaveSeqMax - 2 answers in a row of a
\* slave that hears it, its message loop reads exactly the messages the slaves'
\* spi_stack_slave_send accepted, in order and once each.  (One answer more, and
\* a slave's number can come round to the one the master knows.)
THEOREM UpRefinement ==
  ASSUME MaxBurst <= SlaveSeqMax - 2
  PROVE  Spec => UpLink
<1>1. Init => Up!Init
  <2>1. SUFFICES ASSUME Init PROVE Up!Init
    OBVIOUS
  <2>2. \A s \in Slaves : /\ InMasterRecv(s) = <<>> /\ InFrame(s) = <<>>
                          /\ InSlaveSend(s) = <<>>
    BY <2>1 DEF Init, InMasterRecv, InFrame, InSlaveSend
  <2>3. \A s \in Slaves : UpQueue(s) = <<>>
    BY <2>2 DEF UpQueue
  <2>4. QED
    BY <2>1, <2>3 DEF Init, Up!Init
<1>2. QED
  BY <1>1, UpStep, TypeCorrect, UnreadIsSafe, UpInvariant, PTL
     DEF Spec, UpLink, Up!Spec
=============================================================================
