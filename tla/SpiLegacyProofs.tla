--------------------------- MODULE SpiLegacyProofs --------------------------
(***************************************************************************)
(* Theorems about SpiLegacy, for every number of slaves, of messages and   *)
(* of damaged exchanges.                                                   *)
(***************************************************************************)
EXTENDS SpiLegacy, SequenceTheorems, TLAPS

LgMessage == {NoData} \cup (LgStack \X (1..LgMaxSent))

Directions == {"down", "up"}

\* A message names the slave it is for or from.
LEMMA MessageOf ==
  /\ NoData[1] = 0 /\ 0 \notin LgStack
  /\ \A m \in LgMessage : m # NoData => m[1] \in LgStack
BY LegacyAssumption DEF NoData, LgMessage, LgStack

\* What the two ends of a transfer think of it depends on its data alone as
\* long as no verdict is damaged: they agree.
LEMMA VerdictsAgree ==
  ASSUME ~LgAckDamage, NEW fault \in LgFaults
  PROVE  MasterStores(fault) <=> SlaveStores(fault)
<1>1. /\ fault.down \in BOOLEAN /\ fault.up \in BOOLEAN
      /\ fault.ackDown = FALSE /\ fault.ackUp = FALSE
  BY DEF LgFaults
<1>2. QED
  BY <1>1 DEF MasterStores, SlaveStores, Agreed

\* An exchange moves what both sides have to send, or nothing at all; the slave
\* listens again only with an empty buffer.
LEMMA ExchangeMoves ==
  ASSUME ~LgAckDamage, LgTypeOK, NEW s \in LgStack, NEW fault \in LgFaults,
         LgExchange(s, fault)
  PROVE  /\ \/ lgSend' = lgSend /\ lgRecv' = lgRecv
            \/ /\ lgListens[s]
               /\ lgSend' = [lgSend EXCEPT ![0] = NoData, ![s] = NoData]
               /\ lgRecv' = [lgRecv EXCEPT ![0] = lgSend[s], ![s] = lgSend[0]]
         /\ \/ lgListens' = lgListens /\ lgRecv' = lgRecv
            \/ lgListens' = [lgListens EXCEPT ![s] = (lgRecv'[s] = NoData)]
<1> DEFINE exchanges == lgListens[s] /\ (lgSend[0] # NoData \/ lgSend[s] # NoData)
           stores(n) == IF n = 0 THEN MasterStores(fault) ELSE SlaveStores(fault)
           emptied == {n \in {0, s} : exchanges /\ stores(n)}
           other(n) == IF n = 0 THEN s ELSE 0
<1>1. /\ lgSend' = [n \in LgNodes |-> IF n \in emptied THEN NoData ELSE lgSend[n]]
      /\ lgRecv' = [n \in LgNodes |->
                      IF n \in emptied THEN lgSend[other(n)] ELSE lgRecv[n]]
      /\ lgListens' = IF exchanges
                      THEN [lgListens EXCEPT ![s] = ListensAfter(s, lgRecv'[s])]
                      ELSE lgListens
  BY DEF LgExchange
<1>2. /\ lgSend = [n \in LgNodes |-> lgSend[n]]
      /\ lgRecv = [n \in LgNodes |-> lgRecv[n]]
      /\ s # 0 /\ s \in LgNodes /\ 0 \in LgNodes
  BY MessageOf DEF LgTypeOK, LgNodes
<1>3. CASE ~exchanges \/ ~SlaveStores(fault)
  <2>1. emptied = {}
    BY <1>2, <1>3, VerdictsAgree
  <2> HIDE DEF emptied
  <2>2. lgSend' = lgSend /\ lgRecv' = lgRecv
    BY <1>1, <1>2, <2>1
  <2>3. QED
    BY <1>1, <2>2 DEF ListensAfter
<1>4. CASE exchanges /\ SlaveStores(fault)
  <2>1. emptied = {0, s}
    BY <1>4, VerdictsAgree
  <2> HIDE DEF emptied
  <2>2. /\ lgSend' = [lgSend EXCEPT ![0] = NoData, ![s] = NoData]
        /\ lgRecv' = [lgRecv EXCEPT ![0] = lgSend[s], ![s] = lgSend[0]]
    BY <1>1, <1>2, <2>1
  <2>3. QED
    BY <1>1, <1>4, <2>2 DEF ListensAfter
<1>5. QED
  BY <1>3, <1>4

\* The slave of the master's turn: the one polled, the one spi_stack_send named,
\* or the one routing finds.
LgTurnOf == IF lgSend[0] = NoData THEN lgTurn
            ELSE IF lgTo \in LgStack THEN lgTo ELSE lgSend[0][1]

LEMMA TurnType ==
  ASSUME LgTypeOK
  PROVE  LgTurnOf \in LgStack
<1>1. lgSend[0] \in LgMessage
  BY DEF LgTypeOK, LgNodes, LgMessage
<1>2. QED
  BY <1>1, MessageOf DEF LgTurnOf, LgTypeOK

\* A message in a buffer of the master or a slave, of a type the buffers hold.
LEMMA BufferType ==
  ASSUME LgTypeOK, NEW n \in LgNodes
  PROVE  lgSend[n] \in LgMessage /\ lgRecv[n] \in LgMessage
BY DEF LgTypeOK, LgMessage

\* The type of the histories: one for each direction and slave.
LEMMA HistoryType ==
  ASSUME LgTypeOK, NEW d \in Directions, NEW s \in LgStack
  PROVE  /\ lgGot[d][s] \in Seq(LgMessage)
         /\ lgSent[d][s] \in 0..LgMaxSent
BY DEF LgTypeOK, LgMessage, Directions

\* Buffers hold messages of the stack, the histories only such messages, and
\* the counters stay in their ranges, whatever is damaged (LgTypeOK).
THEOREM LegacyTypeCorrect == LgSpec => []LgTypeOK
<1> USE DEF LgMessage, Directions
<1>1. LgInit => LgTypeOK
  <2> SUFFICES ASSUME LgInit PROVE LgTypeOK
    OBVIOUS
  <2>1. <<>> \in Seq(LgMessage) /\ NoData \in LgMessage
    OBVIOUS
  <2>2. 1 \in LgStack /\ 0 \in 0..LgMaxSent /\ 0 \in 0..LgMaxDamage
    BY LegacyAssumption DEF LgStack
  <2> HIDE DEF LgMessage
  <2>3. /\ lgSend \in [LgNodes -> LgMessage]
        /\ lgRecv \in [LgNodes -> LgMessage]
        /\ lgSent \in [Directions -> [LgStack -> 0..LgMaxSent]]
        /\ lgGot \in [Directions -> [LgStack -> Seq(LgMessage)]]
    BY <2>1, <2>2 DEF LgInit
  <2>4. QED
    BY <2>2, <2>3 DEF LgInit, LgTypeOK, LgMessage
<1>2. LgTypeOK /\ [LgNext]_lgVars => LgTypeOK'
  <2> SUFFICES ASSUME LgTypeOK, [LgNext]_lgVars PROVE LgTypeOK'
    OBVIOUS
  <2>1. CASE LgPcSpeaks
    BY <2>1 DEF LgPcSpeaks, LgTypeOK
  <2>2. ASSUME NEW s \in LgStack, NEW options \in {-1, s}, LgMasterSend(s, options)
        PROVE  LgTypeOK'
    <3>1. lgSent["down"][s] + 1 \in 1..LgMaxSent
      BY <2>2, HistoryType, LegacyAssumption DEF LgMasterSend
    <3>2. /\ lgSent' \in [Directions -> [LgStack -> 0..LgMaxSent]]
          /\ lgTo' \in {-1} \cup LgStack
      BY <2>2, <3>1 DEF LgMasterSend, LgTypeOK
    <3>3. <<s, lgSent["down"][s] + 1>> \in LgMessage
      BY <3>1
    <3>4. lgSend' \in [LgNodes -> LgMessage]
      BY <2>2, <3>3 DEF LgMasterSend, LgTypeOK, LgNodes
    <3>5. QED
      BY <2>2, <3>2, <3>4 DEF LgMasterSend, LgTypeOK
  <2>3. ASSUME NEW s \in LgStack, LgSlaveSend(s) PROVE LgTypeOK'
    <3>1. lgSent["up"][s] + 1 \in 1..LgMaxSent
      BY <2>3, HistoryType, LegacyAssumption DEF LgSlaveSend
    <3>2. /\ lgSent' \in [Directions -> [LgStack -> 0..LgMaxSent]]
          /\ lgSend' \in [LgNodes -> LgMessage]
      BY <2>3, <3>1, SMTT(20) DEF LgSlaveSend, LgTypeOK, LgNodes
    <3>3. QED
      BY <2>3, <3>2 DEF LgSlaveSend, LgTypeOK
  <2>4. ASSUME NEW s \in LgStack, LgSlaveRecv(s) PROVE LgTypeOK'
    <3>1. Append(lgGot["down"][s], lgRecv[s]) \in Seq(LgMessage)
      BY HistoryType, BufferType, AppendProperties DEF LgNodes
    <3>2. /\ lgGot' \in [Directions -> [LgStack -> Seq(LgMessage)]]
          /\ lgRecv' \in [LgNodes -> LgMessage]
          /\ lgListens' \in [LgStack -> BOOLEAN]
      BY <2>4, <3>1 DEF LgSlaveRecv, LgTypeOK, LgNodes, ListensAfter
    <3>3. QED
      BY <2>4, <3>2 DEF LgSlaveRecv, LgTypeOK
  <2>5. CASE LgMasterTurn
    <3>1. PICK fault \in LgFaults : LgExchange(LgTurnOf, fault)
      BY <2>5 DEF LgMasterTurn, LgTurnOf
    <3>2. LgTurnOf \in LgStack
      BY TurnType
    <3>3. /\ lgSend' \in [LgNodes -> LgMessage]
          /\ lgRecv' \in [LgNodes -> LgMessage]
          /\ lgListens' \in [LgStack -> BOOLEAN]
      <4>1. \A n \in LgNodes : lgSend[n] \in LgMessage /\ lgRecv[n] \in LgMessage
        BY BufferType
      <4>2. LgTurnOf \in LgNodes /\ 0 \in LgNodes /\ NoData \in LgMessage
        BY <3>2 DEF LgNodes
      <4> HIDE DEF LgMessage
      <4>3. lgSend' \in [LgNodes -> LgMessage] /\ lgRecv' \in [LgNodes -> LgMessage]
        BY <3>1, <4>1, <4>2 DEF LgExchange
      <4>4. lgListens' \in [LgStack -> BOOLEAN]
        BY <3>1 DEF LgExchange, ListensAfter, LgTypeOK
      <4>5. QED
        BY <4>3, <4>4
    <3>4. lgDamage' \in 0..LgMaxDamage
      <4>1. /\ lgDamage \in Nat
            /\ \/ lgDamage' = lgDamage
               \/ lgDamage < LgMaxDamage /\ lgDamage' = lgDamage + 1
        BY <3>1, LegacyAssumption DEF LgExchange, LgTypeOK
      <4>2. QED
        BY <4>1, LegacyAssumption DEF LgTypeOK
    <3>5. lgTo' \in {-1} \cup LgStack /\ lgTurn' \in LgStack
      <4>1. /\ lgTo' \in {lgTo, LgTurnOf}
            /\ lgTurn' \in {lgTurn, 1, IF lgTurn = LgSlaves THEN 1 ELSE lgTurn + 1}
        BY <2>5 DEF LgMasterTurn, LgTurnOf
      <4>2. QED
        BY <3>2, <4>1, LegacyAssumption DEF LgTypeOK, LgStack
    <3>6. QED
      BY <2>5, <3>3, <3>4, <3>5 DEF LgMasterTurn, LgTypeOK
  <2>6. CASE LgMasterRecv
    <3>1. lgRecv[0] \in LgMessage /\ lgRecv[0][1] \in LgStack
      BY <2>6, BufferType, MessageOf DEF LgMasterRecv, LgNodes
    <3>2. Append(lgGot["up"][lgRecv[0][1]], lgRecv[0]) \in Seq(LgMessage)
      BY <3>1, HistoryType, AppendProperties
    <3>3. /\ lgGot' \in [Directions -> [LgStack -> Seq(LgMessage)]]
          /\ lgRecv' \in [LgNodes -> LgMessage]
      BY <2>6, <3>1, <3>2 DEF LgMasterRecv, LgTypeOK, LgNodes
    <3>4. QED
      BY <2>6, <3>3 DEF LgMasterRecv, LgTypeOK
  <2>7. CASE UNCHANGED lgVars
    BY <2>7 DEF lgVars, LgTypeOK
  <2>8. QED
    BY <2>1, <2>2, <2>3, <2>4, <2>5, <2>6, <2>7 DEF LgNext
<1>3. QED
  BY <1>1, <1>2, PTL DEF LgSpec

-----------------------------------------------------------------------------
(* Exactly once and in order, as long as no verdict is damaged.            *)

\* A slave's buffers hold its own messages, it listens with an empty buffer
\* only, and the master's message goes to the slave it names.
LgOwn ==
  /\ \A s \in LgStack : /\ lgSend[s][1] \in {0, s}
                        /\ lgRecv[s][1] \in {0, s}
                        /\ lgListens[s] => lgRecv[s] = NoData
  /\ lgSend[0] # NoData /\ lgTo \in LgStack => lgTo = lgSend[0][1]

\* The slave of a turn is the one the master's message names.
LEMMA TurnOwn ==
  ASSUME LgTypeOK, LgOwn
  PROVE  lgSend[0][1] \in {0, LgTurnOf}
<1>1. lgSend[0] \in LgMessage
  BY BufferType DEF LgNodes
<1>2. QED
  BY <1>1, MessageOf DEF LgTurnOf, LgOwn

\* Messages stay with the slave they belong to (spi_stack_master_transceive,
\* spi_stack_slave_message_loop_return).
LEMMA OwnInvariant ==
  ASSUME ~LgAckDamage
  PROVE  LgSpec => []LgOwn
<1>1. LgInit => LgOwn
  BY MessageOf DEF LgInit, LgOwn, LgNodes
<1>2. LgTypeOK /\ LgOwn /\ [LgNext]_lgVars => LgOwn'
  <2> SUFFICES ASSUME LgTypeOK, LgOwn, [LgNext]_lgVars PROVE LgOwn'
    OBVIOUS
  <2> USE MessageOf
  <2>1. CASE LgPcSpeaks
    BY <2>1 DEF LgPcSpeaks, LgOwn
  <2>2. ASSUME NEW s \in LgStack, NEW options \in {-1, s}, LgMasterSend(s, options)
        PROVE  LgOwn'
    <3>1. lgTo' \in {-1, s} /\ -1 \notin LgStack
      BY <2>2, LegacyAssumption DEF LgMasterSend, LgStack
    <3>2. /\ lgSend \in [LgNodes -> LgMessage]
          /\ lgSend' = [lgSend EXCEPT ![0] = <<s, lgSent["down"][s] + 1>>]
          /\ 0 \in LgNodes /\ \A r \in LgStack : r \in LgNodes /\ r # 0
      BY <2>2 DEF LgMasterSend, LgTypeOK, LgNodes, LgMessage
    <3>3. lgSend'[0][1] = s /\ \A r \in LgStack : lgSend'[r] = lgSend[r]
      BY <3>2
    <3>4. QED
      BY <2>2, <3>1, <3>3 DEF LgMasterSend, LgOwn
  <2>3. ASSUME NEW s \in LgStack, LgSlaveSend(s) PROVE LgOwn'
    <3>1. /\ lgSend'[s][1] = s
          /\ \A r \in LgNodes \ {s} : lgSend'[r] = lgSend[r]
      BY <2>3 DEF LgSlaveSend, LgTypeOK, LgNodes
    <3>2. QED
      BY <2>3, <3>1 DEF LgSlaveSend, LgOwn, LgNodes
  <2>4. ASSUME NEW s \in LgStack, LgSlaveRecv(s) PROVE LgOwn'
    <3>1. /\ lgRecv'[s] = NoData
          /\ \A r \in LgStack \ {s} : /\ lgRecv'[r] = lgRecv[r]
                                      /\ lgListens'[r] = lgListens[r]
      BY <2>4 DEF LgSlaveRecv, LgTypeOK, LgNodes
    <3>2. QED
      BY <2>4, <3>1 DEF LgSlaveRecv, LgOwn
  <2>5. CASE LgMasterTurn
    <3>1. PICK t \in LgStack, fault \in LgFaults :
            t = LgTurnOf /\ LgExchange(t, fault)
      BY <2>5, TurnType DEF LgMasterTurn, LgTurnOf
    <3>2. lgSend[0][1] \in {0, t}
      BY <3>1, TurnOwn
    <3>3. /\ \A r \in LgNodes : lgSend'[r] \in {lgSend[r], NoData}
          /\ \A r \in LgStack \ {t} : /\ lgRecv'[r] = lgRecv[r]
                                      /\ lgListens'[r] = lgListens[r]
          /\ lgRecv'[t] \in {lgRecv[t], lgSend[0]}
          /\ lgListens'[t] => lgRecv'[t] = NoData
      <4>1. /\ t \in LgNodes /\ 0 \in LgNodes /\ t # 0
            /\ \A r \in LgStack : r \in LgNodes /\ r # 0
        BY DEF LgNodes
      <4>2. /\ lgSend \in [LgNodes -> LgMessage] /\ lgRecv \in [LgNodes -> LgMessage]
            /\ lgListens \in [LgStack -> BOOLEAN]
        BY DEF LgTypeOK, LgMessage
      <4>3. \/ lgSend' = lgSend /\ lgRecv' = lgRecv
            \/ /\ lgSend' = [lgSend EXCEPT ![0] = NoData, ![t] = NoData]
               /\ lgRecv' = [lgRecv EXCEPT ![0] = lgSend[t], ![t] = lgSend[0]]
        BY <3>1, ExchangeMoves
      <4>4. \/ lgListens' = lgListens /\ lgRecv' = lgRecv
            \/ lgListens' = [lgListens EXCEPT ![t] = (lgRecv'[t] = NoData)]
        BY <3>1, ExchangeMoves
      <4>5. lgListens[t] => lgRecv[t] = NoData
        BY DEF LgOwn
      <4>6. /\ \A r \in LgNodes : lgSend'[r] \in {lgSend[r], NoData}
            /\ \A r \in LgStack \ {t} : lgRecv'[r] = lgRecv[r]
            /\ lgRecv'[t] \in {lgRecv[t], lgSend[0]}
        BY <4>1, <4>2, <4>3
      <4>7. /\ \A r \in LgStack \ {t} : lgListens'[r] = lgListens[r]
            /\ lgListens'[t] => lgRecv'[t] = NoData
        BY <4>2, <4>4, <4>5
      <4>8. QED
        BY <4>6, <4>7
    <3>4. lgSend'[0] # NoData /\ lgTo' \in LgStack => lgTo' = lgSend'[0][1]
      <4>1. lgSend'[0] \in {lgSend[0], NoData}
        BY <3>3 DEF LgNodes
      <4>2. lgSend[0] # NoData => lgTo' = t /\ lgSend[0][1] \in LgStack
        BY <2>5, <3>1, BufferType DEF LgMasterTurn, LgTurnOf, LgNodes
      <4>3. QED
        BY <3>2, <4>1, <4>2
    <3>5. QED
      BY <3>2, <3>3, <3>4 DEF LgOwn, LgNodes
  <2>6. CASE LgMasterRecv
    BY <2>6 DEF LgMasterRecv, LgOwn, LgTypeOK, LgNodes
  <2>7. CASE UNCHANGED lgVars
    BY <2>7 DEF lgVars, LgOwn
  <2>8. QED
    BY <2>1, <2>2, <2>3, <2>4, <2>5, <2>6, <2>7 DEF LgNext
<1>3. QED
  BY <1>1, <1>2, LegacyTypeCorrect, PTL DEF LgSpec

\* A direction is history, receiver's buffer and sender's buffer one after the
\* other: a message joins it at its end,...
LEMMA Joins ==
  ASSUME NEW S, NEW a \in Seq(S), NEW b \in Seq(S), NEW m \in S
  PROVE  a \o b \o <<m>> = Append(a \o b \o <<>>, m)
<1>1. a \o b \in Seq(S)
  BY ConcatProperties
<1>2. a \o b \o <<>> = a \o b
  BY <1>1, ConcatEmptySeq
<1>3. QED
  BY <1>1, <1>2, AppendIsConcat

\* ... crosses to the other buffer...
LEMMA Crosses ==
  ASSUME NEW S, NEW a \in Seq(S), NEW c \in Seq(S)
  PROVE  a \o <<>> \o c = a \o c \o <<>>
<1>1. a \o c \in Seq(S)
  BY ConcatProperties
<1>2. a \o <<>> = a /\ a \o c \o <<>> = a \o c
  BY <1>1, ConcatEmptySeq
<1>3. QED
  BY <1>2

\* ... and is handed over.
LEMMA HandedOver ==
  ASSUME NEW S, NEW a \in Seq(S), NEW m \in S, NEW c
  PROVE  Append(a, m) \o <<>> \o c = a \o <<m>> \o c
<1>1. Append(a, m) = a \o <<m>> /\ Append(a, m) \in Seq(S)
  BY AppendIsConcat, AppendProperties
<1>2. Append(a, m) \o <<>> = Append(a, m)
  BY <1>1, ConcatEmptySeq
<1>3. QED
  BY <1>1, <1>2

\* The part of a buffer that belongs to slave s.
LEMMA InBufferType ==
  ASSUME NEW m \in LgMessage, NEW s \in LgStack
  PROVE  /\ InBuffer(m, s) \in Seq(LgMessage)
         /\ InBuffer(NoData, s) = <<>>
         /\ m[1] \in {0, s} /\ m # NoData => InBuffer(m, s) = <<m>>
BY MessageOf DEF InBuffer

\* The messages a side accepted, and one more.
LEMMA AcceptedNext ==
  ASSUME NEW n \in Nat, NEW s
  PROVE  [i \in 1..n + 1 |-> <<s, i>>] = Append([i \in 1..n |-> <<s, i>>], <<s, n + 1>>)
<1> DEFINE S == {s} \X Nat
           p == [i \in 1..n |-> <<s, i>>]
           q == [i \in 1..n + 1 |-> <<s, i>>]
<1>1. p \in Seq(S) /\ Len(p) = n /\ q \in Seq(S) /\ Len(q) = n + 1
      /\ <<s, n + 1>> \in S
  OBVIOUS
<1>2. \A i \in 1..n + 1 : q[i] = Append(p, <<s, n + 1>>)[i]
  <2>1. \A i \in 1..n : q[i] = p[i] /\ Append(p, <<s, n + 1>>)[i] = p[i]
    BY <1>1, AppendProperties
  <2>2. q[n + 1] = <<s, n + 1>> /\ Append(p, <<s, n + 1>>)[n + 1] = <<s, n + 1>>
    BY <1>1, AppendProperties
  <2>3. QED
    BY <2>1, <2>2
<1>3. Append(p, <<s, n + 1>>) \in Seq(S) /\ Len(Append(p, <<s, n + 1>>)) = n + 1
  BY <1>1, AppendProperties
<1> HIDE DEF p, q
<1>4. q = Append(p, <<s, n + 1>>)
  BY <1>1, <1>2, <1>3, SeqEqual
<1>5. QED
  BY <1>4 DEF p, q

\* One direction of slave s: what was handed over, what the receiver and the
\* sender still have, and what was accepted.
InPlace(got, recv, send, d, s) ==
  got \o InBuffer(recv, s) \o InBuffer(send, s) = Accepted(d, s)

\* LegacyExactlyOnce for slave s.
ExactlyOnceOf(s) ==
  /\ InPlace(lgGot["down"][s], lgRecv[s], lgSend[0], "down", s)
  /\ InPlace(lgGot["up"][s], lgRecv[0], lgSend[s], "up", s)

LEMMA ExactlyOnceForEach ==
  LegacyExactlyOnce <=> \A s \in LgStack : ExactlyOnceOf(s)
BY DEF LegacyExactlyOnce, ExactlyOnceOf, InPlace

\* A side accepts a message for slave s.
LEMMA AcceptStep ==
  ASSUME LgTypeOK, NEW d \in Directions, NEW s \in LgStack,
         NEW recv \in LgMessage,
         InPlace(lgGot[d][s], recv, NoData, d, s),
         lgGot' = lgGot,
         lgSent' = [lgSent EXCEPT ![d][s] = @ + 1]
  PROVE  lgGot'[d][s] \o InBuffer(recv, s) \o InBuffer(<<s, lgSent[d][s] + 1>>, s)
           = Accepted(d, s)'
<1> DEFINE n == lgSent[d][s]
           m == <<s, n + 1>>
           a == lgGot[d][s]
           b == InBuffer(recv, s)
<1>1. a \in Seq({s} \X Nat \cup LgMessage) /\ b \in Seq({s} \X Nat \cup LgMessage)
      /\ n \in Nat
  <2>1. a \in Seq(LgMessage) /\ b \in Seq(LgMessage) /\ n \in Nat
    BY HistoryType, InBufferType, LegacyAssumption
  <2> HIDE DEF a, b
  <2>2. QED
    BY <2>1
<1>2. Accepted(d, s)' = [i \in 1..n + 1 |-> <<s, i>>]
  BY DEF LgTypeOK, Directions, Accepted
<1>3. InBuffer(m, s) = <<m>> /\ m \in {s} \X Nat \cup LgMessage
  BY <1>1 DEF InBuffer
<1>4. a \o b \o <<>> = [i \in 1..n |-> <<s, i>>]
  BY InBufferType DEF InPlace, Accepted
<1> HIDE DEF n, a, b
<1>5. Append([i \in 1..n |-> <<s, i>>], <<s, n + 1>>) = [i \in 1..n + 1 |-> <<s, i>>]
  BY <1>1, AcceptedNext
<1>6. a \o b \o <<m>> = Append(a \o b \o <<>>, m)
  BY <1>1, <1>3, Joins
<1>7. QED
  BY <1>2, <1>3, <1>4, <1>5, <1>6 DEF n, a, b

\* As long as the verdicts are not damaged, every message is in exactly one
\* place and in order, although no exchange has a number
\* (spi_stack_master_transceive, SPI_IrqHandler).
THEOREM ExactlyOnce ==
  ASSUME ~LgAckDamage
  PROVE  LgSpec => []LegacyExactlyOnce
<1>1. LgInit => LegacyExactlyOnce
  <2> SUFFICES ASSUME LgInit, NEW s \in LgStack PROVE ExactlyOnceOf(s)
    BY ExactlyOnceForEach
  <2>1. /\ \A n \in LgNodes : lgSend[n] = NoData /\ lgRecv[n] = NoData
        /\ \A d \in Directions : lgGot[d][s] = <<>> /\ lgSent[d][s] = 0
    BY DEF LgInit, Directions
  <2>2. InBuffer(NoData, s) = <<>>
    BY InBufferType DEF LgMessage
  <2>3. <<>> \o <<>> \o <<>> = [i \in 1..0 |-> <<s, i>>]
    OBVIOUS
  <2>4. QED
    BY <2>1, <2>2, <2>3
       DEF ExactlyOnceOf, InPlace, Accepted, LgNodes, Directions
<1>2. LgTypeOK /\ LgOwn /\ LegacyExactlyOnce /\ [LgNext]_lgVars
        => LegacyExactlyOnce'
  <2> SUFFICES ASSUME LgTypeOK, LgOwn, LegacyExactlyOnce, [LgNext]_lgVars,
                      NEW r \in LgStack
               PROVE  ExactlyOnceOf(r)'
    BY DEF LegacyExactlyOnce, ExactlyOnceOf, InPlace
  <2>a. ExactlyOnceOf(r)
    BY ExactlyOnceForEach
  <2>b. /\ \A n \in LgNodes : lgSend[n] \in LgMessage /\ lgRecv[n] \in LgMessage
        /\ r \in LgNodes /\ 0 \in LgNodes /\ NoData \in LgMessage /\ r # 0
    BY BufferType, MessageOf DEF LgNodes, LgMessage
  <2>c. /\ lgGot["down"][r] \in Seq(LgMessage) /\ lgGot["up"][r] \in Seq(LgMessage)
        /\ InBuffer(NoData, r) = <<>>
        /\ \A n \in LgNodes : /\ InBuffer(lgSend[n], r) \in Seq(LgMessage)
                              /\ InBuffer(lgRecv[n], r) \in Seq(LgMessage)
    BY <2>b, HistoryType, InBufferType DEF Directions
  <2>1. CASE LgPcSpeaks
    BY <2>1, <2>a DEF LgPcSpeaks, ExactlyOnceOf, InPlace, Accepted
  <2>2. ASSUME NEW s \in LgStack, NEW options \in {-1, s}, LgMasterSend(s, options)
        PROVE  ExactlyOnceOf(r)'
    <3>1. /\ UNCHANGED <<lgRecv, lgGot>>
          /\ lgSend[0] = NoData
          /\ lgSend'[0] = <<s, lgSent["down"][s] + 1>>
          /\ lgSend'[r] = lgSend[r]
          /\ lgSent' = [lgSent EXCEPT !["down"][s] = @ + 1]
          /\ lgSent'["up"] = lgSent["up"]
      BY <2>2, <2>b DEF LgMasterSend, LgTypeOK
    <3>2. InPlace(lgGot["up"][r], lgRecv[0], lgSend[r], "up", r)'
      BY <2>a, <3>1 DEF ExactlyOnceOf, InPlace, Accepted
    <3>3. CASE r = s
      <4>1. InPlace(lgGot["down"][r], lgRecv[r], NoData, "down", r)
        BY <2>a, <3>1 DEF ExactlyOnceOf
      <4>2. lgGot'["down"][r] \o InBuffer(lgRecv[r], r)
              \o InBuffer(<<r, lgSent["down"][r] + 1>>, r) = Accepted("down", r)'
        BY <2>b, <3>1, <3>3, <4>1, AcceptStep DEF Directions
      <4>3. QED
        BY <3>1, <3>2, <3>3, <4>2 DEF ExactlyOnceOf, InPlace
    <3>4. CASE r # s
      <4>1. /\ InBuffer(lgSend'[0], r) = <<>>
            /\ lgSent'["down"][r] = lgSent["down"][r]
        BY <3>1, <3>4 DEF InBuffer, LgTypeOK
      <4>2. QED
        BY <2>a, <2>c, <3>1, <3>2, <4>1 DEF ExactlyOnceOf, InPlace, Accepted
    <3>5. QED
      BY <3>3, <3>4
  <2>3. ASSUME NEW s \in LgStack, LgSlaveSend(s) PROVE ExactlyOnceOf(r)'
    <3>1. /\ UNCHANGED <<lgRecv, lgGot>>
          /\ lgSend[s] = NoData
          /\ lgSend'[s] = <<s, lgSent["up"][s] + 1>>
          /\ lgSend'[0] = lgSend[0]
          /\ r # s => lgSend'[r] = lgSend[r] /\ lgSent'["up"][r] = lgSent["up"][r]
          /\ lgSent' = [lgSent EXCEPT !["up"][s] = @ + 1]
          /\ lgSent'["down"] = lgSent["down"]
      BY <2>3, <2>b, MessageOf DEF LgSlaveSend, LgTypeOK, LgNodes
    <3>2. InPlace(lgGot["down"][r], lgRecv[r], lgSend[0], "down", r)'
      BY <2>a, <3>1 DEF ExactlyOnceOf, InPlace, Accepted
    <3>3. CASE r = s
      <4>1. InPlace(lgGot["up"][r], lgRecv[0], NoData, "up", r)
        BY <2>a, <3>1, <3>3 DEF ExactlyOnceOf
      <4>2. lgGot'["up"][r] \o InBuffer(lgRecv[0], r)
              \o InBuffer(<<r, lgSent["up"][r] + 1>>, r) = Accepted("up", r)'
        BY <2>b, <3>1, <3>3, <4>1, AcceptStep DEF Directions
      <4>3. QED
        BY <3>1, <3>2, <3>3, <4>2 DEF ExactlyOnceOf, InPlace
    <3>4. CASE r # s
      BY <2>a, <3>1, <3>2, <3>4 DEF ExactlyOnceOf, InPlace, Accepted
    <3>5. QED
      BY <3>3, <3>4
  <2>4. ASSUME NEW s \in LgStack, LgSlaveRecv(s) PROVE ExactlyOnceOf(r)'
    <3>1. /\ UNCHANGED <<lgSend, lgSent>>
          /\ lgRecv'[0] = lgRecv[0]
          /\ lgGot'["up"] = lgGot["up"]
          /\ r # s => lgRecv'[r] = lgRecv[r] /\ lgGot'["down"][r] = lgGot["down"][r]
          /\ r = s => /\ lgRecv[r] # NoData /\ lgRecv'[r] = NoData
                      /\ lgGot'["down"][r] = Append(lgGot["down"][r], lgRecv[r])
      BY <2>4, <2>b, MessageOf DEF LgSlaveRecv, LgTypeOK, LgNodes
    <3>2. InPlace(lgGot["up"][r], lgRecv[0], lgSend[r], "up", r)'
      BY <2>a, <3>1 DEF ExactlyOnceOf, InPlace, Accepted
    <3>3. CASE r = s
      <4>1. InBuffer(lgRecv[r], r) = <<lgRecv[r]>>
        BY <2>b, <3>1, <3>3, InBufferType DEF LgOwn
      <4>2. Append(lgGot["down"][r], lgRecv[r]) \o <<>> \o InBuffer(lgSend[0], r)
              = lgGot["down"][r] \o <<lgRecv[r]>> \o InBuffer(lgSend[0], r)
        <5> DEFINE a == lgGot["down"][r]
                   m == lgRecv[r]
                   c == InBuffer(lgSend[0], r)
        <5>1. a \in Seq(LgMessage) /\ m \in LgMessage
          BY <2>b, <2>c
        <5> HIDE DEF a, m, c
        <5>2. Append(a, m) \o <<>> \o c = a \o <<m>> \o c
          BY <5>1, HandedOver
        <5>3. QED
          BY <5>2 DEF a, m, c
      <4>3. lgGot["down"][r] \o <<lgRecv[r]>> \o InBuffer(lgSend[0], r)
              = Accepted("down", r)
        BY <2>a, <4>1 DEF ExactlyOnceOf, InPlace
      <4>4. /\ Accepted("down", r)' = Accepted("down", r)
            /\ InBuffer(lgSend[0], r)' = InBuffer(lgSend[0], r)
            /\ InBuffer(lgRecv[r], r)' = <<>>
            /\ lgGot["down"][r]' = Append(lgGot["down"][r], lgRecv[r])
        <5>1. /\ lgSent' = lgSent /\ lgSend' = lgSend
              /\ lgRecv'[r] = NoData
              /\ lgGot'["down"][r] = Append(lgGot["down"][r], lgRecv[r])
          BY <3>1, <3>3
        <5>2. /\ Accepted("down", r)' = Accepted("down", r)
              /\ InBuffer(lgSend[0], r)' = InBuffer(lgSend[0], r)
          BY <5>1 DEF Accepted, InBuffer
        <5>3. InBuffer(lgRecv[r], r)' = InBuffer(NoData, r)
          BY <5>1 DEF InBuffer
        <5>4. QED
          BY <2>c, <5>1, <5>2, <5>3
      <4>5. InPlace(lgGot["down"][r], lgRecv[r], lgSend[0], "down", r)'
        BY <4>2, <4>3, <4>4 DEF InPlace
      <4>6. QED
        BY <3>2, <4>5 DEF ExactlyOnceOf
    <3>4. CASE r # s
      BY <2>a, <3>1, <3>2, <3>4 DEF ExactlyOnceOf, InPlace, Accepted
    <3>5. QED
      BY <3>3, <3>4
  <2>5. CASE LgMasterTurn
    <3>1. PICK t \in LgStack, fault \in LgFaults :
            t = LgTurnOf /\ LgExchange(t, fault)
      BY <2>5, TurnType DEF LgMasterTurn, LgTurnOf
    <3>2. /\ UNCHANGED <<lgSent, lgGot>>
          /\ lgRecv[0] = NoData
          /\ lgSend[0][1] \in {0, t}
          /\ t # 0 /\ t \in LgNodes
      BY <2>5, <3>1, TurnOwn, MessageOf DEF LgMasterTurn, LgNodes
    <3>3. CASE lgSend' = lgSend /\ lgRecv' = lgRecv
      BY <2>a, <3>2, <3>3 DEF ExactlyOnceOf, InPlace, Accepted
    <3>4. CASE /\ lgListens[t]
               /\ lgSend' = [lgSend EXCEPT ![0] = NoData, ![t] = NoData]
               /\ lgRecv' = [lgRecv EXCEPT ![0] = lgSend[t], ![t] = lgSend[0]]
      <4>1. /\ lgSend'[0] = NoData /\ lgSend'[t] = NoData
            /\ lgRecv'[0] = lgSend[t] /\ lgRecv'[t] = lgSend[0]
            /\ r # t => lgSend'[r] = lgSend[r] /\ lgRecv'[r] = lgRecv[r]
        BY <2>b, <3>2, <3>4 DEF LgTypeOK
      <4>2. lgRecv[t] = NoData /\ lgSend[t][1] \in {0, t}
        BY <3>4 DEF LgOwn
      <4>3. CASE r = t
        <5>1. /\ lgGot["down"][r] \o <<>> \o InBuffer(lgSend[0], r)
                   = lgGot["down"][r] \o InBuffer(lgSend[0], r) \o <<>>
              /\ lgGot["up"][r] \o <<>> \o InBuffer(lgSend[r], r)
                   = lgGot["up"][r] \o InBuffer(lgSend[r], r) \o <<>>
          BY <2>b, <2>c, Crosses
        <5>2. /\ lgGot["down"][r] \o <<>> \o InBuffer(lgSend[0], r)
                   = Accepted("down", r)
              /\ lgGot["up"][r] \o <<>> \o InBuffer(lgSend[r], r)
                   = Accepted("up", r)
          BY <2>a, <2>c, <3>2, <4>2, <4>3 DEF ExactlyOnceOf, InPlace
        <5>3. /\ InBuffer(lgSend[0], r)' = <<>> /\ InBuffer(lgSend[r], r)' = <<>>
              /\ InBuffer(lgRecv[r], r)' = InBuffer(lgSend[0], r)
              /\ InBuffer(lgRecv[0], r)' = InBuffer(lgSend[r], r)
              /\ lgGot["down"][r]' = lgGot["down"][r]
              /\ lgGot["up"][r]' = lgGot["up"][r]
              /\ Accepted("down", r)' = Accepted("down", r)
              /\ Accepted("up", r)' = Accepted("up", r)
          BY <2>c, <3>2, <4>1, <4>3 DEF Accepted, InBuffer
        <5>4. QED
          BY <5>1, <5>2, <5>3 DEF ExactlyOnceOf, InPlace
      <4>4. CASE r # t
        <5>1. InBuffer(lgSend[0], r) = <<>> /\ InBuffer(lgSend[t], r) = <<>>
          BY <2>b, <3>2, <4>2, <4>4 DEF InBuffer
        <5>2. QED
          BY <2>a, <2>c, <3>2, <4>1, <4>4, <5>1
             DEF ExactlyOnceOf, InPlace, Accepted
      <4>5. QED
        BY <4>3, <4>4
    <3>5. QED
      BY <3>1, <3>3, <3>4, ExchangeMoves
  <2>6. CASE LgMasterRecv
    <3> DEFINE u == lgRecv[0][1]
    <3>1. /\ UNCHANGED <<lgSend, lgSent>>
          /\ lgRecv[0] # NoData /\ lgRecv'[0] = NoData
          /\ lgRecv'[r] = lgRecv[r]
          /\ lgGot'["down"] = lgGot["down"]
          /\ r # u => lgGot'["up"][r] = lgGot["up"][r]
          /\ r = u => lgGot'["up"][r] = Append(lgGot["up"][r], lgRecv[0])
      BY <2>6, <2>b DEF LgMasterRecv, LgTypeOK
    <3>2. InPlace(lgGot["down"][r], lgRecv[r], lgSend[0], "down", r)'
      BY <2>a, <3>1 DEF ExactlyOnceOf, InPlace, Accepted
    <3>3. CASE r = u
      <4>1. InBuffer(lgRecv[0], r) = <<lgRecv[0]>>
        BY <3>3 DEF InBuffer
      <4>2. Append(lgGot["up"][r], lgRecv[0]) \o <<>> \o InBuffer(lgSend[r], r)
              = lgGot["up"][r] \o <<lgRecv[0]>> \o InBuffer(lgSend[r], r)
        <5> DEFINE a == lgGot["up"][r]
                   m == lgRecv[0]
                   c == InBuffer(lgSend[r], r)
        <5>1. a \in Seq(LgMessage) /\ m \in LgMessage
          BY <2>b, <2>c
        <5> HIDE DEF a, m, c
        <5>2. Append(a, m) \o <<>> \o c = a \o <<m>> \o c
          BY <5>1, HandedOver
        <5>3. QED
          BY <5>2 DEF a, m, c
      <4>3. lgGot["up"][r] \o <<lgRecv[0]>> \o InBuffer(lgSend[r], r)
              = Accepted("up", r)
        BY <2>a, <4>1 DEF ExactlyOnceOf, InPlace
      <4>4. /\ Accepted("up", r)' = Accepted("up", r)
            /\ InBuffer(lgSend[r], r)' = InBuffer(lgSend[r], r)
            /\ InBuffer(lgRecv[0], r)' = <<>>
            /\ lgGot["up"][r]' = Append(lgGot["up"][r], lgRecv[0])
        <5>1. /\ lgSent' = lgSent /\ lgSend' = lgSend
              /\ lgRecv'[0] = NoData
              /\ lgGot'["up"][r] = Append(lgGot["up"][r], lgRecv[0])
          BY <3>1, <3>3
        <5>2. /\ Accepted("up", r)' = Accepted("up", r)
              /\ InBuffer(lgSend[r], r)' = InBuffer(lgSend[r], r)
          BY <5>1 DEF Accepted, InBuffer
        <5>3. InBuffer(lgRecv[0], r)' = InBuffer(NoData, r)
          BY <5>1 DEF InBuffer
        <5>4. QED
          BY <2>c, <5>1, <5>2, <5>3
      <4>5. InPlace(lgGot["up"][r], lgRecv[0], lgSend[r], "up", r)'
        BY <4>2, <4>3, <4>4 DEF InPlace
      <4>6. QED
        BY <3>2, <4>5 DEF ExactlyOnceOf
    <3>4. CASE r # u
      <4>1. InBuffer(lgRecv[0], r) = <<>>
        BY <3>4 DEF InBuffer
      <4>2. QED
        BY <2>a, <2>c, <3>1, <3>2, <3>4, <4>1 DEF ExactlyOnceOf, InPlace, Accepted
    <3>5. QED
      BY <3>3, <3>4
  <2>7. CASE UNCHANGED lgVars
    BY <2>7, <2>a DEF lgVars, ExactlyOnceOf, InPlace, Accepted
  <2>8. QED
    BY <2>1, <2>2, <2>3, <2>4, <2>5, <2>6, <2>7 DEF LgNext
<1>3. QED
  BY <1>1, <1>2, LegacyTypeCorrect, OwnInvariant, PTL DEF LgSpec
=============================================================================
