----------------------------- MODULE CoMcuProofs ----------------------------
(***************************************************************************)
(* Theorems about CoMcu, for every width of the numbers, any number of     *)
(* message loops and of messages, and any loss of frames.                  *)
(***************************************************************************)
EXTENDS CoMcu, SequenceTheorems, TLAPS

-----------------------------------------------------------------------------
(* Sequences of frames.                                                    *)

\* s goes on where k elements of r have been taken from its front.
IsRest(s, r, k) ==
  /\ Len(s) = Len(r) - k
  /\ \A i \in 1..Len(s) : s[i] = r[i + k]

\* Frames that do not fit on the wire are lost; the others keep their order.
LEMMA CarriedFrames ==
  ASSUME NEW S, NEW q \in Seq(S), NEW f \in Seq(S)
  PROVE  /\ Carried(q, f) \in Seq(S)
         /\ Len(Carried(q, f)) <= Len(q) + Len(f)
         /\ \A i \in 1..Len(Carried(q, f)) :
              Carried(q, f)[i] = IF i <= Len(q) THEN q[i] ELSE f[i - Len(q)]
<1> DEFINE all == q \o f
<1>1. /\ all \in Seq(S) /\ Len(all) = Len(q) + Len(f)
      /\ \A i \in 1..Len(all) :
           all[i] = IF i <= Len(q) THEN q[i] ELSE f[i - Len(q)]
  BY ConcatProperties
<1>2. Len(q) \in Nat /\ Len(f) \in Nat /\ Wire \in Nat
  BY CoMcuAssumption
<1> HIDE DEF all
<1>3. CASE Len(all) <= Wire
  <2>1. Carried(q, f) = all
    BY <1>3 DEF Carried, all
  <2>2. QED
    BY <1>1, <2>1
<1>4. CASE ~(Len(all) <= Wire)
  <2>1. Carried(q, f) = SubSeq(all, 1, Wire)
    BY <1>4 DEF Carried, all
  <2>2. \A i \in 1..Wire : all[i] \in S /\ i \in 1..Len(all)
    BY <1>1, <1>2, <1>4, ElementOfSeq
  <2>3. /\ SubSeq(all, 1, Wire) \in Seq(S)
        /\ Len(SubSeq(all, 1, Wire)) = Wire
        /\ \A i \in 1..Wire : SubSeq(all, 1, Wire)[i] = all[i]
    BY <1>2, <2>2, SubSeqProperties
  <2>4. QED
    BY <1>1, <1>2, <1>4, <2>1, <2>2, <2>3
<1>5. QED
  BY <1>3, <1>4

\* The end of a sequence.
LEMMA RestOf ==
  ASSUME NEW S, NEW r \in Seq(S), NEW k \in 0..Len(r)
  PROVE  /\ SubSeq(r, k + 1, Len(r)) \in Seq(S)
         /\ IsRest(SubSeq(r, k + 1, Len(r)), r, k)
<1>1. Len(r) \in Nat /\ k \in Nat /\ k <= Len(r)
  OBVIOUS
<1>2. \A i \in k + 1..Len(r) : r[i] \in S
  BY <1>1, ElementOfSeq
<1>3. /\ SubSeq(r, k + 1, Len(r)) \in Seq(S)
      /\ Len(SubSeq(r, k + 1, Len(r))) =
           IF k + 1 <= Len(r) THEN Len(r) - (k + 1) + 1 ELSE 0
      /\ \A i \in 1..Len(r) - (k + 1) + 1 :
           SubSeq(r, k + 1, Len(r))[i] = r[k + 1 + i - 1]
  BY <1>1, <1>2, SubSeqProperties
<1>4. Len(SubSeq(r, k + 1, Len(r))) = Len(r) - k
  BY <1>1, <1>3
<1>5. \A i \in 1..Len(r) - k : SubSeq(r, k + 1, Len(r))[i] = r[i + k]
  BY <1>1, <1>3
<1>6. QED
  BY <1>3, <1>4, <1>5 DEF IsRest

\* check_recv takes at least the frames it has read.
LEMMA RestFrames ==
  ASSUME NEW S, recv \in Seq(S), NEW n \in 0..Len(recv), NEW r \in RestAfter(n)
  PROVE  r \in Seq(S) /\ \E k \in n..Len(recv) : IsRest(r, recv, k)
<1>1. Len(recv) \in Nat
  OBVIOUS
<1>2. PICK k \in n..Len(recv) : r = SubSeq(recv, k + 1, Len(recv))
  BY <1>1 DEF RestAfter
<1>3. k \in 0..Len(recv)
  BY <1>1
<1>4. QED
  BY <1>2, <1>3, RestOf

-----------------------------------------------------------------------------
(* Types.                                                                  *)

\* A frame on the wire carries a message that was sent.
DownFrame ==
  [kind : {"ack", "msg"}, ack : 0..SeqMax, seq : 0..SeqMax, msg : 0..MaxDown]

UpFrame ==
  {f \in [kind : {"ack", "msg"}, ack : 0..SeqMax, seq : 0..SeqMax,
          msg : 0..MaxUp] : f.kind = "msg" => f.msg # NoMsg}

Delivery == [msg : 1..MaxUp, definite : BOOLEAN]

\* The types of TypeOK, with these frames and deliveries.
TypeInv ==
  /\ com_current \in BOOLEAN
  /\ buffer_send \in 0..MaxDown
  /\ buffer_send_ack_timeout \in -1..AckTimeout
  /\ current_sequence_number \in 0..SeqMax
  /\ last_sequence_number_seen \in 0..SeqMax
  /\ tries \in 0..TriesMod - 1
  /\ got_message \in BOOLEAN /\ first_enumerate_send \in BOOLEAN
  /\ reset_wait \in BOOLEAN
  /\ recv \in Seq(UpFrame \cup {Bad})
  /\ toSlave \in Seq(DownFrame)
  /\ delivering \in [Tasks -> Delivery \cup {Idle}]
  /\ com_out \in 0..MaxUp
  /\ s_seen \in 0..SeqMax /\ s_seq \in 0..SeqMax /\ s_msg \in 0..MaxUp
  /\ s_ack \in BOOLEAN /\ s_reset \in BOOLEAN
  /\ downSent \in 0..MaxDown /\ downGot \in 0..MaxDown
  /\ downLost \in 0..MaxDown
  /\ upSent \in 0..MaxUp /\ upHanded \in 0..MaxUp
  /\ forwarded \subseteq 1..MaxUp /\ dropped \subseteq 1..MaxUp

\* A delivery that may be given up was begun after the com had accepted one.
FirstInv ==
  /\ first_enumerate_send => forwarded # {}
  /\ \A t \in Tasks :
       delivering[t] # Idle /\ ~delivering[t].definite => first_enumerate_send
  /\ dropped # {} => forwarded # {}

\* Numbers stay in range.
LEMMA NumberTypes ==
  /\ \A q \in 0..SeqMax :
       next_sequence(q) \in 0..SeqMax /\ SlaveNext(q) \in 0..SeqMax
  /\ \A n \in 0..TriesMod - 1 : (n + 1) % TriesMod \in 0..TriesMod - 1
  /\ MaxTries - 1 \in 0..TriesMod - 1
<1>1. \A q \in 0..SeqMax :
        next_sequence(q) \in 0..SeqMax /\ SlaveNext(q) \in 0..SeqMax
  BY CoMcuAssumption DEF next_sequence, SlaveNext
<1>2. \A n \in 0..TriesMod - 1 : (n + 1) % TriesMod \in 0..TriesMod - 1
  <2>1. TriesMod \in Nat /\ TriesMod > 0
    BY CoMcuAssumption
  <2>2. QED
    BY <2>1
<1>3. QED
  BY <1>1, <1>2, CoMcuAssumption

\* A frame of the Bricklet.
LEMMA ReadFrame ==
  ASSUME TypeInv, NEW i \in 1..Len(recv)
  PROVE  /\ recv[i] \in UpFrame \cup {Bad}
         /\ recv[i].kind \in {"ack", "msg", "bad"}
         /\ recv[i].seq \in 0..SeqMax /\ recv[i].ack \in 0..SeqMax
         /\ recv[i].msg \in 0..MaxUp
         /\ recv[i].kind = "msg" => recv[i].msg \in 1..MaxUp
<1>1. recv[i] \in UpFrame \cup {Bad}
  BY ElementOfSeq DEF TypeInv
<1>2. CASE recv[i] \in UpFrame
  BY <1>2, CoMcuAssumption DEF UpFrame, NoMsg
<1>3. CASE recv[i] = Bad
  BY <1>3, CoMcuAssumption DEF Bad, NoMsg
<1>4. QED
  BY <1>1, <1>2, <1>3

\* A sequence over a set is one over a larger set.
LEMMA WiderFrames ==
  /\ DownFrame \subseteq Frame
  /\ UpFrame \subseteq Frame
  /\ Delivery \cup {Idle} \subseteq [msg : 0..MaxUp, definite : BOOLEAN]
<1>1. /\ 0..MaxDown \subseteq Nat /\ 0..MaxUp \subseteq Nat
      /\ 1..MaxUp \subseteq 0..MaxUp /\ 0 \in 0..MaxUp
  BY CoMcuAssumption
<1>2. DownFrame \subseteq Frame
  BY <1>1 DEF DownFrame, Frame
<1>3. UpFrame \subseteq Frame
  BY <1>1 DEF UpFrame, Frame
<1>4. Delivery \cup {Idle} \subseteq [msg : 0..MaxUp, definite : BOOLEAN]
  <2>1. Idle \in [msg : 0..MaxUp, definite : BOOLEAN]
    BY <1>1 DEF Idle, NoMsg
  <2>2. Delivery \subseteq [msg : 0..MaxUp, definite : BOOLEAN]
    BY <1>1 DEF Delivery
  <2>3. QED
    BY <2>1, <2>2
<1>5. QED
  BY <1>2, <1>3, <1>4

\* The rest of TypeInv: sequences over narrow sets are sequences over wide ones.
LEMMA NarrowIsEnough ==
  /\ \A q \in Seq(DownFrame) : q \in Seq(Frame)
  /\ \A q \in Seq(UpFrame \cup {Bad}) : q \in Seq(Frame \cup {Bad})
  /\ \A d \in [Tasks -> Delivery \cup {Idle}] :
       d \in [Tasks -> [msg : 0..MaxUp, definite : BOOLEAN]]
<1>1. Seq(DownFrame) \subseteq Seq(Frame)
  BY WiderFrames
<1>2. UpFrame \cup {Bad} \subseteq Frame \cup {Bad}
  BY WiderFrames
<1>3. Seq(UpFrame \cup {Bad}) \subseteq Seq(Frame \cup {Bad})
  BY <1>2
<1>4. QED
  BY <1>1, <1>3, WiderFrames

\* A poll: the frame it sends and the ack are frames, and what it reads is a
\* message of the Bricklet.
LEMMA PollType ==
  ASSUME TypeInv, NEW t \in Tasks, NEW buf \in 0..MaxDown,
         NEW timeout \in -1..AckTimeout, Poll(t, buf, timeout)
  PROVE  /\ tries' \in 0..TriesMod - 1
         /\ buffer_send' \in 0..MaxDown
         /\ buffer_send_ack_timeout' \in -1..AckTimeout
         /\ current_sequence_number' \in 0..SeqMax
         /\ last_sequence_number_seen' \in 0..SeqMax
         /\ reset_wait' \in BOOLEAN /\ got_message' \in BOOLEAN
         /\ upHanded' \in 0..MaxUp /\ downLost' \in 0..MaxDown
         /\ recv' \in Seq(UpFrame \cup {Bad})
         /\ toSlave' \in Seq(DownFrame)
         /\ delivering' \in [Tasks -> Delivery \cup {Idle}]
<1>1. PICK n \in 0..Len(recv) : \E sent \in BOOLEAN : \E acked \in BOOLEAN :
         PollStep(t, buf, timeout, n, sent, acked)
  BY DEF Poll
<1>2. PICK sent \in BOOLEAN : \E acked \in BOOLEAN :
         PollStep(t, buf, timeout, n, sent, acked)
  BY <1>1
<1>3. PICK acked \in BOOLEAN : PollStep(t, buf, timeout, n, sent, acked)
  BY <1>2
<1>4. /\ tries \in 0..TriesMod - 1
      /\ current_sequence_number \in 0..SeqMax
      /\ last_sequence_number_seen \in 0..SeqMax
      /\ got_message \in BOOLEAN /\ first_enumerate_send \in BOOLEAN
      /\ upHanded \in 0..MaxUp /\ downLost \in 0..MaxDown
      /\ recv \in Seq(UpFrame \cup {Bad}) /\ toSlave \in Seq(DownFrame)
      /\ delivering \in [Tasks -> Delivery \cup {Idle}]
      /\ 0 \in 0..SeqMax /\ 0 \in 0..MaxDown /\ AckTimeout \in Nat
  BY CoMcuAssumption DEF TypeInv
<1>5. /\ tries' \in 0..TriesMod - 1
      /\ buffer_send' \in 0..MaxDown
      /\ buffer_send_ack_timeout' \in -1..AckTimeout
      /\ reset_wait' \in BOOLEAN
      /\ downLost' \in 0..MaxDown
  <2>1. tries' \in 0..TriesMod - 1
    BY <1>3, <1>4, NumberTypes DEF PollStep
  <2>2. buffer_send' \in 0..MaxDown /\ downLost' \in 0..MaxDown
    BY <1>3, <1>4 DEF PollStep, NoMsg
  <2>3. buffer_send_ack_timeout' \in -1..AckTimeout
    <3>1. \/ buffer_send_ack_timeout' \in {-1, AckTimeout, timeout}
          \/ timeout > 0 /\ buffer_send_ack_timeout' = timeout - 1
      BY <1>3, Zenon DEF PollStep
    <3>2. QED
      BY <1>4, <3>1
  <2>4. reset_wait' \in BOOLEAN
    BY <1>3 DEF PollStep
  <2>5. QED
    BY <2>1, <2>2, <2>3, <2>4
<1>6. current_sequence_number' \in 0..SeqMax
  BY <1>3, <1>4, NumberTypes DEF PollStep
<1>7. n > 0 => n \in 1..Len(recv)
  BY <1>4
<1>8. /\ last_sequence_number_seen' \in 0..SeqMax
      /\ got_message' \in BOOLEAN /\ upHanded' \in 0..MaxUp
  BY <1>3, <1>4, <1>7, ReadFrame DEF PollStep
<1>9. delivering' \in [Tasks -> Delivery \cup {Idle}]
  <2>1. \/ delivering' = delivering
        \/ /\ n > 0 /\ recv[n].kind = "msg"
           /\ delivering' = [delivering EXCEPT ![t] =
                               [msg |-> recv[n].msg, definite |-> Definite]]
    BY <1>3 DEF PollStep
  <2>2. Definite \in BOOLEAN
    BY DEF Definite
  <2>3. \A m \in 1..MaxUp : [msg |-> m, definite |-> Definite] \in Delivery
    BY <2>2 DEF Delivery
  <2>4. QED
    BY <1>4, <1>7, <2>1, <2>3, ReadFrame
<1>10. recv' \in Seq(UpFrame \cup {Bad})
  <2>1. recv' \in RestAfter(n)
    BY <1>3 DEF PollStep
  <2>2. QED
    BY <1>4, <2>1, RestFrames
<1>11. toSlave' \in Seq(DownFrame)
  <2>1. PICK buf1 \in 0..MaxDown :
          \E q \in 0..SeqMax : \E a, b \in BOOLEAN :
            /\ b => n \in 1..Len(recv)
            /\ toSlave' = Carried(toSlave,
                 (IF a THEN <<[kind |-> "msg", ack |-> last_sequence_number_seen,
                               seq |-> q, msg |-> buf1]>> ELSE <<>>)
                 \o (IF b THEN <<[kind |-> "ack", ack |-> recv[n].seq,
                                  seq |-> 0, msg |-> NoMsg]>> ELSE <<>>))
    <3> DEFINE expired == timeout = 1
               tries1 == IF expired THEN (tries + 1) % TriesMod ELSE tries
               giveUp == expired /\ tries1 >= MaxTries /\ ~got_message
               buf1 == IF giveUp THEN NoMsg ELSE buf
               timeout1 == IF giveUp THEN -1
                           ELSE IF timeout > 0 THEN timeout - 1 ELSE timeout
               sends == Sends(buf1, timeout1)
               resets == /\ \E i \in 1..n :
                              /\ recv[i].kind # "bad"
                              /\ recv[i].ack = current_sequence_number'
                         /\ buf1 \in Resets
               seen == IF resets THEN 0 ELSE last_sequence_number_seen
               isMessage == n > 0 /\ recv[n].kind = "msg"
               a == sends /\ sent
               b == isMessage /\ Acks(recv[n], seen) /\ acked
    <3>1. toSlave' = Carried(toSlave,
             (IF a THEN <<[kind |-> "msg", ack |-> last_sequence_number_seen,
                           seq |-> current_sequence_number', msg |-> buf1]>>
              ELSE <<>>)
             \o (IF b THEN <<[kind |-> "ack", ack |-> recv[n].seq,
                              seq |-> 0, msg |-> NoMsg]>> ELSE <<>>))
      BY <1>3 DEF PollStep
    <3>2. buf1 \in 0..MaxDown
      BY <1>4 DEF NoMsg
    <3>3. b => n \in 1..Len(recv)
      BY <1>7
    <3>4. a \in BOOLEAN /\ b \in BOOLEAN
      BY <1>3 DEF Sends, Acks
    <3> HIDE DEF a, b, buf1
    <3>5. QED
      BY <1>6, <3>1, <3>2, <3>3, <3>4
  <2>2. PICK q \in 0..SeqMax, a \in BOOLEAN, b \in BOOLEAN :
            /\ b => n \in 1..Len(recv)
            /\ toSlave' = Carried(toSlave,
                 (IF a THEN <<[kind |-> "msg", ack |-> last_sequence_number_seen,
                               seq |-> q, msg |-> buf1]>> ELSE <<>>)
                 \o (IF b THEN <<[kind |-> "ack", ack |-> recv[n].seq,
                                  seq |-> 0, msg |-> NoMsg]>> ELSE <<>>))
    BY <2>1
  <2> DEFINE f == [kind |-> "msg", ack |-> last_sequence_number_seen,
                   seq |-> q, msg |-> buf1]
             g == [kind |-> "ack", ack |-> recv[n].seq, seq |-> 0, msg |-> NoMsg]
             x == IF a THEN <<f>> ELSE <<>>
             y == IF b THEN <<g>> ELSE <<>>
  <2>3. f \in DownFrame
    BY <1>4 DEF DownFrame
  <2>4. b => g \in DownFrame
    BY <1>4, <2>2, ReadFrame DEF DownFrame, NoMsg
  <2>5. x \in Seq(DownFrame) /\ y \in Seq(DownFrame)
    <3> HIDE DEF f, g
    <3>1. QED
      BY <2>3, <2>4
  <2>6. x \o y \in Seq(DownFrame) /\ toSlave' = Carried(toSlave, x \o y)
    <3>1. toSlave' = Carried(toSlave, x \o y)
      BY <2>2
    <3> HIDE DEF x, y
    <3>2. QED
      BY <2>5, <3>1, ConcatProperties
  <2> HIDE DEF x, y
  <2>7. QED
    BY <1>4, <2>6, CarriedFrames
<1>12. QED
  BY <1>5, <1>6, <1>8, <1>9, <1>10, <1>11

\* Types survive every step, also a reset of the Bricklet.
LEMMA TypeStep ==
  ASSUME TypeInv, [Next]_vars
  PROVE  TypeInv'
<1> USE DEF TypeInv
<1>1. CASE Connect
  BY <1>1 DEF Connect, comVars, slaveVars
<1>2. CASE TickPoll
  <2>1. "tick" \in Tasks
    BY DEF Tasks
  <2>2. Poll("tick", buffer_send, buffer_send_ack_timeout)
    BY <1>2 DEF TickPoll
  <2>3. UNCHANGED <<com_current, downSent, slaveVars>>
    BY <1>2 DEF TickPoll
  <2>4. UNCHANGED <<first_enumerate_send, com_out, forwarded, dropped>>
    BY <2>2, ZenonT(30) DEF Poll, PollStep
  <2>5. /\ tries' \in 0..TriesMod - 1
        /\ buffer_send' \in 0..MaxDown
        /\ buffer_send_ack_timeout' \in -1..AckTimeout
        /\ current_sequence_number' \in 0..SeqMax
        /\ last_sequence_number_seen' \in 0..SeqMax
        /\ reset_wait' \in BOOLEAN /\ got_message' \in BOOLEAN
        /\ upHanded' \in 0..MaxUp /\ downLost' \in 0..MaxDown
        /\ recv' \in Seq(UpFrame \cup {Bad})
        /\ toSlave' \in Seq(DownFrame)
        /\ delivering' \in [Tasks -> Delivery \cup {Idle}]
    BY <2>1, <2>2, PollType
  <2>6. QED
    BY <2>3, <2>4, <2>5 DEF slaveVars
<1>3. ASSUME NEW l \in Loops, LoopSend(l) PROVE TypeInv'
  <2>1. l \in Tasks
    BY DEF Tasks
  <2>2. /\ com_current' \in BOOLEAN /\ downSent' = downSent + 1
        /\ downSent + 1 \in 0..MaxDown
        /\ UNCHANGED slaveVars
    BY <1>3, CoMcuAssumption DEF LoopSend
  <2>3. CASE Poll(l, downSent + 1, -1)
    <3>1. UNCHANGED <<first_enumerate_send, com_out, forwarded, dropped>>
      BY <2>3 DEF Poll, PollStep
    <3>2. -1 \in -1..AckTimeout
      BY CoMcuAssumption
    <3>3. /\ tries' \in 0..TriesMod - 1
          /\ buffer_send' \in 0..MaxDown
          /\ buffer_send_ack_timeout' \in -1..AckTimeout
          /\ current_sequence_number' \in 0..SeqMax
          /\ last_sequence_number_seen' \in 0..SeqMax
          /\ reset_wait' \in BOOLEAN /\ got_message' \in BOOLEAN
          /\ upHanded' \in 0..MaxUp /\ downLost' \in 0..MaxDown
          /\ recv' \in Seq(UpFrame \cup {Bad})
          /\ toSlave' \in Seq(DownFrame)
          /\ delivering' \in [Tasks -> Delivery \cup {Idle}]
      BY <2>1, <2>2, <2>3, <3>2, PollType
    <3>4. QED
      BY <2>2, <3>1, <3>3 DEF slaveVars
  <2>4. CASE reset_wait
             /\ buffer_send' = downSent + 1
             /\ buffer_send_ack_timeout' = -1
             /\ UNCHANGED <<current_sequence_number, last_sequence_number_seen,
                            tries, got_message, reset_wait, downLost, comVars,
                            recv, toSlave, upHanded>>
    <3>1. buffer_send_ack_timeout' \in -1..AckTimeout
      BY <2>4, CoMcuAssumption
    <3>2. QED
      BY <2>2, <2>4, <3>1 DEF slaveVars, comVars
  <2>5. QED
    BY <1>3, <2>3, <2>4 DEF LoopSend
<1>4. ASSUME NEW t \in Tasks, Forward(t) PROVE TypeInv'
  <2>1. delivering[t] \in Delivery
    BY <1>4 DEF Forward
  <2>2. delivering[t].msg \in 1..MaxUp /\ delivering[t].definite \in BOOLEAN
        /\ delivering[t].msg \in 0..MaxUp
    BY <2>1, SMTT(20) DEF Delivery
  <2>3. /\ com_out' \in 0..MaxUp /\ forwarded' \subseteq 1..MaxUp
        /\ first_enumerate_send' \in BOOLEAN
        /\ delivering' \in [Tasks -> Delivery \cup {Idle}]
    BY <1>4, <2>2 DEF Forward
  <2>4. QED
    BY <1>4, <2>3 DEF Forward, brickVars, slaveVars
<1>5. ASSUME NEW t \in Tasks, ForwardTimeout(t) PROVE TypeInv'
  <2>1. delivering[t] \in Delivery
    BY <1>5 DEF ForwardTimeout
  <2>2. delivering[t].msg \in 1..MaxUp
    BY <2>1 DEF Delivery
  <2>3. /\ dropped' \subseteq 1..MaxUp
        /\ delivering' \in [Tasks -> Delivery \cup {Idle}]
    BY <1>5, <2>2 DEF ForwardTimeout
  <2>4. QED
    BY <1>5, <2>3 DEF ForwardTimeout, brickVars, slaveVars
<1>6. CASE ComSent
  <2>1. com_out' \in 0..MaxUp
    BY <1>6, CoMcuAssumption DEF ComSent, NoMsg
  <2>2. QED
    BY <1>6, <2>1 DEF ComSent, brickVars, slaveVars
<1>7. CASE SlaveSay
  <2>1. /\ upSent' \in 0..MaxUp /\ s_msg' \in 0..MaxUp /\ s_seq' \in 0..SeqMax
    BY <1>7, NumberTypes, CoMcuAssumption DEF SlaveSay
  <2>2. QED
    BY <1>7, <2>1 DEF SlaveSay, brickVars, comVars
<1>8. ASSUME NEW kind \in Kinds, NEW outcome \in Outcomes,
             SlaveEmit(kind, outcome)
      PROVE  TypeInv'
  <2> DEFINE good == [kind |-> kind, ack |-> s_seen,
                      seq |-> IF kind = "msg" THEN s_seq ELSE 0,
                      msg |-> IF kind = "msg" THEN s_msg ELSE NoMsg]
  <2>1. good \in UpFrame
    <3>1. kind \in {"ack", "msg"} /\ 0 \in 0..SeqMax /\ 0 \in 0..MaxUp
      BY CoMcuAssumption DEF Kinds
    <3>2. kind = "msg" => s_msg # NoMsg
      BY <1>8 DEF SlaveEmit
    <3>3. QED
      BY <3>1, <3>2 DEF UpFrame, NoMsg
  <2>2. recv' \in {recv, Append(recv, good), Append(recv, Bad)}
    BY <1>8 DEF SlaveEmit, Outcomes
  <2>3. recv' \in Seq(UpFrame \cup {Bad})
    <3> HIDE DEF good
    <3>1. Append(recv, good) \in Seq(UpFrame \cup {Bad})
      BY <2>1, AppendProperties
    <3>2. Append(recv, Bad) \in Seq(UpFrame \cup {Bad})
      BY AppendProperties
    <3>3. QED
      BY <2>2, <3>1, <3>2
  <2>4. s_ack' \in BOOLEAN
    BY <1>8 DEF SlaveEmit
  <2>5. QED
    BY <1>8, <2>3, <2>4 DEF SlaveEmit, brickVars, comVars
<1>9. CASE SlaveTake
  <2>1. toSlave # <<>> /\ toSlave' = Tail(toSlave)
    BY <1>9 DEF SlaveTake
  <2>2. Head(toSlave) \in DownFrame /\ toSlave' \in Seq(DownFrame)
    BY <2>1
  <2>3. Head(toSlave).seq \in 0..SeqMax /\ Head(toSlave).msg \in 0..MaxDown
    BY <2>2 DEF DownFrame
  <2>4. /\ s_msg' \in 0..MaxUp /\ s_seen' \in 0..SeqMax
        /\ downGot' \in 0..MaxDown
        /\ s_ack' \in BOOLEAN /\ s_reset' \in BOOLEAN
    BY <1>9, <2>3, CoMcuAssumption DEF SlaveTake, NoMsg
  <2>5. QED
    BY <1>9, <2>2, <2>4 DEF SlaveTake, brickVars, comVars
<1>10. CASE SlaveReset
  <2>1. PICK n \in 0..Len(recv) : recv' = SubSeq(recv, 1, n)
    BY <1>10 DEF SlaveReset
  <2>2. recv' \in Seq(UpFrame \cup {Bad})
    <3>1. \A i \in 1..n : recv[i] \in UpFrame \cup {Bad}
      BY ElementOfSeq, SMTT(20)
    <3>2. QED
      BY <2>1, <3>1, SubSeqProperties
  <2>3. toSlave' \in Seq(DownFrame)
    BY <1>10 DEF SlaveReset
  <2>4. /\ s_seen' \in 0..SeqMax /\ s_seq' \in 0..SeqMax
        /\ s_msg' \in 0..MaxUp /\ s_reset' \in BOOLEAN
    <3>1. 0 \in 0..SeqMax /\ 0 \in 0..MaxUp
      BY CoMcuAssumption
    <3>2. s_seen' = 0 /\ s_seq' = 0 /\ s_msg' = 0 /\ s_reset' = FALSE
      BY <1>10 DEF SlaveReset, NoMsg
    <3>3. QED
      BY <3>1, <3>2
  <2>5. QED
    BY <1>10, <2>2, <2>3, <2>4
       DEF SlaveReset, brickVars, comVars
<1>11. CASE UNCHANGED vars
  BY <1>11 DEF vars, brickVars, comVars, slaveVars
<1>12. QED
  BY <1>1, <1>2, <1>3, <1>4, <1>5, <1>6, <1>7, <1>8, <1>9, <1>10, <1>11
     DEF Next

LEMMA TypeInvariant == Spec => []TypeInv
<1>1. Init => TypeInv
  <2> SUFFICES ASSUME Init PROVE TypeInv
    OBVIOUS
  <2>1. /\ 0 \in 0..MaxDown /\ 0 \in 0..MaxUp /\ 0 \in 0..SeqMax
        /\ 0 \in 0..TriesMod - 1 /\ -1 \in -1..AckTimeout
    BY CoMcuAssumption
  <2>2. delivering \in [Tasks -> Delivery \cup {Idle}]
    BY DEF Init
  <2>3. <<>> \in Seq(DownFrame) /\ <<>> \in Seq(UpFrame \cup {Bad})
    OBVIOUS
  <2>4. QED
    BY <2>1, <2>2, <2>3 DEF Init, NoMsg, TypeInv
<1>2. QED
  BY <1>1, TypeStep, PTL DEF Spec

\* Numbers, buffers and frames of a port stay in their ranges, whichever frames
\* are lost and whenever the Bricklet resets (TypeOK of CoMcu).
THEOREM TypeCorrect == Spec => []TypeOK
<1>1. TypeInv => TypeOK
  BY NarrowIsEnough DEF TypeInv, TypeOK
<1>2. QED
  BY <1>1, TypeInvariant, PTL

-----------------------------------------------------------------------------
(* The first message.                                                      *)

\* A message the com has not accepted yet may be given up only when the com has
\* accepted one before; so it stays with those that are in the hands of a task.
LEMMA FirstInvariant == Spec => []FirstInv
<1>1. Init => FirstInv
  BY DEF Init, FirstInv
<1>2. TypeInv /\ FirstInv /\ [Next]_vars => FirstInv'
  <2> SUFFICES ASSUME TypeInv, FirstInv, [Next]_vars PROVE FirstInv'
    OBVIOUS
  <2>0. delivering \in [Tasks -> Delivery \cup {Idle}]
    BY DEF TypeInv
  <2>1. CASE UNCHANGED <<first_enumerate_send, delivering, forwarded, dropped>>
    BY <2>1 DEF FirstInv
  <2>2. ASSUME NEW t \in Tasks, NEW buf, NEW timeout, Poll(t, buf, timeout)
        PROVE  FirstInv'
    <3>1. UNCHANGED <<first_enumerate_send, forwarded, dropped>>
      BY <2>2 DEF Poll, PollStep
    <3>2. \/ delivering' = delivering
          \/ \E m : delivering' =
               [delivering EXCEPT ![t] = [msg |-> m, definite |-> Definite]]
      BY <2>2, ZenonT(30) DEF Poll, PollStep
    <3>3. CASE delivering' = delivering
      BY <2>1, <3>1, <3>3
    <3>4. ASSUME NEW m, delivering' =
               [delivering EXCEPT ![t] = [msg |-> m, definite |-> Definite]]
          PROVE  FirstInv'
      <4>1. delivering'[t].definite = ~first_enumerate_send
        BY <2>0, <3>4 DEF Definite
      <4>2. \A u \in Tasks \ {t} : delivering'[u] = delivering[u]
        BY <2>0, <3>4
      <4>3. QED
        BY <3>1, <4>1, <4>2 DEF FirstInv
    <3>5. QED
      BY <3>2, <3>3, <3>4
  <2>3. CASE TickPoll
    BY <2>2, <2>3 DEF TickPoll, Tasks
  <2>4. ASSUME NEW l \in Loops, LoopSend(l) PROVE FirstInv'
    <3>1. l \in Tasks
      BY DEF Tasks
    <3>2. CASE Poll(l, downSent + 1, -1)
      BY <2>2, <3>1, <3>2
    <3>3. CASE UNCHANGED comVars
      BY <2>1, <3>3 DEF comVars
    <3>4. QED
      BY <2>4, <3>2, <3>3 DEF LoopSend
  <2>5. ASSUME NEW t \in Tasks, Forward(t) PROVE FirstInv'
    <3>1. /\ forwarded' # {} /\ UNCHANGED dropped
          /\ first_enumerate_send => first_enumerate_send'
          /\ delivering' = [delivering EXCEPT ![t] = Idle]
      BY <2>5 DEF Forward
    <3>2. delivering'[t] = Idle
          /\ \A u \in Tasks \ {t} : delivering'[u] = delivering[u]
      BY <2>0, <3>1
    <3>3. QED
      BY <3>1, <3>2 DEF FirstInv
  <2>6. ASSUME NEW t \in Tasks, ForwardTimeout(t) PROVE FirstInv'
    <3>1. /\ UNCHANGED <<forwarded, first_enumerate_send>>
          /\ delivering[t] # Idle /\ ~delivering[t].definite
          /\ delivering' = [delivering EXCEPT ![t] = Idle]
      BY <2>6 DEF ForwardTimeout
    <3>2. delivering'[t] = Idle
          /\ \A u \in Tasks \ {t} : delivering'[u] = delivering[u]
      BY <2>0, <3>1
    <3>3. forwarded # {}
      BY <3>1 DEF FirstInv
    <3>4. QED
      BY <3>1, <3>2, <3>3 DEF FirstInv
  <2>7. CASE Connect \/ ComSent \/ SlaveSay \/ SlaveTake \/ SlaveReset
    BY <2>1, <2>7 DEF Connect, ComSent, SlaveSay, SlaveTake, SlaveReset, comVars
  <2>8. CASE \E kind \in Kinds, outcome \in Outcomes : SlaveEmit(kind, outcome)
    BY <2>1, <2>8 DEF SlaveEmit, comVars
  <2>9. CASE UNCHANGED vars
    BY <2>1, <2>9 DEF vars, comVars
  <2>10. QED
    BY <2>3, <2>4, <2>5, <2>6, <2>7, <2>8, <2>9 DEF Next
<1>3. QED
  BY <1>1, <1>2, TypeInvariant, PTL DEF Spec

\* "We make sure that the very first enumerate is definitely send": however many
\* tasks hand messages to the com at a time, none of them is given up before the
\* com has accepted a first one (FirstMessageForwarded of CoMcu).
THEOREM FirstIsForwarded == Spec => []FirstMessageForwarded
<1>1. FirstInv => FirstMessageForwarded
  BY DEF FirstInv, FirstMessageForwarded
<1>2. QED
  BY <1>1, FirstInvariant, PTL

-----------------------------------------------------------------------------
(* A poll of a Bricklet that nobody asks for a reset.                      *)

\* The frame the poll reads last is a message that the Brick has not seen.
ReadsNew(n) ==
  n > 0 /\ recv[n].kind = "msg" /\ recv[n].seq # last_sequence_number_seen

\* The frames on their way to the Bricklet afterwards: those before, then the
\* message unless it was given up, and the ack of a message that was read.
WireAfter(n, buf, giveUp) ==
  \A i \in 1..Len(toSlave') :
    \/ i <= Len(toSlave) /\ toSlave'[i] = toSlave[i]
    \/ /\ i > Len(toSlave) /\ buf # NoMsg /\ ~giveUp
       /\ toSlave'[i] = [kind |-> "msg", ack |-> last_sequence_number_seen,
                         seq |-> current_sequence_number', msg |-> buf]
    \/ /\ i > Len(toSlave) /\ i = Len(toSlave')
       /\ n > 0 /\ recv[n].kind = "msg"
       /\ toSlave'[i] = [kind |-> "ack", ack |-> recv[n].seq, seq |-> 0,
                         msg |-> NoMsg]

\* The poll reads n frames; giveUp and ackSeen tell what becomes of the message.
PollEffect(t, buf, timeout, n, giveUp, ackSeen) ==
  /\ ackSeen <=> \E i \in 1..n : /\ recv[i].kind # "bad"
                                 /\ recv[i].ack = current_sequence_number'
  /\ giveUp => timeout = 1 /\ MayGiveUp(buf)
  /\ current_sequence_number' = IF buf # NoMsg /\ timeout < 0
                                THEN next_sequence(current_sequence_number)
                                ELSE current_sequence_number
  /\ buffer_send' = IF ackSeen \/ giveUp THEN NoMsg ELSE buf
  /\ ackSeen \/ giveUp => buffer_send_ack_timeout' = -1
  /\ ~ackSeen /\ ~giveUp => IF buf = NoMsg
                            THEN timeout = -1 => buffer_send_ack_timeout' = -1
                            ELSE buffer_send_ack_timeout' >= 0
  /\ downLost' = IF giveUp THEN buf ELSE downLost
  /\ ~reset_wait'
  /\ IF ReadsNew(n)
     THEN /\ last_sequence_number_seen' = recv[n].seq
          /\ upHanded' = recv[n].msg
          /\ \E d : delivering' =
                      [delivering EXCEPT ![t] = [msg |-> recv[n].msg,
                                                 definite |-> d]]
     ELSE UNCHANGED <<last_sequence_number_seen, upHanded, delivering>>
  /\ \E k \in n..Len(recv) : IsRest(recv', recv, k)
  /\ WireAfter(n, buf, giveUp)

\* Frames that join the wire come after those that are on it.
LEMMA JoinsWire ==
  ASSUME NEW S, NEW q \in Seq(S), NEW x \in Seq(S)
  PROVE  \A i \in 1..Len(Carried(q, x)) :
           \/ i <= Len(q) /\ Carried(q, x)[i] = q[i]
           \/ /\ i > Len(q) /\ i - Len(q) \in 1..Len(x)
              /\ Carried(q, x)[i] = x[i - Len(q)]
              /\ i - Len(q) = Len(x) => i = Len(Carried(q, x))
<1>1. /\ Carried(q, x) \in Seq(S)
      /\ Len(Carried(q, x)) <= Len(q) + Len(x)
      /\ \A i \in 1..Len(Carried(q, x)) :
           Carried(q, x)[i] = IF i <= Len(q) THEN q[i] ELSE x[i - Len(q)]
  BY CarriedFrames
<1>2. Len(Carried(q, x)) \in Nat /\ Len(q) \in Nat /\ Len(x) \in Nat
  BY <1>1
<1>3. QED
  BY <1>1, <1>2

LEMMA OneOrNone ==
  ASSUME NEW S, NEW a \in BOOLEAN, NEW f, a => f \in S,
         NEW u, u = IF a THEN <<f>> ELSE <<>>
  PROVE  /\ u \in Seq(S) /\ Len(u) \in Nat /\ Len(u) <= 1
         /\ \A i \in 1..Len(u) : a /\ u[i] = f
<1>1. CASE a
  <2>1. u = <<f>> /\ f \in S
    BY <1>1
  <2>2. u \in Seq(S) /\ Len(u) = 1 /\ u[1] = f
    BY <2>1
  <2>3. QED
    BY <1>1, <2>2
<1>2. CASE ~a
  <2>1. u = <<>>
    BY <1>2
  <2>2. u \in Seq(S) /\ Len(u) = 0
    BY <2>1
  <2>3. QED
    BY <2>2
<1>3. QED
  BY <1>1, <1>2

\* At most two frames join it.
LEMMA TwoFrames ==
  ASSUME NEW S, NEW q \in Seq(S), NEW a \in BOOLEAN, NEW b \in BOOLEAN,
         NEW f, NEW g, a => f \in S, b => g \in S,
         NEW r, r = Carried(q, (IF a THEN <<f>> ELSE <<>>)
                               \o (IF b THEN <<g>> ELSE <<>>))
  PROVE  \A i \in 1..Len(r) :
           \/ i <= Len(q) /\ r[i] = q[i]
           \/ i > Len(q) /\ a /\ r[i] = f
           \/ i > Len(q) /\ i = Len(r) /\ b /\ r[i] = g
<1> DEFINE u == IF a THEN <<f>> ELSE <<>>
           v == IF b THEN <<g>> ELSE <<>>
           x == u \o v
<1>2. /\ u \in Seq(S) /\ v \in Seq(S)
      /\ Len(u) \in Nat /\ \A i \in 1..Len(u) : a /\ u[i] = f
      /\ Len(v) \in Nat /\ Len(v) <= 1 /\ \A i \in 1..Len(v) : b /\ v[i] = g
  <2>1. u = (IF a THEN <<f>> ELSE <<>>) /\ v = (IF b THEN <<g>> ELSE <<>>)
    OBVIOUS
  <2> HIDE DEF u, v
  <2>2. u \in Seq(S) /\ Len(u) \in Nat /\ \A i \in 1..Len(u) : a /\ u[i] = f
    BY <2>1, OneOrNone
  <2>3. /\ v \in Seq(S) /\ Len(v) \in Nat /\ Len(v) <= 1
        /\ \A i \in 1..Len(v) : b /\ v[i] = g
    BY <2>1, OneOrNone
  <2>4. QED
    BY <2>2, <2>3
<1> HIDE DEF u, v
<1>3. r = Carried(q, x)
  BY DEF u, v
<1>4. /\ x \in Seq(S) /\ Len(x) = Len(u) + Len(v)
      /\ \A i \in 1..Len(u) + Len(v) :
           x[i] = IF i <= Len(u) THEN u[i] ELSE v[i - Len(u)]
  BY <1>2, ConcatProperties
<1> HIDE DEF x
<1>5. \A i \in 1..Len(x) : \/ a /\ x[i] = f
                           \/ b /\ x[i] = g /\ i = Len(x)
  <2> SUFFICES ASSUME NEW i \in 1..Len(x)
               PROVE  \/ a /\ x[i] = f
                      \/ b /\ x[i] = g /\ i = Len(x)
    OBVIOUS
  <2>1. CASE i <= Len(u)
    <3>1. i \in 1..Len(u) /\ i \in 1..Len(u) + Len(v)
      BY <1>2, <1>4, <2>1
    <3>2. QED
      BY <1>2, <1>4, <2>1, <3>1
  <2>2. CASE ~(i <= Len(u))
    <3>1. i - Len(u) \in 1..Len(v) /\ i \in 1..Len(u) + Len(v) /\ i = Len(x)
      BY <1>2, <1>4, <2>2
    <3>2. QED
      BY <1>2, <1>4, <2>2, <3>1
  <2>3. QED
    BY <2>1, <2>2
<1>6. \A i \in 1..Len(Carried(q, x)) :
           \/ i <= Len(q) /\ Carried(q, x)[i] = q[i]
           \/ /\ i > Len(q) /\ i - Len(q) \in 1..Len(x)
              /\ Carried(q, x)[i] = x[i - Len(q)]
              /\ i - Len(q) = Len(x) => i = Len(Carried(q, x))
  BY <1>4, JoinsWire
<1>7. QED
  BY <1>3, <1>5, <1>6

LEMMA PollStepEffect ==
  ASSUME Resets = {}, TypeInv, NEW t \in Tasks, NEW buf \in 0..MaxDown,
         NEW timeout \in -1..AckTimeout, NEW n \in 0..Len(recv),
         NEW sent \in BOOLEAN, NEW acked \in BOOLEAN,
         PollStep(t, buf, timeout, n, sent, acked)
  PROVE  \E giveUp, ackSeen \in BOOLEAN :
           PollEffect(t, buf, timeout, n, giveUp, ackSeen)
<1> DEFINE expired == timeout = 1
           tries1 == IF expired THEN (tries + 1) % TriesMod ELSE tries
           giveUp == expired /\ tries1 >= MaxTries /\ ~got_message
           buf1 == IF giveUp THEN NoMsg ELSE buf
           timeout1 == IF giveUp THEN -1
                       ELSE IF timeout > 0 THEN timeout - 1 ELSE timeout
           sends == Sends(buf1, timeout1)
           seq == IF sends /\ timeout1 < 0
                  THEN next_sequence(current_sequence_number)
                  ELSE current_sequence_number
           frame == [kind |-> "msg", ack |-> last_sequence_number_seen,
                     seq |-> seq, msg |-> buf1]
           ackSeen == \E i \in 1..n : recv[i].kind # "bad" /\ recv[i].ack = seq
           isMessage == n > 0 /\ recv[n].kind = "msg"
           new == isMessage /\ IsNew(recv[n], last_sequence_number_seen)
           ackFrame == [kind |-> "ack", ack |-> recv[n].seq, seq |-> 0,
                        msg |-> NoMsg]
<1>1. /\ buffer_send' = IF ackSeen THEN NoMsg ELSE buf1
      /\ buffer_send_ack_timeout' =
           IF ackSeen THEN -1 ELSE IF sends THEN AckTimeout ELSE timeout1
      /\ current_sequence_number' = seq
      /\ reset_wait' = FALSE
      /\ last_sequence_number_seen' =
           IF new THEN recv[n].seq ELSE last_sequence_number_seen
      /\ upHanded' = IF new THEN recv[n].msg ELSE upHanded
      /\ delivering' = IF new
                       THEN [delivering EXCEPT ![t] =
                               [msg |-> recv[n].msg, definite |-> Definite]]
                       ELSE delivering
      /\ recv' \in RestAfter(n)
      /\ giveUp => MayGiveUp(buf)
      /\ toSlave' = Carried(toSlave,
           (IF sends /\ sent THEN <<frame>> ELSE <<>>)
           \o (IF isMessage /\ acked THEN <<ackFrame>> ELSE <<>>))
      /\ downLost' = IF giveUp THEN buf ELSE downLost
  BY DEF PollStep, Acks
<1>2. sends <=> buf # NoMsg /\ ~giveUp /\ timeout1 <= 0
  BY DEF Sends
<1>3. seq = IF buf # NoMsg /\ timeout < 0
            THEN next_sequence(current_sequence_number)
            ELSE current_sequence_number
  BY <1>2
<1>4. new = ReadsNew(n)
  BY DEF ReadsNew, IsNew
<1>5. \E k \in n..Len(recv) : IsRest(recv', recv, k)
  BY <1>1, RestFrames DEF TypeInv
<1>6. giveUp \in BOOLEAN /\ ackSeen \in BOOLEAN /\ sends \in BOOLEAN
      /\ isMessage \in BOOLEAN
  BY DEF Sends
<1>7. WireAfter(n, buf, giveUp)
  <2>1. last_sequence_number_seen \in 0..SeqMax
        /\ current_sequence_number \in 0..SeqMax /\ 0 \in 0..SeqMax
        /\ buf1 \in 0..MaxDown /\ 0 \in 0..MaxDown
    BY CoMcuAssumption DEF TypeInv, NoMsg
  <2>2. seq \in 0..SeqMax
    BY <2>1, NumberTypes
  <2>3. frame \in DownFrame
    <3> HIDE DEF seq, buf1
    <3>1. QED
      BY <2>1, <2>2 DEF DownFrame
  <2>4. isMessage => ackFrame \in DownFrame
    BY <2>1, ReadFrame DEF DownFrame, NoMsg
  <2>5. toSlave \in Seq(DownFrame)
    BY DEF TypeInv
  <2>6. sends => frame = [kind |-> "msg", ack |-> last_sequence_number_seen,
                          seq |-> current_sequence_number', msg |-> buf]
    BY <1>1, <1>2
  <2> DEFINE a == sends /\ sent
             b == isMessage /\ acked
  <2>7. /\ a \in BOOLEAN /\ b \in BOOLEAN
        /\ a => frame \in DownFrame
        /\ b => ackFrame \in DownFrame
        /\ toSlave' = Carried(toSlave, (IF a THEN <<frame>> ELSE <<>>)
                                       \o (IF b THEN <<ackFrame>> ELSE <<>>))
    BY <1>1, <1>6, <2>3, <2>4
  <2>8. /\ a => sends
        /\ b => n > 0 /\ recv[n].kind = "msg"
    OBVIOUS
  <2> HIDE DEF a, b, frame
  <2>9. \A i \in 1..Len(toSlave') :
           \/ i <= Len(toSlave) /\ toSlave'[i] = toSlave[i]
           \/ i > Len(toSlave) /\ a /\ toSlave'[i] = frame
           \/ i > Len(toSlave) /\ i = Len(toSlave') /\ b /\ toSlave'[i] = ackFrame
    <3> HIDE DEF ackFrame
    <3>1. QED
      BY <2>5, <2>7, TwoFrames
  <2>10. a => /\ buf # NoMsg /\ ~giveUp
              /\ frame = [kind |-> "msg", ack |-> last_sequence_number_seen,
                          seq |-> current_sequence_number', msg |-> buf]
    BY <1>2, <2>6, <2>8
  <2> HIDE DEF giveUp
  <2>11. QED
    BY <2>8, <2>9, <2>10 DEF WireAfter
<1>8. /\ buffer_send' = IF ackSeen \/ giveUp THEN NoMsg ELSE buf
      /\ ackSeen \/ giveUp => buffer_send_ack_timeout' = -1
      /\ ~ackSeen /\ ~giveUp =>
           IF buf = NoMsg
           THEN timeout = -1 => buffer_send_ack_timeout' = -1
           ELSE buffer_send_ack_timeout' >= 0
  <2>1. AckTimeout \in Nat /\ timeout \in Int
    BY CoMcuAssumption
  <2> HIDE DEF ackSeen
  <2>2. QED
    BY <1>1, <1>2, <2>1
<1>9. PollEffect(t, buf, timeout, n, giveUp, ackSeen)
  <2>1. ackSeen <=> \E i \in 1..n : /\ recv[i].kind # "bad"
                                    /\ recv[i].ack = current_sequence_number'
    BY <1>1
  <2>2. giveUp => timeout = 1 /\ MayGiveUp(buf)
    BY <1>1
  <2>3. IF ReadsNew(n)
        THEN /\ last_sequence_number_seen' = recv[n].seq
             /\ upHanded' = recv[n].msg
             /\ \E d : delivering' =
                         [delivering EXCEPT ![t] = [msg |-> recv[n].msg,
                                                    definite |-> d]]
        ELSE UNCHANGED <<last_sequence_number_seen, upHanded, delivering>>
    BY <1>1, <1>4
  <2>4. /\ current_sequence_number' =
             IF buf # NoMsg /\ timeout < 0
             THEN next_sequence(current_sequence_number)
             ELSE current_sequence_number
        /\ downLost' = IF giveUp THEN buf ELSE downLost
        /\ ~reset_wait'
    BY <1>1, <1>3
  <2> HIDE DEF giveUp, ackSeen
  <2>5. QED
    BY <1>5, <1>7, <1>8, <2>1, <2>2, <2>3, <2>4 DEF PollEffect
<1> HIDE DEF giveUp, ackSeen
<1>10. QED
  BY <1>6, <1>9

\* So every poll has such an effect.
LEMMA PollHasEffect ==
  ASSUME Resets = {}, TypeInv, NEW t \in Tasks, NEW buf \in 0..MaxDown,
         NEW timeout \in -1..AckTimeout, Poll(t, buf, timeout)
  PROVE  \E n \in 0..Len(recv) : \E giveUp, ackSeen \in BOOLEAN :
           PollEffect(t, buf, timeout, n, giveUp, ackSeen)
<1>1. PICK n \in 0..Len(recv) : \E sent \in BOOLEAN : \E acked \in BOOLEAN :
         PollStep(t, buf, timeout, n, sent, acked)
  BY DEF Poll
<1>2. QED
  BY <1>1, PollStepEffect

-----------------------------------------------------------------------------
(* The numbers of the Bricklet and the acks of the Brick.                  *)

\* Messages of the Bricklet.  Once the Brick has its number, every frame on the
\* way has that number, and the acks turn into it one after the other; before,
\* the frames turn into its message, and no ack has its number.
UpInv ==
  /\ ~s_reset /\ s_msg \in {NoMsg, upSent}
  /\ last_sequence_number_seen = s_seq =>
       /\ upHanded = upSent
       /\ \A i \in 1..Len(recv) : recv[i].kind = "msg" => recv[i].seq = s_seq
  /\ last_sequence_number_seen # s_seq =>
       /\ s_msg # NoMsg /\ upHanded + 1 = upSent
       /\ \A i \in 1..Len(recv) : recv[i].kind = "msg" =>
            \/ recv[i].seq = last_sequence_number_seen
            \/ recv[i].seq = s_seq /\ recv[i].msg = s_msg
       /\ \A i \in 1..Len(recv) : \A j \in i..Len(recv) :
            recv[i].kind = "msg" /\ recv[j].kind = "msg"
              /\ recv[i].seq = s_seq => recv[j].seq = s_seq
       /\ \A i \in 1..Len(toSlave) : toSlave[i].ack # s_seq
  /\ \A i \in 1..Len(toSlave) : \A j \in i..Len(toSlave) :
       toSlave[i].ack = s_seq => toSlave[j].ack = s_seq
  /\ s_msg = NoMsg =>
       /\ last_sequence_number_seen = s_seq
       /\ \A i \in 1..Len(toSlave) : toSlave[i].ack = s_seq

\* A poll reads the Bricklet's message or nothing, and acknowledges no other.
LEMMA UpPoll ==
  ASSUME TypeInv, UpInv, UNCHANGED slaveVars, NEW t \in Tasks,
         NEW buf, NEW timeout, NEW n \in 0..Len(recv), NEW giveUp, NEW ackSeen,
         PollEffect(t, buf, timeout, n, giveUp, ackSeen)
  PROVE  /\ UpInv'
         /\ ReadsNew(n) => /\ last_sequence_number_seen # s_seq
                           /\ last_sequence_number_seen' = s_seq
                           /\ upHanded' = s_msg /\ upHanded' = upSent
                           /\ \E d : delivering' =
                                [delivering EXCEPT ![t] = [msg |-> s_msg,
                                                           definite |-> d]]
         /\ ~ReadsNew(n) =>
              UNCHANGED <<last_sequence_number_seen, upHanded, delivering>>
<1>1. /\ UNCHANGED <<s_reset, s_seq, s_msg, upSent>>
      /\ Len(recv) \in Nat /\ Len(toSlave) \in Nat
      /\ n \in Nat /\ n <= Len(recv)
  BY DEF slaveVars, TypeInv
<1>2. PICK k \in n..Len(recv) : IsRest(recv', recv, k)
  BY DEF PollEffect
<1>3. \A i \in 1..Len(recv') : /\ i + k \in 1..Len(recv) /\ i + k >= n
                               /\ recv'[i] = recv[i + k]
  BY <1>1, <1>2 DEF IsRest
<1>4. ReadsNew(n) => /\ last_sequence_number_seen # s_seq
                     /\ recv[n].seq = s_seq /\ recv[n].msg = s_msg
                     /\ s_msg = upSent
  <2>1. n \in Nat /\ (n > 0 => n \in 1..Len(recv))
    BY <1>1
  <2>2. QED
    BY <2>1 DEF ReadsNew, UpInv
<1>5. /\ ReadsNew(n) => /\ last_sequence_number_seen' = s_seq
                        /\ upHanded' = s_msg /\ upHanded' = upSent
                        /\ \E d : delivering' =
                             [delivering EXCEPT ![t] = [msg |-> s_msg,
                                                        definite |-> d]]
      /\ ~ReadsNew(n) =>
           UNCHANGED <<last_sequence_number_seen, upHanded, delivering>>
  BY <1>4 DEF PollEffect
<1>6. last_sequence_number_seen' # s_seq =>
        /\ last_sequence_number_seen # s_seq
        /\ UNCHANGED <<last_sequence_number_seen, upHanded>>
  BY <1>5
<1>7. last_sequence_number_seen = s_seq =>
        last_sequence_number_seen' = s_seq /\ upHanded' = upHanded
  BY <1>4, <1>5
<1>8. \* the ack of the message read carries the number now seen
      n > 0 /\ recv[n].kind = "msg" => recv[n].seq = last_sequence_number_seen'
  BY <1>5, <1>4 DEF ReadsNew
<1>9. \A i \in 1..Len(toSlave') :
        \/ i <= Len(toSlave) /\ toSlave'[i] = toSlave[i]
        \/ i > Len(toSlave) /\ toSlave'[i].ack = last_sequence_number_seen
        \/ /\ i > Len(toSlave) /\ i = Len(toSlave')
           /\ toSlave'[i].ack = last_sequence_number_seen'
  BY <1>8 DEF PollEffect, WireAfter
<1>10. \* frames on the way from the Bricklet
       /\ last_sequence_number_seen' = s_seq =>
            \A i \in 1..Len(recv') : recv'[i].kind = "msg" => recv'[i].seq = s_seq
       /\ last_sequence_number_seen' # s_seq =>
            /\ \A i \in 1..Len(recv') : recv'[i].kind = "msg" =>
                 \/ recv'[i].seq = last_sequence_number_seen'
                 \/ recv'[i].seq = s_seq /\ recv'[i].msg = s_msg
            /\ \A i \in 1..Len(recv') : \A j \in i..Len(recv') :
                 recv'[i].kind = "msg" /\ recv'[j].kind = "msg"
                   /\ recv'[i].seq = s_seq => recv'[j].seq = s_seq
  <2>1. CASE last_sequence_number_seen = s_seq
    BY <1>3, <1>7, <2>1 DEF UpInv
  <2>2. CASE last_sequence_number_seen # s_seq /\ ReadsNew(n)
    <3>1. n \in 1..Len(recv) /\ recv[n].kind = "msg" /\ recv[n].seq = s_seq
      BY <1>1, <1>4, <2>2 DEF ReadsNew
    <3>2. \A j \in n..Len(recv) : recv[j].kind = "msg" => recv[j].seq = s_seq
      BY <2>2, <3>1 DEF UpInv
    <3>3. QED
      BY <1>3, <1>5, <1>1, <2>2, <3>2, SMTT(20)
  <2>3. CASE last_sequence_number_seen # s_seq /\ ~ReadsNew(n)
    <3>1. last_sequence_number_seen' = last_sequence_number_seen
      BY <1>5, <2>3
    <3>2. \A i \in 1..Len(recv') : \A j \in i..Len(recv') :
            j \in 1..Len(recv') /\ j + k \in i + k..Len(recv)
      BY <1>1, <1>2, <1>3 DEF IsRest
    <3>3. \A i \in 1..Len(recv') : recv'[i].kind = "msg" =>
                 \/ recv'[i].seq = last_sequence_number_seen'
                 \/ recv'[i].seq = s_seq /\ recv'[i].msg = s_msg
      BY <1>3, <2>3, <3>1 DEF UpInv
    <3>4. \A i \in 1..Len(recv') : \A j \in i..Len(recv') :
                 recv'[i].kind = "msg" /\ recv'[j].kind = "msg"
                   /\ recv'[i].seq = s_seq => recv'[j].seq = s_seq
      <4> TAKE i \in 1..Len(recv')
      <4> TAKE j \in i..Len(recv')
      <4>1. /\ i + k \in 1..Len(recv) /\ recv'[i] = recv[i + k]
            /\ j + k \in i + k..Len(recv) /\ recv'[j] = recv[j + k]
        BY <1>3, <3>2
      <4>2. QED
        BY <2>3, <4>1 DEF UpInv
    <3>5. QED
      BY <2>3, <3>1, <3>3, <3>4
  <2>4. QED
    BY <2>1, <2>2, <2>3
<1>11. \* acks on the way to the Bricklet
       /\ last_sequence_number_seen' # s_seq =>
            \A i \in 1..Len(toSlave') : toSlave'[i].ack # s_seq
       /\ \A i \in 1..Len(toSlave') : \A j \in i..Len(toSlave') :
            toSlave'[i].ack = s_seq => toSlave'[j].ack = s_seq
       /\ s_msg = NoMsg =>
            \A i \in 1..Len(toSlave') : toSlave'[i].ack = s_seq
  <2>1. CASE last_sequence_number_seen = s_seq
    <3>1. last_sequence_number_seen' = s_seq
      BY <1>7, <2>1
    <3>2. \A i \in 1..Len(toSlave') : \/ /\ i \in 1..Len(toSlave)
                                         /\ toSlave'[i] = toSlave[i]
                                      \/ toSlave'[i].ack = s_seq
      BY <1>1, <1>9, <2>1, <3>1
    <3>3. \A i \in 1..Len(toSlave') : \A j \in i..Len(toSlave') :
            toSlave'[i].ack = s_seq => toSlave'[j].ack = s_seq
      <4> SUFFICES ASSUME NEW i \in 1..Len(toSlave'), NEW j \in i..Len(toSlave'),
                          toSlave'[i].ack = s_seq, toSlave'[j].ack # s_seq
                   PROVE  FALSE
        OBVIOUS
      <4>1. j \in 1..Len(toSlave) /\ toSlave'[j] = toSlave[j]
            /\ j <= Len(toSlave)
        BY <1>9, <2>1, <3>1, <3>2
      <4>2. i <= Len(toSlave) /\ i \in 1..Len(toSlave)
        BY <1>1, <4>1
      <4>3. toSlave'[i] = toSlave[i] /\ j \in i..Len(toSlave)
        BY <1>1, <1>9, <4>1, <4>2
      <4>4. QED
        BY <4>1, <4>2, <4>3 DEF UpInv
    <3>4. s_msg = NoMsg => \A i \in 1..Len(toSlave') : toSlave'[i].ack = s_seq
      BY <3>2 DEF UpInv
    <3>5. QED
      BY <3>1, <3>3, <3>4
  <2>2. CASE last_sequence_number_seen # s_seq
    <3>1. s_msg # NoMsg
      BY <2>2 DEF UpInv
    <3>2. \A i \in 1..Len(toSlave') : \/ toSlave'[i].ack # s_seq
                                      \/ /\ i = Len(toSlave')
                                         /\ last_sequence_number_seen' = s_seq
                                         /\ toSlave'[i].ack = s_seq
      <4> TAKE i \in 1..Len(toSlave')
      <4>1. i <= Len(toSlave) => i \in 1..Len(toSlave)
        BY <1>1
      <4>2. QED
        BY <1>9, <1>5, <2>2, <4>1 DEF UpInv
    <3>3. \A i \in 1..Len(toSlave') : \A j \in i..Len(toSlave') :
            i = Len(toSlave') => j = i
      OBVIOUS
    <3>4. QED
      BY <3>1, <3>2, <3>3
  <2>3. QED
    BY <2>1, <2>2
<1>12. UpInv'
  BY <1>1, <1>4, <1>5, <1>6, <1>7, <1>10, <1>11 DEF UpInv
<1>13. QED
  BY <1>4, <1>5, <1>12

\* A step of the com, or of a message loop that does not poll, reads nothing.
LEMMA UpKept ==
  ASSUME UpInv,
         UNCHANGED <<s_reset, s_seq, s_msg, upSent, upHanded, recv, toSlave,
                     last_sequence_number_seen>>
  PROVE  UpInv'
BY DEF UpInv

\* What TickPoll and LoopSend do to this direction.
LEMMA PollOrWait ==
  ASSUME Resets = {}, TypeInv,
         TickPoll \/ \E l \in Loops : LoopSend(l)
  PROVE  /\ UNCHANGED slaveVars
         /\ \/ \E t \in Tasks : \E buf \in 0..MaxDown :
                 \E timeout \in -1..AckTimeout : \E n \in 0..Len(recv) :
                   \E giveUp, ackSeen \in BOOLEAN :
                     PollEffect(t, buf, timeout, n, giveUp, ackSeen)
            \/ UNCHANGED <<upHanded, recv, toSlave, last_sequence_number_seen,
                           delivering>>
<1>1. CASE TickPoll
  <2>1. /\ "tick" \in Tasks
        /\ Poll("tick", buffer_send, buffer_send_ack_timeout)
        /\ buffer_send \in 0..MaxDown
        /\ buffer_send_ack_timeout \in -1..AckTimeout
    BY <1>1 DEF TickPoll, Tasks, TypeInv
  <2>2. QED
    BY <1>1, <2>1, PollHasEffect DEF TickPoll
<1>2. ASSUME NEW l \in Loops, LoopSend(l)
      PROVE  /\ UNCHANGED slaveVars
             /\ \/ \E t \in Tasks : \E buf \in 0..MaxDown :
                     \E timeout \in -1..AckTimeout : \E n \in 0..Len(recv) :
                       \E giveUp, ackSeen \in BOOLEAN :
                         PollEffect(t, buf, timeout, n, giveUp, ackSeen)
                \/ UNCHANGED <<upHanded, recv, toSlave,
                               last_sequence_number_seen, delivering>>
  <2>1. l \in Tasks /\ downSent + 1 \in 0..MaxDown /\ -1 \in -1..AckTimeout
    BY <1>2, CoMcuAssumption DEF LoopSend, Tasks, TypeInv
  <2>2. CASE Poll(l, downSent + 1, -1)
    BY <1>2, <2>1, <2>2, PollHasEffect DEF LoopSend
  <2>3. CASE ~Poll(l, downSent + 1, -1)
    BY <1>2, <2>3 DEF LoopSend, comVars
  <2>4. QED
    BY <2>2, <2>3
<1>3. QED
  BY <1>1, <1>2

\* The Bricklet's next number is another one.
LEMMA SlaveNextDiffers ==
  ASSUME NEW q \in 0..SeqMax
  PROVE  SlaveNext(q) # q
BY CoMcuAssumption DEF SlaveNext

\* The frames left when the Bricklet has looked at the first one.
LEMMA AfterHead ==
  ASSUME TypeInv, toSlave # <<>>
  PROVE  /\ 1 \in 1..Len(toSlave) /\ Head(toSlave) = toSlave[1]
         /\ Len(Tail(toSlave)) \in Nat
         /\ \A i \in 1..Len(Tail(toSlave)) :
              /\ i + 1 \in 1..Len(toSlave)
              /\ Tail(toSlave)[i] = toSlave[i + 1]
         /\ \A i \in 1..Len(Tail(toSlave)) : \A j \in i..Len(Tail(toSlave)) :
              j \in 1..Len(Tail(toSlave)) /\ j + 1 \in i + 1..Len(toSlave)
<1>1. toSlave \in Seq(DownFrame)
  BY DEF TypeInv
<1>2. Len(toSlave) \in Nat /\ Len(toSlave) > 0
  BY <1>1, EmptySeq
<1>3. /\ Head(toSlave) = toSlave[1]
      /\ Len(Tail(toSlave)) = Len(toSlave) - 1
      /\ \A i \in 1..Len(Tail(toSlave)) : Tail(toSlave)[i] = toSlave[i + 1]
  BY <1>1, HeadTailProperties
<1>4. QED
  BY <1>2, <1>3

\* What the Bricklet looks at.
LEMMA TakesFrame ==
  ASSUME TypeInv, NEW i \in 1..Len(toSlave)
  PROVE  /\ toSlave[i].kind \in {"ack", "msg"}
         /\ toSlave[i].ack \in 0..SeqMax /\ toSlave[i].seq \in 0..SeqMax
         /\ toSlave[i].msg \in 0..MaxDown
<1>1. toSlave[i] \in DownFrame
  BY ElementOfSeq DEF TypeInv
<1>2. QED
  BY <1>1 DEF DownFrame

\* Steps of the Bricklet keep UpInv.
LEMMA UpSay ==
  ASSUME TypeInv, UpInv, SlaveSay
  PROVE  UpInv' /\ last_sequence_number_seen = s_seq
         /\ last_sequence_number_seen' # s_seq'
<1>1. /\ UNCHANGED <<last_sequence_number_seen, upHanded, recv, toSlave, s_reset>>
      /\ s_msg = NoMsg /\ upSent' = upSent + 1 /\ s_msg' = upSent + 1
      /\ s_seq' = SlaveNext(s_seq)
  BY DEF SlaveSay, brickVars, comVars
<1>2. /\ s_seq \in 0..SeqMax /\ upSent \in Nat
      /\ s_seq' # s_seq
  BY <1>1, SlaveNextDiffers, CoMcuAssumption DEF TypeInv
<1>3. /\ last_sequence_number_seen = s_seq /\ upHanded = upSent
      /\ \A i \in 1..Len(recv) : recv[i].kind = "msg" => recv[i].seq = s_seq
      /\ \A i \in 1..Len(toSlave) : toSlave[i].ack = s_seq
      /\ ~s_reset
  BY <1>1 DEF UpInv
<1>4. upSent' # NoMsg /\ upHanded + 1 = upSent'
  BY <1>1, <1>2, <1>3 DEF NoMsg
<1>5. UpInv'
  BY <1>1, <1>2, <1>3, <1>4 DEF UpInv
<1>6. QED
  BY <1>1, <1>2, <1>3, <1>5

LEMMA UpEmit ==
  ASSUME TypeInv, UpInv, NEW kind \in Kinds, NEW outcome \in Outcomes,
         SlaveEmit(kind, outcome)
  PROVE  UpInv'
<1> DEFINE good == [kind |-> kind, ack |-> s_seen,
                    seq |-> IF kind = "msg" THEN s_seq ELSE 0,
                    msg |-> IF kind = "msg" THEN s_msg ELSE NoMsg]
<1>1. /\ UNCHANGED <<s_reset, s_seq, s_msg, upSent, upHanded, toSlave,
                     last_sequence_number_seen>>
      /\ recv' \in {recv, Append(recv, good), Append(recv, Bad)}
      /\ Len(recv) \in Nat
  BY SMTT(20) DEF SlaveEmit, brickVars, comVars, Outcomes, TypeInv
<1>2. good.kind = "msg" => good.seq = s_seq /\ good.msg = s_msg
  OBVIOUS
<1>3. Bad.kind # "msg"
  BY DEF Bad
<1> HIDE DEF good
<1>4. ASSUME NEW f, recv' = Append(recv, f),
             f.kind = "msg" => f.seq = s_seq /\ f.msg = s_msg
      PROVE  UpInv'
  <2>1. /\ Len(recv') = Len(recv) + 1
        /\ \A i \in 1..Len(recv) : recv'[i] = recv[i]
        /\ recv'[Len(recv) + 1] = f
    BY <1>4 DEF TypeInv
  <2>2. \A i \in 1..Len(recv') : i \in 1..Len(recv) \/ i = Len(recv) + 1
    BY <1>1, <2>1
  <2>3. \A i \in 1..Len(recv') :
          \/ i \in 1..Len(recv) /\ recv'[i] = recv[i]
          \/ recv'[i].kind = "msg" => recv'[i].seq = s_seq /\ recv'[i].msg = s_msg
    BY <1>4, <2>1, <2>2
  <2>4. last_sequence_number_seen # s_seq =>
          \A i \in 1..Len(recv') : \A j \in i..Len(recv') :
            recv'[i].kind = "msg" /\ recv'[j].kind = "msg"
              /\ recv'[i].seq = s_seq => recv'[j].seq = s_seq
    <3> SUFFICES ASSUME last_sequence_number_seen # s_seq,
                        NEW i \in 1..Len(recv'), NEW j \in i..Len(recv'),
                        recv'[i].kind = "msg", recv'[j].kind = "msg",
                        recv'[i].seq = s_seq
                 PROVE  recv'[j].seq = s_seq
      OBVIOUS
    <3>1. CASE j = Len(recv) + 1
      BY <1>4, <2>1, <3>1
    <3>2. CASE j # Len(recv) + 1
      <4>1. i \in 1..Len(recv) /\ j \in i..Len(recv) /\ j \in 1..Len(recv)
        BY <1>1, <2>1, <3>2
      <4>2. recv'[i] = recv[i] /\ recv'[j] = recv[j]
        BY <2>1, <4>1
      <4>3. QED
        BY <4>1, <4>2 DEF UpInv
    <3>3. QED
      BY <3>1, <3>2
  <2>5. QED
    BY <1>1, <2>3, <2>4 DEF UpInv
<1>5. CASE recv' = recv
  BY <1>1, <1>5, UpKept
<1>6. QED
  BY <1>1, <1>2, <1>3, <1>4, <1>5

LEMMA UpTake ==
  ASSUME Resets = {}, TypeInv, UpInv, SlaveTake
  PROVE  UpInv' /\ (s_msg' # s_msg => last_sequence_number_seen = s_seq)
<1>1. /\ UNCHANGED <<last_sequence_number_seen, upHanded, recv, s_seq, upSent>>
      /\ toSlave # <<>> /\ toSlave' = Tail(toSlave)
      /\ ~s_reset'
  BY DEF SlaveTake, brickVars, comVars
<1>2. /\ 1 \in 1..Len(toSlave)
      /\ s_msg' = IF toSlave[1].ack = s_seq THEN NoMsg ELSE s_msg
  BY <1>1, AfterHead DEF SlaveTake
<1>3. \A i \in 1..Len(toSlave') : /\ i + 1 \in 1..Len(toSlave)
                                  /\ toSlave'[i] = toSlave[i + 1]
                                  /\ i + 1 \in 1..Len(toSlave)
  BY <1>1, AfterHead
<1>4. \A i \in 1..Len(toSlave') : \A j \in i..Len(toSlave') :
        toSlave'[i].ack = s_seq => toSlave'[j].ack = s_seq
  <2> TAKE i \in 1..Len(toSlave')
  <2> TAKE j \in i..Len(toSlave')
  <2>1. j \in 1..Len(toSlave') /\ j + 1 \in i + 1..Len(toSlave)
    BY <1>1, AfterHead
  <2>2. QED
    BY <1>3, <2>1 DEF UpInv
<1>5. CASE toSlave[1].ack = s_seq
  <2>1. last_sequence_number_seen = s_seq
    BY <1>2, <1>5 DEF UpInv
  <2>2. \A i \in 1..Len(toSlave) : i \in 1..Len(toSlave)
    OBVIOUS
  <2>3. \A i \in 1..Len(toSlave) : toSlave[i].ack = s_seq
    BY <1>2, <1>5, <2>2 DEF UpInv
  <2>4. QED
    BY <1>1, <1>2, <1>3, <1>4, <2>1, <2>3 DEF UpInv
<1>6. CASE toSlave[1].ack # s_seq
  <2>1. s_msg' = s_msg /\ s_msg # NoMsg
    BY <1>2, <1>6 DEF UpInv
  <2>2. QED
    BY <1>1, <1>3, <1>4, <2>1 DEF UpInv
<1>7. QED
  BY <1>5, <1>6

\* A Bricklet that nobody asks for a reset: its frames and the Brick's acks are
\* in order, and none of either side is mistaken for a newer one.
LEMMA UpInvariant ==
  ASSUME Resets = {}
  PROVE  Spec => []UpInv
<1>1. Init => UpInv
  BY DEF Init, UpInv, NoMsg
<1>2. TypeInv /\ UpInv /\ [Next]_vars => UpInv'
  <2> SUFFICES ASSUME TypeInv, UpInv, [Next]_vars PROVE UpInv'
    OBVIOUS
  <2>1. CASE TickPoll \/ \E l \in Loops : LoopSend(l)
    <3>1. CASE UNCHANGED <<upHanded, recv, toSlave, last_sequence_number_seen,
                           delivering>>
      BY <2>1, <3>1, PollOrWait, UpKept DEF slaveVars
    <3>2. QED
      BY <2>1, <3>1, PollOrWait, UpPoll
  <2>2. CASE SlaveSay
    BY <2>2, UpSay
  <2>3. CASE \E kind \in Kinds, outcome \in Outcomes : SlaveEmit(kind, outcome)
    BY <2>3, UpEmit
  <2>4. CASE SlaveTake
    BY <2>4, UpTake
  <2>5. CASE SlaveReset
    BY <2>5 DEF SlaveReset, UpInv
  <2>6. CASE Connect \/ ComSent
    BY <2>6, UpKept DEF Connect, ComSent, brickVars, slaveVars
  <2>7. CASE \E t \in Tasks : Forward(t) \/ ForwardTimeout(t)
    BY <2>7, UpKept DEF Forward, ForwardTimeout, brickVars, slaveVars
  <2>8. CASE UNCHANGED vars
    BY <2>8, UpKept DEF vars, brickVars, slaveVars
  <2>9. QED
    BY <2>1, <2>2, <2>3, <2>4, <2>5, <2>6, <2>7, <2>8 DEF Next
<1>3. QED
  BY <1>1, <1>2, TypeInvariant, PTL DEF Spec

-----------------------------------------------------------------------------
(* Messages of the Bricklet are handed on in order and once each.          *)

\* A step that leaves the numbers of this direction and the queue alone.
LEMMA UpStutter ==
  ASSUME UNCHANGED <<upSent, upHanded, UpQueue>>
  PROVE  UNCHANGED Up!linkVars
BY DEF Up!linkVars

LEMMA UpSameQueue ==
  ASSUME UNCHANGED <<s_msg, s_seq, last_sequence_number_seen>>
  PROVE  UNCHANGED UpQueue
BY DEF UpQueue

\* What a task holds for the com changes when a new message is read only.
HandedIsNewer ==
  \A t \in Tasks : \/ delivering'[t] \in {delivering[t], Idle}
                   \/ delivering'[t].msg > upHanded

LEMMA UpStep ==
  ASSUME Resets = {}, TypeInv, UpInv, [Next]_vars
  PROVE  [Up!Next]_(Up!linkVars) /\ HandedIsNewer
<1>0. /\ upSent \in Nat /\ upHanded \in Nat /\ s_msg \in Nat
      /\ delivering \in [Tasks -> Delivery \cup {Idle}]
  BY CoMcuAssumption DEF TypeInv
<1>1. CASE TickPoll \/ \E l \in Loops : LoopSend(l)
  <2>1. UNCHANGED <<s_seq, s_msg, upSent>>
    BY <1>1, PollOrWait DEF slaveVars
  <2>2. CASE UNCHANGED <<upHanded, last_sequence_number_seen, delivering>>
    BY <2>1, <2>2, UpStutter, UpSameQueue DEF HandedIsNewer
  <2>3. ASSUME NEW t \in Tasks, last_sequence_number_seen # s_seq,
               last_sequence_number_seen' = s_seq,
               upHanded' = s_msg, upHanded' = upSent,
               NEW d, delivering' = [delivering EXCEPT ![t] =
                                       [msg |-> s_msg, definite |-> d]]
        PROVE  [Up!Next]_(Up!linkVars) /\ HandedIsNewer
    <3>1. s_msg # NoMsg /\ upHanded + 1 = s_msg
      BY <2>3 DEF UpInv
    <3>2. UpQueue = <<s_msg>> /\ UpQueue' = <<>>
      BY <2>1, <2>3, <3>1 DEF UpQueue
    <3>3. /\ UpQueue # <<>> /\ Head(UpQueue) = s_msg
          /\ UpQueue' = Tail(UpQueue)
      BY <3>2
    <3>4. Up!Deliver(1)
      BY <2>1, <2>3, <3>3 DEF Up!Deliver, Port
    <3>5. delivering'[t].msg = s_msg
          /\ \A u \in Tasks \ {t} : delivering'[u] = delivering[u]
      BY <1>0, <2>3
    <3>6. HandedIsNewer
      BY <1>0, <3>1, <3>5 DEF HandedIsNewer
    <3>7. QED
      BY <3>4, <3>6 DEF Up!Next, Port
  <2>4. ASSUME NEW t \in Tasks, NEW buf \in 0..MaxDown,
               NEW timeout \in -1..AckTimeout, NEW n \in 0..Len(recv),
               NEW giveUp \in BOOLEAN, NEW ackSeen \in BOOLEAN,
               PollEffect(t, buf, timeout, n, giveUp, ackSeen)
        PROVE  [Up!Next]_(Up!linkVars) /\ HandedIsNewer
    <3>1. UNCHANGED slaveVars
      BY <1>1, PollOrWait
    <3>2. CASE ReadsNew(n)
      <4>1. /\ last_sequence_number_seen # s_seq
            /\ last_sequence_number_seen' = s_seq
            /\ upHanded' = s_msg /\ upHanded' = upSent
            /\ \E d : delivering' =
                 [delivering EXCEPT ![t] = [msg |-> s_msg, definite |-> d]]
        BY <2>4, <3>1, <3>2, UpPoll
      <4>2. QED
        BY <2>3, <4>1
    <3>3. CASE ~ReadsNew(n)
      <4>1. UNCHANGED <<last_sequence_number_seen, upHanded, delivering>>
        BY <2>4, <3>1, <3>3, UpPoll
      <4>2. QED
        BY <2>2, <4>1
    <3>4. QED
      BY <3>2, <3>3
  <2>5. QED
    BY <1>1, <2>2, <2>4, PollOrWait
<1>2. CASE SlaveSay
  <2>1. /\ last_sequence_number_seen = s_seq
        /\ last_sequence_number_seen' # s_seq'
        /\ upSent' = upSent + 1 /\ s_msg' = upSent + 1 /\ s_msg' # NoMsg
        /\ UNCHANGED <<upHanded, delivering>>
    BY <1>0, <1>2, UpSay DEF SlaveSay, brickVars, comVars, NoMsg
  <2>2. UpQueue = <<>> /\ UpQueue' = <<upSent + 1>>
    BY <2>1 DEF UpQueue
  <2>3. Len(UpQueue) < 1 /\ UpQueue' = Append(UpQueue, upSent + 1)
    BY <2>2
  <2>4. Up!Accept(1)
    BY <2>1, <2>3 DEF Up!Accept, Port
  <2>5. QED
    BY <2>1, <2>4 DEF Up!Next, Port, HandedIsNewer
<1>3. CASE SlaveTake
  <2>1. UNCHANGED <<last_sequence_number_seen, s_seq, upSent, upHanded,
                    delivering>>
    BY <1>3 DEF SlaveTake, brickVars, comVars
  <2>2. UNCHANGED UpQueue
    BY <1>3, <2>1, UpTake DEF UpQueue
  <2>3. QED
    BY <2>1, <2>2, UpStutter DEF HandedIsNewer
<1>4. ASSUME NEW kind \in Kinds, NEW outcome \in Outcomes,
             SlaveEmit(kind, outcome)
      PROVE  [Up!Next]_(Up!linkVars) /\ HandedIsNewer
  BY <1>4, UpStutter, UpSameQueue DEF SlaveEmit, brickVars, comVars, HandedIsNewer
<1>5. CASE SlaveReset
  BY <1>5 DEF SlaveReset, UpInv
<1>6. CASE Connect \/ ComSent
  BY <1>6, UpStutter, UpSameQueue
     DEF Connect, ComSent, brickVars, comVars, slaveVars, HandedIsNewer
<1>7. ASSUME NEW t \in Tasks, Forward(t) \/ ForwardTimeout(t)
      PROVE  [Up!Next]_(Up!linkVars) /\ HandedIsNewer
  <2>1. /\ delivering' = [delivering EXCEPT ![t] = Idle]
        /\ UNCHANGED <<brickVars, slaveVars, upHanded>>
    BY <1>7 DEF Forward, ForwardTimeout
  <2>2. HandedIsNewer
    BY <1>0, <2>1 DEF HandedIsNewer
  <2>3. QED
    BY <2>1, <2>2, UpStutter, UpSameQueue DEF brickVars, slaveVars
<1>8. CASE UNCHANGED vars
  BY <1>8, UpStutter, UpSameQueue
     DEF vars, brickVars, slaveVars, comVars, HandedIsNewer
<1>9. QED
  BY <1>1, <1>2, <1>3, <1>4, <1>5, <1>6, <1>7, <1>8 DEF Next

\* However many frames are lost or damaged in either direction, and whichever
\* task polls while others still hold messages for the com: every message of a
\* Bricklet that is not asked for a reset is handed to a task once, in order
\* (UpLink of CoMcu).
THEOREM UpRefinement ==
  ASSUME Resets = {}
  PROVE  Spec => UpLink
<1>1. Init => Up!Init
  <2> SUFFICES ASSUME Init PROVE Up!Init
    OBVIOUS
  <2>1. UpQueue = <<>>
    BY DEF Init, UpQueue
  <2>2. QED
    BY <2>1 DEF Init, Up!Init, Port
<1>2. TypeInv /\ UpInv /\ [Next]_vars =>
        [\A t \in Tasks : \/ delivering'[t] \in {delivering[t], Idle}
                          \/ delivering'[t].msg > upHanded]_vars
  BY UpStep DEF HandedIsNewer
<1>3. TypeInv /\ UpInv /\ [Next]_vars => [Up!Next]_(Up!linkVars)
  BY UpStep
<1>4. Spec => []UpInv
  BY UpInvariant
<1>5. QED
  BY <1>1, <1>2, <1>3, <1>4, TypeInvariant, PTL DEF Spec, UpLink, Up!Spec

\* What the Bricklet has an ack for has been handed to a task, as long as nobody
\* asks it for a reset; with one, the run comcu_reset finds a message that is
\* thrown away (NoMessageThrownAway of CoMcu).
THEOREM AcknowledgedIsHanded ==
  ASSUME Resets = {}
  PROVE  Spec => NoMessageThrownAway
<1>1. TypeInv /\ UpInv /\ [Next]_vars =>
        [s_msg # NoMsg /\ s_msg' = NoMsg /\ ~s_reset => upHanded >= s_msg]_vars
  <2> SUFFICES ASSUME TypeInv, UpInv, [Next]_vars,
                      s_msg # NoMsg, s_msg' = NoMsg
               PROVE  upHanded >= s_msg
    OBVIOUS
  <2>1. upSent \in Nat
    BY CoMcuAssumption DEF TypeInv
  <2>2. CASE SlaveTake
    <3>1. last_sequence_number_seen = s_seq
      BY <2>2, UpTake
    <3>2. upHanded = upSent /\ s_msg = upSent
      BY <3>1 DEF UpInv
    <3>3. QED
      BY <2>1, <3>2
  <2>3. CASE SlaveReset
    BY <2>3 DEF SlaveReset, UpInv
  <2>4. CASE TickPoll \/ \E l \in Loops : LoopSend(l)
    BY <2>4, PollOrWait DEF slaveVars
  <2>5. CASE Connect \/ ComSent \/ SlaveSay
    BY <2>5 DEF Connect, ComSent, SlaveSay, slaveVars
  <2>6. CASE \E t \in Tasks : Forward(t) \/ ForwardTimeout(t)
    BY <2>6 DEF Forward, ForwardTimeout, slaveVars
  <2>7. CASE \E kind \in Kinds, outcome \in Outcomes : SlaveEmit(kind, outcome)
    BY <2>7 DEF SlaveEmit
  <2>8. CASE UNCHANGED vars
    BY <2>8 DEF vars, slaveVars
  <2>9. QED
    BY <2>2, <2>3, <2>4, <2>5, <2>6, <2>7, <2>8 DEF Next
<1>2. Spec => []UpInv
  BY UpInvariant
<1>3. QED
  BY <1>1, <1>2, TypeInvariant, PTL DEF Spec, NoMessageThrownAway

-----------------------------------------------------------------------------
(* The numbers of the Brick and the acks of the Bricklet.                  *)

\* How many times next_sequence leads from k to q.
Ahead(q, k) == IF q >= k THEN q - k ELSE q - k + SeqMax - 1

DownGot == IF downLost > downGot THEN downLost ELSE downGot

\* Messages to the Bricklet.  The number in use is at most MaxLost + 1 ahead of
\* the one the Bricklet has seen.  With no message in the buffer, or one it has
\* taken, every message on the way has its number; before, the frames turn into
\* the new message, and no ack has its number.
DownInv ==
  /\ ~s_reset /\ ~reset_wait
  /\ downGot <= downSent
  /\ Ahead(current_sequence_number, s_seen) <= downSent - downGot
  /\ buffer_send = NoMsg =>
       /\ buffer_send_ack_timeout = -1
       /\ DownGot = downSent /\ downSent - downGot <= MaxLost
       /\ \A i \in 1..Len(recv) : recv[i].kind # "bad" => recv[i].ack = s_seen
  /\ buffer_send # NoMsg =>
       /\ buffer_send = downSent /\ buffer_send_ack_timeout >= 0
       /\ downLost < downSent
       /\ \A i \in 1..Len(recv) : \A j \in i..Len(recv) :
            recv[i].kind # "bad" /\ recv[j].kind # "bad"
              /\ recv[i].ack = current_sequence_number => recv[j].ack = s_seen
  /\ buffer_send = NoMsg \/ s_seen = current_sequence_number =>
       /\ buffer_send # NoMsg => downGot = downSent
       /\ \A i \in 1..Len(toSlave) :
            toSlave[i].kind = "msg" => toSlave[i].seq = s_seen
  /\ buffer_send # NoMsg /\ s_seen # current_sequence_number =>
       /\ DownGot + 1 = downSent /\ downSent - downGot <= MaxLost + 1
       /\ \A i \in 1..Len(recv) : recv[i].kind # "bad" => recv[i].ack = s_seen
       /\ \A i \in 1..Len(toSlave) : toSlave[i].kind = "msg" =>
            \/ toSlave[i].seq = s_seen
            \/ /\ toSlave[i].seq = current_sequence_number
               /\ toSlave[i].msg = downSent
       /\ \A i \in 1..Len(toSlave) : \A j \in i..Len(toSlave) :
            toSlave[i].kind = "msg" /\ toSlave[j].kind = "msg"
              /\ toSlave[i].seq = current_sequence_number
            => toSlave[j].seq = current_sequence_number

\* next_sequence: short of a full round, the next number is one further ahead,
\* and not the one the Bricklet has seen.
LEMMA AheadStep ==
  ASSUME NEW q \in 0..SeqMax, NEW k \in 0..SeqMax, Ahead(q, k) <= SeqMax - 3
  PROVE  /\ next_sequence(q) # k
         /\ Ahead(next_sequence(q), k) = Ahead(q, k) + 1
BY CoMcuAssumption DEF Ahead, next_sequence

\* What is left of the frames read.
LEMMA RestIndices ==
  ASSUME TypeInv, NEW k \in 0..Len(recv), IsRest(recv', recv, k)
  PROVE  /\ \A i \in 1..Len(recv') :
              i + k \in 1..Len(recv) /\ i + k > k /\ recv'[i] = recv[i + k]
         /\ \A i \in 1..Len(recv') : \A j \in i..Len(recv') :
              j \in 1..Len(recv') /\ j + k \in i + k..Len(recv)
<1>1. Len(recv) \in Nat /\ k \in Nat /\ k <= Len(recv)
  BY DEF TypeInv
<1>2. Len(recv') = Len(recv) - k
  BY DEF IsRest
<1>3. QED
  BY <1>1, <1>2 DEF IsRest

\* The frames on their way to the Bricklet after a poll.
LEMMA WireIndices ==
  ASSUME TypeInv, NEW n, NEW buf, NEW giveUp, WireAfter(n, buf, giveUp)
  PROVE  /\ Len(toSlave) \in Nat
         /\ \A i \in 1..Len(toSlave') :
              \/ i \in 1..Len(toSlave) /\ toSlave'[i] = toSlave[i]
              \/ /\ i > Len(toSlave) /\ toSlave'[i].kind = "msg"
                 /\ buf # NoMsg /\ ~giveUp
                 /\ toSlave'[i].seq = current_sequence_number'
                 /\ toSlave'[i].msg = buf
              \/ i > Len(toSlave) /\ toSlave'[i].kind = "ack"
         /\ \A i \in 1..Len(toSlave') : \A j \in i..Len(toSlave') :
              /\ j \in 1..Len(toSlave')
              /\ j \in 1..Len(toSlave) => i \in 1..Len(toSlave)
                                          /\ j \in i..Len(toSlave)
<1>1. Len(toSlave) \in Nat
  BY DEF TypeInv
<1>2. QED
  BY <1>1 DEF WireAfter

\* The tick task polls.
LEMMA DownTick ==
  ASSUME TypeInv, DownInv, UNCHANGED slaveVars, UNCHANGED downSent,
         NEW t \in Tasks, NEW n \in 0..Len(recv),
         NEW giveUp \in BOOLEAN, NEW ackSeen \in BOOLEAN,
         PollEffect(t, buffer_send, buffer_send_ack_timeout, n, giveUp, ackSeen)
  PROVE  /\ DownInv'
         /\ current_sequence_number' = current_sequence_number
         /\ giveUp => buffer_send # NoMsg /\ buffer_send' = NoMsg
                      /\ downLost' = downSent
         /\ ~giveUp => /\ UNCHANGED downLost
                       /\ \/ /\ buffer_send' = buffer_send
                             /\ buffer_send # NoMsg =>
                                  buffer_send_ack_timeout' >= 0
                          \/ /\ buffer_send' = NoMsg
                             /\ s_seen = current_sequence_number
<1>1. /\ UNCHANGED <<s_reset, s_seen, downGot>>
      /\ downGot \in Nat /\ downSent \in Nat /\ downLost \in Nat
      /\ Len(recv) \in Nat /\ n \in Nat
      /\ buffer_send_ack_timeout \in Int /\ MaxLost \in Nat
  BY CoMcuAssumption DEF slaveVars, TypeInv
<1>2. PICK k \in n..Len(recv) : IsRest(recv', recv, k)
  BY DEF PollEffect
<1>3. k \in 0..Len(recv) /\ k >= n
  BY <1>1
<1>4. /\ \A i \in 1..Len(recv') :
           i + k \in 1..Len(recv) /\ i + k > k /\ recv'[i] = recv[i + k]
      /\ \A i \in 1..Len(recv') : \A j \in i..Len(recv') :
           j \in 1..Len(recv') /\ j + k \in i + k..Len(recv)
  BY <1>2, <1>3, RestIndices
<1>5. /\ Len(toSlave) \in Nat
      /\ \A i \in 1..Len(toSlave') :
              \/ i \in 1..Len(toSlave) /\ toSlave'[i] = toSlave[i]
              \/ /\ i > Len(toSlave) /\ toSlave'[i].kind = "msg"
                 /\ buffer_send # NoMsg /\ ~giveUp
                 /\ toSlave'[i].seq = current_sequence_number'
                 /\ toSlave'[i].msg = buffer_send
              \/ i > Len(toSlave) /\ toSlave'[i].kind = "ack"
      /\ \A i \in 1..Len(toSlave') : \A j \in i..Len(toSlave') :
              /\ j \in 1..Len(toSlave')
              /\ j \in 1..Len(toSlave) => i \in 1..Len(toSlave)
                                          /\ j \in i..Len(toSlave)
  <2>1. WireAfter(n, buffer_send, giveUp)
    BY DEF PollEffect
  <2>2. QED
    BY <2>1, WireIndices
<1>6. /\ current_sequence_number' = current_sequence_number
      /\ ~reset_wait'
      /\ downLost' = IF giveUp THEN buffer_send ELSE downLost
      /\ buffer_send' = IF ackSeen \/ giveUp THEN NoMsg ELSE buffer_send
      /\ ackSeen \/ giveUp => buffer_send_ack_timeout' = -1
  BY <1>1 DEF PollEffect, DownInv
<1>7. /\ ~s_reset' /\ downGot' <= downSent'
      /\ Ahead(current_sequence_number, s_seen)' <= downSent' - downGot'
  BY <1>1, <1>6 DEF DownInv, Ahead
<1>8. giveUp => /\ buffer_send # NoMsg /\ buffer_send = downSent
                /\ downSent - downGot <= MaxLost
                /\ Len(recv') = 0 /\ Len(toSlave) = 0
  <2>1. giveUp => buffer_send_ack_timeout = 1 /\ MayGiveUp(buffer_send)
    BY DEF PollEffect
  <2>2. QED
    BY <2>1 DEF DownInv, MayGiveUp
<1>9. ackSeen => /\ buffer_send = NoMsg \/ s_seen = current_sequence_number
                 /\ \A i \in 1..Len(recv') :
                      recv'[i].kind # "bad" => recv'[i].ack = s_seen
  <2> SUFFICES ASSUME ackSeen
               PROVE  /\ buffer_send = NoMsg \/ s_seen = current_sequence_number
                      /\ \A i \in 1..Len(recv') :
                           recv'[i].kind # "bad" => recv'[i].ack = s_seen
    OBVIOUS
  <2>1. PICK a \in 1..n : /\ recv[a].kind # "bad"
                          /\ recv[a].ack = current_sequence_number
    BY <1>6 DEF PollEffect
  <2>2. a \in 1..Len(recv) /\ \A i \in 1..Len(recv') : i + k \in a..Len(recv)
    BY <1>1, <1>3, <1>4
  <2>3. buffer_send = NoMsg \/ s_seen = current_sequence_number
    BY <2>1, <2>2 DEF DownInv
  <2>4. CASE buffer_send = NoMsg
    BY <1>4, <2>4, SMTT(20) DEF DownInv
  <2>5. CASE buffer_send # NoMsg
    BY <1>4, <2>1, <2>2, <2>5 DEF DownInv
  <2>6. QED
    BY <2>3, <2>4, <2>5
<1>10. \A i \in 1..Len(recv') : recv'[i] = recv[i + k] /\ i + k \in 1..Len(recv)
  BY <1>4
<1>11. CASE giveUp
  <2>1. /\ buffer_send' = NoMsg /\ buffer_send_ack_timeout' = -1
        /\ downLost' = downSent
    BY <1>6, <1>8, <1>11
  <2>2. DownGot' = downSent
    BY <1>1, <1>7, <2>1 DEF DownGot
  <2>3. \A i \in 1..Len(toSlave') : toSlave'[i].kind # "msg"
    BY <1>5, <1>8, <1>11
  <2>4. DownInv'
    BY <1>1, <1>6, <1>7, <1>8, <1>11, <2>1, <2>2, <2>3 DEF DownInv
  <2>5. QED
    BY <1>6, <1>8, <1>11, <2>1, <2>4
<1>12. CASE ~giveUp /\ (ackSeen \/ buffer_send = NoMsg)
  <2>1. /\ buffer_send' = NoMsg
        /\ downLost' = downLost /\ DownGot' = DownGot
    BY <1>1, <1>6, <1>12 DEF DownGot
  <2>2. buffer_send_ack_timeout' = -1
    <3>1. CASE ackSeen
      BY <1>6, <3>1
    <3>2. CASE ~ackSeen
      <4>1. buffer_send = NoMsg /\ buffer_send_ack_timeout = -1
        BY <1>12, <3>2 DEF DownInv
      <4>2. QED
        BY <1>12, <3>2, <4>1 DEF PollEffect
    <3>3. QED
      BY <3>1, <3>2
  <2>3. buffer_send = NoMsg \/ s_seen = current_sequence_number
    BY <1>9, <1>12
  <2>4. DownGot = downSent /\ downSent - downGot <= MaxLost
    BY <1>1, <2>3 DEF DownInv, DownGot
  <2>5. \A i \in 1..Len(recv') : recv'[i].kind # "bad" => recv'[i].ack = s_seen
    <3>1. CASE ackSeen
      BY <1>9, <3>1
    <3>2. CASE ~ackSeen
      BY <1>10, <1>12, <3>2 DEF DownInv
    <3>3. QED
      BY <3>1, <3>2
  <2>6. \A i \in 1..Len(toSlave') :
          toSlave'[i].kind = "msg" => toSlave'[i].seq = s_seen
    <3> TAKE i \in 1..Len(toSlave')
    <3>1. CASE i \in 1..Len(toSlave) /\ toSlave'[i] = toSlave[i]
      BY <2>3, <3>1 DEF DownInv
    <3>2. CASE buffer_send # NoMsg /\ toSlave'[i].seq = current_sequence_number'
      BY <1>6, <2>3, <3>2
    <3>3. QED
      BY <1>5, <3>1, <3>2
  <2>7. DownInv'
    BY <1>1, <1>6, <1>7, <2>1, <2>2, <2>4, <2>5, <2>6 DEF DownInv
  <2>8. QED
    BY <1>6, <1>9, <1>12, <2>1, <2>7
<1>13. CASE ~giveUp /\ ~ackSeen /\ buffer_send # NoMsg
  <2>1. /\ UNCHANGED <<buffer_send, downLost>> /\ DownGot' = DownGot
        /\ buffer_send_ack_timeout' >= 0
    <3>1. buffer_send_ack_timeout' >= 0
      BY <1>13 DEF PollEffect
    <3>2. QED
      BY <1>1, <1>6, <1>13, <3>1 DEF DownGot
  <2>2. \A i \in 1..Len(recv') : \A j \in i..Len(recv') :
          recv'[i].kind # "bad" /\ recv'[j].kind # "bad"
            /\ recv'[i].ack = current_sequence_number => recv'[j].ack = s_seen
    <3> TAKE i \in 1..Len(recv')
    <3> TAKE j \in i..Len(recv')
    <3>1. /\ i + k \in 1..Len(recv) /\ recv'[i] = recv[i + k]
          /\ j + k \in i + k..Len(recv) /\ recv'[j] = recv[j + k]
      BY <1>4
    <3>2. QED
      BY <1>13, <3>1 DEF DownInv
  <2>3. CASE s_seen = current_sequence_number
    <3>1. \A i \in 1..Len(toSlave') :
            toSlave'[i].kind = "msg" => toSlave'[i].seq = s_seen
      <4> TAKE i \in 1..Len(toSlave')
      <4>1. CASE i \in 1..Len(toSlave) /\ toSlave'[i] = toSlave[i]
        BY <2>3, <4>1 DEF DownInv
      <4>2. QED
        BY <1>5, <1>6, <2>3, <4>1
    <3>2. DownInv'
      BY <1>1, <1>6, <1>7, <1>13, <2>1, <2>2, <2>3, <3>1 DEF DownInv
    <3>3. QED
      BY <1>6, <1>13, <2>1, <3>2
  <2>4. CASE s_seen # current_sequence_number
    <3>1. \A i \in 1..Len(recv') : recv'[i].kind # "bad" => recv'[i].ack = s_seen
      BY <1>10, <1>13, <2>4 DEF DownInv
    <3>2. \A i \in 1..Len(toSlave') : toSlave'[i].kind = "msg" =>
            \/ toSlave'[i].seq = s_seen
            \/ /\ toSlave'[i].seq = current_sequence_number
               /\ toSlave'[i].msg = downSent
      <4> TAKE i \in 1..Len(toSlave')
      <4>1. CASE i \in 1..Len(toSlave) /\ toSlave'[i] = toSlave[i]
        BY <1>13, <2>4, <4>1 DEF DownInv
      <4>2. buffer_send = downSent
        BY <1>13 DEF DownInv
      <4>3. QED
        BY <1>5, <1>6, <4>1, <4>2
    <3>3. \A i \in 1..Len(toSlave') : \A j \in i..Len(toSlave') :
            toSlave'[i].kind = "msg" /\ toSlave'[j].kind = "msg"
              /\ toSlave'[i].seq = current_sequence_number
            => toSlave'[j].seq = current_sequence_number
      <4> TAKE i \in 1..Len(toSlave')
      <4> TAKE j \in i..Len(toSlave')
      <4>1. j \in 1..Len(toSlave')
        BY <1>5
      <4>2. CASE j \in 1..Len(toSlave) /\ toSlave'[j] = toSlave[j]
        <5>1. /\ i \in 1..Len(toSlave) /\ j \in i..Len(toSlave)
              /\ toSlave'[i] = toSlave[i]
          BY <1>5, <4>2
        <5>2. QED
          BY <1>13, <2>4, <4>2, <5>1 DEF DownInv
      <4>3. QED
        BY <1>5, <1>6, <4>1, <4>2
    <3>4. DownInv'
      BY <1>1, <1>6, <1>7, <1>13, <2>1, <2>2, <2>4, <3>1, <3>2, <3>3
         DEF DownInv
    <3>5. QED
      BY <1>6, <1>13, <2>1, <3>4
  <2>5. QED
    BY <2>3, <2>4
<1>14. QED
  BY <1>11, <1>12, <1>13

\* A message loop stores a message and polls: it goes out at once, with a number
\* that is on none of the frames, and no ack of it can be there yet.
LEMMA DownSend ==
  ASSUME MaxLost <= SeqMax - 3, TypeInv, DownInv, UNCHANGED slaveVars,
         buffer_send = NoMsg, downSent' = downSent + 1,
         NEW t \in Tasks, NEW n \in 0..Len(recv),
         NEW giveUp \in BOOLEAN, NEW ackSeen \in BOOLEAN,
         PollEffect(t, downSent + 1, -1, n, giveUp, ackSeen)
  PROVE  /\ DownInv' /\ UNCHANGED downLost
         /\ buffer_send' = downSent + 1
         /\ s_seen' # current_sequence_number'
<1>1. /\ UNCHANGED <<s_reset, s_seen, downGot>>
      /\ downGot \in Nat /\ downSent \in Nat /\ downLost \in Nat
      /\ Len(recv) \in Nat /\ n \in Nat /\ SeqMax \in Nat
      /\ MaxLost \in Nat
      /\ s_seen \in 0..SeqMax /\ current_sequence_number \in 0..SeqMax
      /\ downSent + 1 # NoMsg
  BY CoMcuAssumption DEF slaveVars, TypeInv, NoMsg
<1>2. PICK k \in n..Len(recv) : IsRest(recv', recv, k)
  BY DEF PollEffect
<1>3. k \in 0..Len(recv) /\ k >= n
  BY <1>1
<1>4. \A i \in 1..Len(recv') : i + k \in 1..Len(recv) /\ recv'[i] = recv[i + k]
  BY <1>2, <1>3, RestIndices
<1>5. /\ Len(toSlave) \in Nat
      /\ \A i \in 1..Len(toSlave') :
              \/ i \in 1..Len(toSlave) /\ toSlave'[i] = toSlave[i]
              \/ /\ i > Len(toSlave) /\ toSlave'[i].kind = "msg"
                 /\ toSlave'[i].seq = current_sequence_number'
                 /\ toSlave'[i].msg = downSent + 1
              \/ i > Len(toSlave) /\ toSlave'[i].kind = "ack"
      /\ \A i \in 1..Len(toSlave') : \A j \in i..Len(toSlave') :
              /\ j \in 1..Len(toSlave')
              /\ j \in 1..Len(toSlave) => i \in 1..Len(toSlave)
  <2>1. WireAfter(n, downSent + 1, giveUp)
    BY DEF PollEffect
  <2>2. QED
    BY <2>1, WireIndices
<1>6. /\ DownGot = downSent /\ downSent - downGot <= MaxLost
      /\ \A i \in 1..Len(recv) : recv[i].kind # "bad" => recv[i].ack = s_seen
      /\ \A i \in 1..Len(toSlave) :
           toSlave[i].kind = "msg" => toSlave[i].seq = s_seen
      /\ Ahead(current_sequence_number, s_seen) <= downSent - downGot
      /\ downGot <= downSent /\ ~s_reset
  BY DEF DownInv
<1>7. current_sequence_number' = next_sequence(current_sequence_number)
  BY <1>1 DEF PollEffect
<1>8. /\ current_sequence_number' # s_seen
      /\ Ahead(current_sequence_number', s_seen) <= downSent + 1 - downGot
  <2>1. Ahead(current_sequence_number, s_seen) \in Int
    BY <1>1 DEF Ahead
  <2>2. Ahead(current_sequence_number, s_seen) <= SeqMax - 3
    BY <1>1, <1>6, <2>1
  <2>3. QED
    BY <1>1, <1>6, <1>7, <2>1, <2>2, AheadStep
<1>9. ~giveUp /\ ~ackSeen
  <2>1. ~giveUp
    BY DEF PollEffect
  <2>2. \A i \in 1..n : i \in 1..Len(recv)
    BY <1>1
  <2>3. ~ackSeen
    BY <1>6, <1>8, <2>2 DEF PollEffect
  <2>4. QED
    BY <2>1, <2>3
<1>10. /\ buffer_send' = downSent' /\ buffer_send' # NoMsg
       /\ buffer_send_ack_timeout' >= 0
       /\ downLost' = downLost /\ ~reset_wait'
  BY <1>1, <1>9 DEF PollEffect
<1>11. DownGot' + 1 = downSent' /\ downLost' < downSent'
  BY <1>1, <1>6, <1>10 DEF DownGot
<1>12. \A i \in 1..Len(recv') : recv'[i].kind # "bad" => recv'[i].ack = s_seen
  BY <1>4, <1>6
<1>13. \A i \in 1..Len(recv') : \A j \in i..Len(recv') :
          recv'[i].kind # "bad" /\ recv'[j].kind # "bad"
            /\ recv'[i].ack = current_sequence_number' => recv'[j].ack = s_seen
  BY <1>8, <1>12
<1>14. \A i \in 1..Len(toSlave') : toSlave'[i].kind = "msg" =>
            \/ toSlave'[i].seq = s_seen
            \/ /\ toSlave'[i].seq = current_sequence_number'
               /\ toSlave'[i].msg = downSent'
  BY <1>5, <1>6
<1>15. \A i \in 1..Len(toSlave') : \A j \in i..Len(toSlave') :
            toSlave'[i].kind = "msg" /\ toSlave'[j].kind = "msg"
              /\ toSlave'[i].seq = current_sequence_number'
            => toSlave'[j].seq = current_sequence_number'
  <2> TAKE i \in 1..Len(toSlave')
  <2> TAKE j \in i..Len(toSlave')
  <2>1. j \in 1..Len(toSlave') /\ (j \in 1..Len(toSlave) => i \in 1..Len(toSlave))
    BY <1>5
  <2>2. CASE i \in 1..Len(toSlave)
    <3>1. ~(i > Len(toSlave))
      BY <1>5, <2>2
    <3>2. QED
      BY <1>5, <1>6, <1>8, <2>2, <3>1
  <2>3. CASE ~(i \in 1..Len(toSlave))
    BY <1>5, <2>1, <2>3
  <2>4. QED
    BY <2>2, <2>3
<1>16. /\ Ahead(current_sequence_number, s_seen)' <= downSent' - downGot'
       /\ downGot' <= downSent' /\ ~s_reset'
       /\ downSent' - downGot' <= MaxLost + 1
  BY <1>1, <1>6, <1>8 DEF Ahead
<1>17. DownInv'
  BY <1>1, <1>8, <1>10, <1>11, <1>12, <1>13, <1>14, <1>15, <1>16 DEF DownInv
<1>18. QED
  BY <1>1, <1>8, <1>10, <1>17

\* The Bricklet looks at a frame: a number it has not seen is that of the message
\* in the buffer.
LEMMA DownTake ==
  ASSUME Resets = {}, TypeInv, DownInv, SlaveTake
  PROVE  /\ DownInv'
         /\ \/ UNCHANGED <<s_seen, downGot>>
            \/ /\ buffer_send # NoMsg /\ s_seen # current_sequence_number
               /\ s_seen' = current_sequence_number
               /\ downGot' = downSent /\ downGot < downSent
<1> DEFINE f == toSlave[1]
<1>1. /\ UNCHANGED <<current_sequence_number, buffer_send, downSent, downLost,
                     buffer_send_ack_timeout, reset_wait, recv>>
      /\ toSlave # <<>> /\ toSlave' = Tail(toSlave)
      /\ ~s_reset'
  BY DEF SlaveTake, brickVars, comVars
<1>2. /\ 1 \in 1..Len(toSlave)
      /\ Head(toSlave) = f
      /\ \A i \in 1..Len(toSlave') : /\ i + 1 \in 1..Len(toSlave)
                                     /\ toSlave'[i] = toSlave[i + 1]
      /\ \A i \in 1..Len(toSlave') : \A j \in i..Len(toSlave') :
           j \in 1..Len(toSlave') /\ j + 1 \in i + 1..Len(toSlave)
  BY <1>1, AfterHead
<1>3. /\ downGot \in Nat /\ downSent \in Nat /\ downLost \in Nat
      /\ current_sequence_number \in 0..SeqMax /\ s_seen \in 0..SeqMax
      /\ MaxLost \in Nat
  BY CoMcuAssumption DEF TypeInv
<1>4. CASE f.kind = "msg" /\ f.seq # s_seen
  <2>1. /\ buffer_send # NoMsg /\ s_seen # current_sequence_number
        /\ f.seq = current_sequence_number /\ f.msg = downSent
    BY <1>2, <1>4 DEF DownInv
  <2>2. s_seen' = current_sequence_number /\ downGot' = downSent
    BY <1>2, <1>4, <2>1 DEF SlaveTake
  <2>3. \A i \in 1..Len(toSlave) : i \in 1..Len(toSlave)
    OBVIOUS
  <2>4. \A i \in 1..Len(toSlave') :
          toSlave'[i].kind = "msg" => toSlave'[i].seq = current_sequence_number
    BY <1>2, <1>4, <2>1, <2>3 DEF DownInv
  <2>5. /\ downLost < downSent /\ buffer_send = downSent
        /\ buffer_send_ack_timeout >= 0 /\ ~reset_wait
        /\ DownGot + 1 = downSent
        /\ \A i \in 1..Len(recv) : recv[i].kind # "bad" => recv[i].ack = s_seen
    BY <2>1 DEF DownInv
  <2>6. downGot < downSent
    BY <1>3, <2>5 DEF DownGot
  <2>7. \A i \in 1..Len(recv) : \A j \in i..Len(recv) :
          recv[i].kind # "bad" /\ recv[j].kind # "bad"
            /\ recv[i].ack = current_sequence_number
          => recv[j].ack = current_sequence_number
    BY <2>1, <2>5
  <2>8. Ahead(current_sequence_number, current_sequence_number) = 0
    BY <1>3 DEF Ahead
  <2>9. /\ Ahead(current_sequence_number, s_seen)' <= downSent' - downGot'
        /\ downGot' <= downSent'
    BY <1>1, <1>3, <2>2, <2>8 DEF Ahead
  <2>10. DownInv'
    BY <1>1, <2>1, <2>2, <2>4, <2>5, <2>7, <2>9 DEF DownInv
  <2>11. QED
    BY <2>1, <2>2, <2>6, <2>10
<1>5. CASE ~(f.kind = "msg" /\ f.seq # s_seen)
  <2>1. UNCHANGED <<s_seen, downGot>> /\ DownGot' = DownGot
    BY <1>1, <1>2, <1>5 DEF SlaveTake, DownGot
  <2>2. /\ ~s_reset' /\ ~reset_wait' /\ downGot' <= downSent'
        /\ Ahead(current_sequence_number, s_seen)' <= downSent' - downGot'
    BY <1>1, <2>1 DEF DownInv, Ahead
  <2>3. CASE buffer_send = NoMsg \/ s_seen = current_sequence_number
    <3>1. \A i \in 1..Len(toSlave') :
            toSlave'[i].kind = "msg" => toSlave'[i].seq = s_seen
      BY <1>2, <2>3 DEF DownInv
    <3>2. QED
      BY <1>1, <2>1, <2>2, <2>3, <3>1 DEF DownInv
  <2>4. CASE buffer_send # NoMsg /\ s_seen # current_sequence_number
    <3>1. \A i \in 1..Len(toSlave') : toSlave'[i].kind = "msg" =>
            \/ toSlave'[i].seq = s_seen
            \/ /\ toSlave'[i].seq = current_sequence_number
               /\ toSlave'[i].msg = downSent
      BY <1>2, <2>4 DEF DownInv
    <3>2. \A i \in 1..Len(toSlave') : \A j \in i..Len(toSlave') :
            toSlave'[i].kind = "msg" /\ toSlave'[j].kind = "msg"
              /\ toSlave'[i].seq = current_sequence_number
            => toSlave'[j].seq = current_sequence_number
      <4> TAKE i \in 1..Len(toSlave')
      <4> TAKE j \in i..Len(toSlave')
      <4>1. /\ i + 1 \in 1..Len(toSlave) /\ toSlave'[i] = toSlave[i + 1]
            /\ j + 1 \in i + 1..Len(toSlave) /\ toSlave'[j] = toSlave[j + 1]
        BY <1>2
      <4>2. QED
        BY <2>4, <4>1 DEF DownInv
    <3>3. QED
      BY <1>1, <2>1, <2>2, <2>4, <3>1, <3>2 DEF DownInv
  <2>5. QED
    BY <2>1, <2>3, <2>4
<1>6. QED
  BY <1>4, <1>5

\* A frame of the Bricklet carries the number it has seen.
LEMMA DownEmit ==
  ASSUME TypeInv, DownInv, NEW kind \in Kinds, NEW outcome \in Outcomes,
         SlaveEmit(kind, outcome)
  PROVE  DownInv'
<1> DEFINE good == [kind |-> kind, ack |-> s_seen,
                    seq |-> IF kind = "msg" THEN s_seq ELSE 0,
                    msg |-> IF kind = "msg" THEN s_msg ELSE NoMsg]
<1>1. /\ UNCHANGED <<s_reset, s_seen, downGot, downSent, downLost, reset_wait,
                     buffer_send, buffer_send_ack_timeout,
                     current_sequence_number, toSlave>>
      /\ recv' \in {recv, Append(recv, good), Append(recv, Bad)}
      /\ Len(recv) \in Nat
  BY SMTT(20) DEF SlaveEmit, brickVars, comVars, Outcomes, TypeInv
<1>2. good.ack = s_seen /\ Bad.kind = "bad"
  BY DEF Bad
<1> HIDE DEF good
<1>3. ASSUME NEW f, recv' = Append(recv, f), f.kind # "bad" => f.ack = s_seen
      PROVE  DownInv'
  <2>1. /\ Len(recv') = Len(recv) + 1
        /\ \A i \in 1..Len(recv) : recv'[i] = recv[i]
        /\ recv'[Len(recv) + 1] = f
    BY <1>3 DEF TypeInv
  <2>2. \A i \in 1..Len(recv') : \/ i \in 1..Len(recv) /\ recv'[i] = recv[i]
                                 \/ i = Len(recv) + 1 /\ recv'[i] = f
    BY <1>1, <2>1
  <2>3. \A i \in 1..Len(recv') : \A j \in i..Len(recv') :
          recv'[i].kind # "bad" /\ recv'[j].kind # "bad"
            /\ recv'[i].ack = current_sequence_number
            /\ buffer_send # NoMsg
          => recv'[j].ack = s_seen
    <3> TAKE i \in 1..Len(recv')
    <3> TAKE j \in i..Len(recv')
    <3>1. CASE j = Len(recv) + 1
      BY <1>3, <2>1, <3>1
    <3>2. CASE j # Len(recv) + 1
      <4>1. /\ i \in 1..Len(recv) /\ j \in i..Len(recv)
            /\ j \in 1..Len(recv)
        BY <1>1, <2>1, <3>2
      <4>2. recv'[i] = recv[i] /\ recv'[j] = recv[j]
        BY <2>1, <4>1
      <4>3. QED
        BY <4>1, <4>2 DEF DownInv
    <3>3. QED
      BY <3>1, <3>2
  <2>4. UNCHANGED <<DownGot, Ahead(current_sequence_number, s_seen)>>
    BY <1>1 DEF DownGot, Ahead
  <2>5. QED
    BY <1>1, <1>3, <2>2, <2>3, <2>4 DEF DownInv
<1>4. CASE recv' = recv
  BY <1>1, <1>4 DEF DownInv, DownGot, Ahead
<1>5. QED
  BY <1>1, <1>2, <1>3, <1>4

\* A step that leaves this direction alone.
LEMMA DownKept ==
  ASSUME DownInv,
         UNCHANGED <<s_reset, s_seen, downGot, downSent, downLost, reset_wait,
                     buffer_send, buffer_send_ack_timeout,
                     current_sequence_number, recv, toSlave>>
  PROVE  DownInv'
BY DEF DownInv, DownGot, Ahead

\* The tick task and a message loop, on a port that waits for no reset.
LEMMA TickEffect ==
  ASSUME Resets = {}, TypeInv, TickPoll
  PROVE  /\ UNCHANGED <<slaveVars, downSent>>
         /\ \E t \in Tasks : \E n \in 0..Len(recv) :
              \E giveUp, ackSeen \in BOOLEAN :
                PollEffect(t, buffer_send, buffer_send_ack_timeout, n, giveUp,
                           ackSeen)
<1>1. /\ "tick" \in Tasks
      /\ Poll("tick", buffer_send, buffer_send_ack_timeout)
      /\ buffer_send \in 0..MaxDown
      /\ buffer_send_ack_timeout \in -1..AckTimeout
  BY DEF TickPoll, Tasks, TypeInv
<1>2. QED
  BY <1>1, PollHasEffect DEF TickPoll

LEMMA SendEffect ==
  ASSUME Resets = {}, TypeInv, DownInv, NEW l \in Loops, LoopSend(l)
  PROVE  /\ UNCHANGED slaveVars
         /\ buffer_send = NoMsg /\ downSent' = downSent + 1
         /\ l \in Tasks
         /\ \E n \in 0..Len(recv) : \E giveUp, ackSeen \in BOOLEAN :
              PollEffect(l, downSent + 1, -1, n, giveUp, ackSeen)
<1>1. l \in Tasks /\ downSent + 1 \in 0..MaxDown /\ -1 \in -1..AckTimeout
  BY CoMcuAssumption DEF LoopSend, Tasks, TypeInv
<1>2. Poll(l, downSent + 1, -1)
  BY DEF LoopSend, DownInv
<1>3. QED
  BY <1>1, <1>2, PollHasEffect DEF LoopSend

\* A Bricklet that nobody asks for a reset: the Brick's frames and the acks of
\* the Bricklet are in order, and no number is in use twice at a time.
LEMMA DownInvariant ==
  ASSUME Resets = {}, MaxLost <= SeqMax - 3
  PROVE  Spec => []DownInv
<1>1. Init => DownInv
  BY CoMcuAssumption DEF Init, DownInv, DownGot, Ahead, NoMsg
<1>2. TypeInv /\ DownInv /\ [Next]_vars => DownInv'
  <2> SUFFICES ASSUME TypeInv, DownInv, [Next]_vars PROVE DownInv'
    OBVIOUS
  <2>1. CASE TickPoll
    BY <2>1, TickEffect, DownTick
  <2>2. ASSUME NEW l \in Loops, LoopSend(l) PROVE DownInv'
    BY <2>2, SendEffect, DownSend
  <2>3. CASE \E kind \in Kinds, outcome \in Outcomes : SlaveEmit(kind, outcome)
    BY <2>3, DownEmit
  <2>4. CASE SlaveTake
    BY <2>4, DownTake
  <2>5. CASE SlaveReset
    BY <2>5 DEF SlaveReset, DownInv
  <2>6. CASE Connect \/ ComSent
    BY <2>6, DownKept DEF Connect, ComSent, brickVars, slaveVars
  <2>7. CASE \E t \in Tasks : Forward(t) \/ ForwardTimeout(t)
    BY <2>7, DownKept DEF Forward, ForwardTimeout, brickVars, slaveVars
  <2>8. CASE SlaveSay
    BY <2>8, DownKept DEF SlaveSay, brickVars
  <2>9. CASE UNCHANGED vars
    BY <2>9, DownKept DEF vars, brickVars, slaveVars
  <2>10. QED
    BY <2>1, <2>2, <2>3, <2>4, <2>5, <2>6, <2>7, <2>8, <2>9 DEF Next
<1>3. QED
  BY <1>1, <1>2, TypeInvariant, PTL DEF Spec

-----------------------------------------------------------------------------
(* Messages to the Bricklet arrive in order and once each, or are given up. *)

\* got and queue of the abstract link, of one port.
LEMMA DownStutter ==
  ASSUME UNCHANGED <<downSent, DownGot, DownQueue>>
  PROVE  UNCHANGED Down!linkVars
BY DEF Down!linkVars, DownGot

LEMMA DownUntouched ==
  ASSUME UNCHANGED <<downSent, downGot, downLost, buffer_send, s_seen,
                     buffer_send_ack_timeout, current_sequence_number>>
  PROVE  UNCHANGED Down!linkVars
BY DownStutter DEF DownGot, DownQueue, Taken

\* A message leaves the link: the Bricklet takes it, or the Brick gives it up.
LEMMA DownLeaves ==
  ASSUME downSent \in Nat, UNCHANGED downSent,
         DownQueue = <<downSent>>, DownQueue' = <<>>, DownGot' = downSent
  PROVE  Down!Next
<1>1. /\ DownQueue # <<>> /\ Head(DownQueue) = downSent
      /\ Tail(DownQueue) = <<>>
  OBVIOUS
<1>2. Down!Deliver(1)
  BY <1>1 DEF Down!Deliver, Port, DownGot
<1>3. QED
  BY <1>2 DEF Down!Next, Port

\* The Bricklet sees another number only when it takes a message.
SeenIsNewer == s_seen' # s_seen => downGot' > downGot

LEMMA DownStep ==
  ASSUME Resets = {}, MaxLost <= SeqMax - 3, TypeInv, DownInv, [Next]_vars
  PROVE  [Down!Next]_(Down!linkVars) /\ SeenIsNewer
<1>0. /\ downSent \in Nat /\ downGot \in Nat /\ downLost \in Nat
      /\ buffer_send_ack_timeout \in Int
  BY CoMcuAssumption DEF TypeInv
<1>1. CASE TickPoll
  <2>1. PICK t \in Tasks, n \in 0..Len(recv) :
          \E giveUp, ackSeen \in BOOLEAN :
            PollEffect(t, buffer_send, buffer_send_ack_timeout, n, giveUp,
                       ackSeen)
    BY <1>1, TickEffect
  <2>2. PICK giveUp \in BOOLEAN, ackSeen \in BOOLEAN :
          PollEffect(t, buffer_send, buffer_send_ack_timeout, n, giveUp, ackSeen)
    BY <2>1
  <2>3. UNCHANGED slaveVars /\ UNCHANGED downSent
    BY <1>1, TickEffect
  <2>4. /\ UNCHANGED <<s_seen, downGot, downSent>>
        /\ current_sequence_number' = current_sequence_number
        /\ giveUp => buffer_send # NoMsg /\ buffer_send' = NoMsg
                     /\ downLost' = downSent
        /\ ~giveUp => /\ UNCHANGED downLost
                      /\ \/ /\ buffer_send' = buffer_send
                            /\ buffer_send # NoMsg =>
                                 buffer_send_ack_timeout' >= 0
                         \/ /\ buffer_send' = NoMsg
                            /\ s_seen = current_sequence_number
    BY <2>2, <2>3, DownTick DEF slaveVars
  <2>5. SeenIsNewer
    BY <2>4 DEF SeenIsNewer
  <2>6. CASE giveUp /\ s_seen # current_sequence_number
    <3>1. DownQueue = <<downSent>> /\ DownQueue' = <<>>
      BY <2>4, <2>6 DEF DownInv, DownQueue, Taken
    <3>2. DownGot' = downSent
      BY <1>0, <2>4, <2>6 DEF DownInv, DownGot
    <3>3. QED
      BY <1>0, <2>4, <2>5, <3>1, <3>2, DownLeaves
  <2>7. CASE giveUp /\ s_seen = current_sequence_number
    <3>1. DownQueue = <<>> /\ DownQueue' = <<>>
      BY <2>4, <2>7 DEF DownInv, DownQueue, Taken
    <3>2. downGot = downSent /\ downLost < downSent
      BY <2>4, <2>7 DEF DownInv
    <3>3. DownGot' = DownGot
      BY <1>0, <2>4, <2>7, <3>2 DEF DownGot
    <3>4. QED
      BY <2>4, <2>5, <3>1, <3>3, DownStutter
  <2>8. CASE ~giveUp
    <3>1. buffer_send # NoMsg => buffer_send_ack_timeout >= 0
      BY DEF DownInv
    <3>2. DownQueue' = DownQueue
      BY <2>4, <2>8, <3>1 DEF DownQueue, Taken
    <3>3. DownGot' = DownGot
      BY <2>4, <2>8 DEF DownGot
    <3>4. QED
      BY <2>4, <2>5, <3>2, <3>3, DownStutter
  <2>9. QED
    BY <2>6, <2>7, <2>8
<1>2. ASSUME NEW l \in Loops, LoopSend(l)
      PROVE  [Down!Next]_(Down!linkVars) /\ SeenIsNewer
  <2>1. /\ UNCHANGED slaveVars
        /\ buffer_send = NoMsg /\ downSent' = downSent + 1
    BY <1>2, SendEffect
  <2>2. /\ UNCHANGED downLost
        /\ buffer_send' = downSent + 1
        /\ s_seen' # current_sequence_number'
    BY <1>2, SendEffect, DownSend
  <2>3. UNCHANGED <<s_seen, downGot>> /\ DownGot' = DownGot
    BY <2>1, <2>2 DEF slaveVars, DownGot
  <2>4. DownQueue = <<>> /\ DownQueue' = <<downSent + 1>>
    BY <1>0, <2>1, <2>2 DEF DownQueue, Taken, NoMsg
  <2>5. Len(DownQueue) < 1 /\ DownQueue' = Append(DownQueue, downSent + 1)
    BY <2>4
  <2>6. Down!Accept(1)
    BY <2>1, <2>3, <2>5 DEF Down!Accept, Port, DownGot
  <2>7. QED
    BY <2>3, <2>6 DEF Down!Next, Port, SeenIsNewer
<1>3. CASE SlaveTake
  <2>1. UNCHANGED <<current_sequence_number, buffer_send, downSent, downLost,
                    buffer_send_ack_timeout>>
    BY <1>3 DEF SlaveTake, brickVars
  <2>2. CASE UNCHANGED <<s_seen, downGot>>
    BY <2>1, <2>2, DownUntouched DEF SeenIsNewer
  <2>3. CASE /\ buffer_send # NoMsg /\ s_seen # current_sequence_number
             /\ s_seen' = current_sequence_number
             /\ downGot' = downSent /\ downGot < downSent
    <3>1. buffer_send = downSent /\ buffer_send_ack_timeout >= 0
          /\ downLost < downSent
      BY <2>3 DEF DownInv
    <3>2. DownQueue = <<downSent>> /\ DownQueue' = <<>>
      BY <2>1, <2>3, <3>1 DEF DownQueue, Taken
    <3>3. DownGot' = downSent
      BY <1>0, <2>1, <2>3, <3>1 DEF DownGot
    <3>4. QED
      BY <1>0, <2>1, <2>3, <3>2, <3>3, DownLeaves DEF SeenIsNewer
  <2>4. QED
    BY <1>3, <2>2, <2>3, DownTake
<1>4. ASSUME NEW kind \in Kinds, NEW outcome \in Outcomes,
             SlaveEmit(kind, outcome)
      PROVE  [Down!Next]_(Down!linkVars) /\ SeenIsNewer
  BY <1>4, DownUntouched DEF SlaveEmit, brickVars, SeenIsNewer
<1>5. CASE SlaveReset
  BY <1>5 DEF SlaveReset, DownInv
<1>6. CASE Connect \/ ComSent
  BY <1>6, DownUntouched DEF Connect, ComSent, brickVars, slaveVars, SeenIsNewer
<1>7. ASSUME NEW t \in Tasks, Forward(t) \/ ForwardTimeout(t)
      PROVE  [Down!Next]_(Down!linkVars) /\ SeenIsNewer
  BY <1>7, DownUntouched
     DEF Forward, ForwardTimeout, brickVars, slaveVars, SeenIsNewer
<1>8. CASE SlaveSay
  BY <1>8, DownUntouched DEF SlaveSay, brickVars, SeenIsNewer
<1>9. CASE UNCHANGED vars
  BY <1>9, DownUntouched DEF vars, brickVars, slaveVars, SeenIsNewer
<1>10. QED
  BY <1>1, <1>2, <1>3, <1>4, <1>5, <1>6, <1>7, <1>8, <1>9 DEF Next

\* However many frames are lost or damaged in either direction, and whichever
\* task sends: every message stored for a Bricklet that is not asked for a reset
\* reaches it once, in order, or is given up; and the Bricklet takes no number
\* twice.  At most SeqMax - 3 messages may be given up in a row, with one more
\* the numbers come round to the one the Bricklet has seen (DownLink of CoMcu).
THEOREM DownRefinement ==
  ASSUME Resets = {}, MaxLost <= SeqMax - 3
  PROVE  Spec => DownLink
<1>1. Init => Down!Init
  <2> SUFFICES ASSUME Init PROVE Down!Init
    OBVIOUS
  <2>1. DownQueue = <<>>
    BY DEF Init, DownQueue
  <2>2. QED
    BY <2>1 DEF Init, Down!Init, Port
<1>2. TypeInv /\ DownInv /\ [Next]_vars =>
        [s_seen' # s_seen => downGot' > downGot]_vars
  BY DownStep DEF SeenIsNewer
<1>3. TypeInv /\ DownInv /\ [Next]_vars => [Down!Next]_(Down!linkVars)
  BY DownStep
<1>4. Spec => []DownInv
  BY DownInvariant
<1>5. QED
  BY <1>1, <1>2, <1>3, <1>4, TypeInvariant, PTL DEF Spec, DownLink, Down!Spec
=============================================================================
