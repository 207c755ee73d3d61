-------------------------------- MODULE CoMcu --------------------------------
(***************************************************************************)
(* One Bricklet port of a Brick with a co-processor (CoMCU) Bricklet:      *)
(* bricklet/bricklet_co_mcu.c, the SPITFP protocol over bit-banged SPI.    *)
(*                                                                         *)
(* The Brick clocks every byte in both directions.  A message frame has a  *)
(* sequence number of its sender and the last one it saw (an ack), an ack  *)
(* frame the latter only.  A frame with a bad length or checksum, or bytes *)
(* out of step, are one "bad" frame here.  recv holds the frames that are  *)
(* in the ring buffer or still on their way to it, toSlave those that the  *)
(* Bricklet has not looked at.                                             *)
(*                                                                         *)
(* Two kinds of tasks poll the port: the tick task, and the message loops  *)
(* when they have a message for it.  A poll only yields while it hands a   *)
(* message of the Bricklet to the com of the Brick.                        *)
(***************************************************************************)
EXTENDS Integers, Sequences

CONSTANTS
  SeqMax,       \* 0xF in the code
  AckTimeout,   \* BUFFER_SEND_ACK_TIMEOUT, in polls
  MaxTries,     \* MAX_TRIES_IF_NOT_CONNECTED
  TriesMod,     \* 2^7: the width of availability.access.tries
  Loops,        \* message loop tasks
  Resets,       \* messages to the Bricklet that ask it for a reset
  MaxDown,      \* bound: messages to the Bricklet
  MaxUp,        \* bound: messages of the Bricklet
  MaxLost,      \* bound: messages in a row that a port that never answered
                \* did not take and the Brick gave up
  Wire          \* bound: frames on their way in one direction

ASSUME CoMcuAssumption ==
  /\ SeqMax \in Nat /\ SeqMax > 2
  /\ AckTimeout \in Nat \ {0}
  /\ MaxTries \in Nat \ {0} /\ TriesMod \in Nat /\ MaxTries < TriesMod
  /\ "tick" \notin Loops
  /\ MaxDown \in Nat /\ MaxUp \in Nat /\ MaxLost \in Nat /\ Wire \in Nat

Tasks == {"tick"} \cup Loops

NoMsg == 0

Frame == [kind : {"ack", "msg"}, ack : 0..SeqMax, seq : 0..SeqMax, msg : Nat]
Bad == [kind |-> "bad", ack |-> 0, seq |-> 0, msg |-> NoMsg]

VARIABLES
  com_current,            \* com_info.current # COM_NONE
  buffer_send,            \* message in buffer_send, NoMsg if its length is 0
  buffer_send_ack_timeout,
  current_sequence_number,
  last_sequence_number_seen,
  tries, got_message, first_enumerate_send,
  reset_wait,             \* bricklet_comcu_reset_wait_time # 0
  recv, toSlave,
  delivering,             \* delivering[t]: message task t is sending to the
                          \* com, and whether it may give up
  com_out,                \* send buffer of the com
  s_seen, s_seq, s_msg,   \* the Bricklet: number seen, own number, message
  s_ack,                  \* it owes an ack
  s_reset,                \* it is about to reset
  downSent, downGot,      \* last message stored for / taken by the Bricklet
  downLost,               \* last message given up
  upSent, upHanded,       \* last message of the Bricklet / handed to a task
  forwarded, dropped      \* messages the com accepted / that timed out

brickVars == <<com_current, buffer_send, buffer_send_ack_timeout,
               current_sequence_number, last_sequence_number_seen, tries,
               got_message, reset_wait, downSent, downLost>>
comVars   == <<first_enumerate_send, delivering, com_out, forwarded, dropped>>
slaveVars == <<s_seen, s_seq, s_msg, s_ack, s_reset, downGot, upSent>>
vars == <<brickVars, comVars, slaveVars, recv, toSlave, upHanded>>

Idle == [msg |-> NoMsg, definite |-> FALSE]

Init ==
  /\ com_current = FALSE
  /\ buffer_send = NoMsg
  /\ buffer_send_ack_timeout = -1
  /\ current_sequence_number = 0
  /\ last_sequence_number_seen = 0
  /\ tries = 0
  /\ got_message = FALSE
  /\ first_enumerate_send = FALSE
  /\ reset_wait = FALSE
  /\ recv = <<>>
  /\ toSlave = <<>>
  /\ delivering = [t \in Tasks |-> Idle]
  /\ com_out = NoMsg
  /\ s_seen = 0 /\ s_seq = 0 /\ s_msg = NoMsg
  /\ s_ack = FALSE /\ s_reset = FALSE
  /\ downSent = 0 /\ downGot = 0 /\ downLost = 0
  /\ upSent = 0 /\ upHanded = 0
  /\ forwarded = {} /\ dropped = {}

-----------------------------------------------------------------------------
(* bricklet_co_mcu_poll.                                                   *)

\* Mutants: the number is never increased; it does not wrap.
SameSequence(seq) == seq
NoWrap(seq) == seq + 1

\* Zero and one belong to a start-up: 15 is followed by 2.
next_sequence(seq) == IF seq + 1 > SeqMax THEN 2 ELSE seq + 1

\* Mutant: a frame whose acknowledgement timed out is not repeated.
SendsOnce(buf, timeout) == buf # NoMsg /\ timeout < 0

\* The poll sends: a new message (timeout -1) or one that timed out (0).
Sends(buf, timeout) == buf # NoMsg /\ timeout <= 0

\* Mutant: a message is taken for new whatever its number.
EveryMessageIsNew(f, seen) == TRUE

IsNew(f, seen) == f.seq # seen

\* Mutant: only new messages are acknowledged.
AcksNewOnly(f, seen) == f.seq # seen

\* send_ack is called for every message with a good checksum.
Acks(f, seen) == TRUE

\* Mutant: the first message may time out like any other.
NeverDefinite == FALSE

\* new_message insists on its first message.
Definite == ~first_enumerate_send

\* Frames clocked out join a queue of at most Wire frames, the others are lost.
Carried(queue, frames) ==
  LET all == queue \o frames
  IN IF Len(all) <= Wire THEN all ELSE SubSeq(all, 1, Wire)

\* check_recv reads ack frames up to a message or a bad frame; n frames are
\* complete in the ring buffer by then.
Readable(n) == \A i \in 1..n - 1 : recv[i].kind = "ack"

\* An error empties the ring buffer, with whatever was in it by then.
RestAfter(n) ==
  IF n > 0 /\ recv[n].kind = "bad"
  THEN {SubSeq(recv, k + 1, Len(recv)) : k \in n..Len(recv)}
  ELSE {SubSeq(recv, n + 1, Len(recv))}

\* An assumption about the time, not a guard of the code, which gives a message up
\* whatever is on its way: so many polls after it was sent both sides have looked
\* at every frame (a Bricklet about to reset does not look any more), and not so
\* many messages in a row are given up that the numbers wrap.
MayGiveUp(buf) ==
  /\ recv' = <<>>
  /\ toSlave = <<>> \/ s_reset
  /\ buf - downGot <= MaxLost

\* Task t polls with the message buf in the send buffer.  sent and acked tell
\* whether the frames the Brick sends reach the Bricklet.
PollStep(t, buf, timeout, n, sent, acked) ==
  LET expired == timeout = 1
      tries1 == IF expired THEN (tries + 1) % TriesMod ELSE tries
      giveUp == expired /\ tries1 >= MaxTries /\ ~got_message
      buf1 == IF giveUp THEN NoMsg ELSE buf
      timeout1 == IF giveUp THEN -1
                  ELSE IF timeout > 0 THEN timeout - 1 ELSE timeout
      sends == Sends(buf1, timeout1)
      seq == IF sends /\ timeout1 < 0
             THEN next_sequence(current_sequence_number)
             ELSE current_sequence_number
      frame == [kind |-> "msg", ack |-> last_sequence_number_seen,
                seq |-> seq, msg |-> buf1]
      \* check_recv
      ackSeen == \E i \in 1..n : recv[i].kind # "bad" /\ recv[i].ack = seq
      resets == ackSeen /\ buf1 \in Resets
      seen == IF resets THEN 0 ELSE last_sequence_number_seen
      isMessage == n > 0 /\ recv[n].kind = "msg"
      new == isMessage /\ IsNew(recv[n], seen)
      ackFrame == [kind |-> "ack", ack |-> recv[n].seq, seq |-> 0,
                   msg |-> NoMsg]
  IN /\ Readable(n)
     /\ tries' = IF giveUp THEN MaxTries - 1 ELSE tries1
     /\ buffer_send' = IF ackSeen THEN NoMsg ELSE buf1
     /\ buffer_send_ack_timeout' =
          IF ackSeen THEN -1 ELSE IF sends THEN AckTimeout ELSE timeout1
     /\ current_sequence_number' = seq
     /\ reset_wait' = resets
     /\ last_sequence_number_seen' = IF new THEN recv[n].seq ELSE seen
     /\ got_message' = (got_message \/ new)
     /\ upHanded' = IF new THEN recv[n].msg ELSE upHanded
     /\ delivering' = IF new
                      THEN [delivering EXCEPT ![t] =
                              [msg |-> recv[n].msg, definite |-> Definite]]
                      ELSE delivering
     /\ recv' \in RestAfter(n)
     /\ giveUp => MayGiveUp(buf)
     /\ toSlave' = Carried(toSlave,
          (IF sends /\ sent THEN <<frame>> ELSE <<>>)
          \o (IF isMessage /\ Acks(recv[n], seen) /\ acked
              THEN <<ackFrame>> ELSE <<>>))
     /\ downLost' = IF giveUp THEN buf ELSE downLost
     /\ UNCHANGED <<first_enumerate_send, com_out, forwarded, dropped>>

Poll(t, buf, timeout) ==
  \E n \in 0..Len(recv), sent, acked \in BOOLEAN :
    PollStep(t, buf, timeout, n, sent, acked)

\* A reset takes a Bricklet less than BRICKLET_COMCU_RESET_WAIT.
WaitElapsed == reset_wait => ~s_reset

\* bricklet_tick_task polls the port, if a com is known and the wait after a
\* reset is over.
TickPoll ==
  /\ delivering["tick"] = Idle
  /\ com_current
  /\ WaitElapsed
  /\ Poll("tick", buffer_send, buffer_send_ack_timeout)
  /\ UNCHANGED <<com_current, downSent, slaveVars>>

\* A message loop routes its first message, which need not be for this port.
Connect ==
  /\ ~com_current
  /\ com_current' = TRUE
  /\ UNCHANGED <<buffer_send, buffer_send_ack_timeout,
                 current_sequence_number, last_sequence_number_seen, tries,
                 got_message, reset_wait, downSent, downLost, comVars,
                 slaveVars, recv, toSlave, upHanded>>

\* bricklet_co_mcu_send, called by message loop l, finds the send buffer free:
\* it stores the message and polls the port in the same breath.
LoopSend(l) ==
  /\ delivering[l] = Idle
  /\ downSent < MaxDown
  /\ buffer_send = NoMsg
  /\ com_current' = TRUE
  /\ downSent' = downSent + 1
  /\ \/ /\ WaitElapsed
        /\ Poll(l, downSent + 1, -1)
     \/ /\ reset_wait
        /\ buffer_send' = downSent + 1
        /\ buffer_send_ack_timeout' = -1
        /\ UNCHANGED <<current_sequence_number, last_sequence_number_seen,
                       tries, got_message, reset_wait, downLost, comVars,
                       recv, toSlave, upHanded>>
  /\ UNCHANGED slaveVars

-----------------------------------------------------------------------------
(* bricklet_co_mcu_new_message, and the com.                               *)

\* The com takes the message of task t.
Forward(t) ==
  /\ delivering[t] # Idle
  /\ com_out = NoMsg
  /\ com_out' = delivering[t].msg
  /\ forwarded' = forwarded \cup {delivering[t].msg}
  /\ delivering' = [delivering EXCEPT ![t] = Idle]
  /\ first_enumerate_send' = (first_enumerate_send \/ delivering[t].definite)
  /\ UNCHANGED <<brickVars, slaveVars, recv, toSlave, upHanded, dropped>>

\* send_blocking_with_timeout gives up.
ForwardTimeout(t) ==
  /\ delivering[t] # Idle
  /\ ~delivering[t].definite
  /\ dropped' = dropped \cup {delivering[t].msg}
  /\ delivering' = [delivering EXCEPT ![t] = Idle]
  /\ UNCHANGED <<brickVars, slaveVars, recv, toSlave, upHanded, com_out,
                 forwarded, first_enumerate_send>>

\* The com gets rid of a message.
ComSent ==
  /\ com_out # NoMsg
  /\ com_out' = NoMsg
  /\ UNCHANGED <<brickVars, slaveVars, recv, toSlave, upHanded, delivering,
                 forwarded, dropped, first_enumerate_send>>

-----------------------------------------------------------------------------
(* The Bricklet, as the Brick's side of the protocol expects it.           *)

\* Its numbers run like those of the Brick: zero is never one of them, one the
\* first after a start-up.
SlaveNext(seq) == IF seq + 1 > SeqMax THEN 2 ELSE seq + 1

\* It has something to say.
SlaveSay ==
  /\ s_msg = NoMsg /\ ~s_reset
  /\ upSent < MaxUp
  /\ upSent' = upSent + 1
  /\ s_msg' = upSent + 1
  /\ s_seq' = SlaveNext(s_seq)
  /\ UNCHANGED <<brickVars, comVars, recv, toSlave, upHanded, s_seen, s_ack,
                 s_reset, downGot>>

\* It puts its message, or an ack it owes, on the wire; the frame is lost
\* (frame = <<>>), arrives or arrives damaged.
SlaveEmit(kind, outcome) ==
  LET good == [kind |-> kind, ack |-> s_seen,
               seq |-> IF kind = "msg" THEN s_seq ELSE 0,
               msg |-> IF kind = "msg" THEN s_msg ELSE NoMsg]
  IN /\ IF kind = "msg" THEN s_msg # NoMsg ELSE s_ack
     /\ CASE outcome = "good" -> Len(recv) < Wire /\ recv' = Append(recv, good)
          [] outcome = "bad"  -> Len(recv) < Wire /\ recv' = Append(recv, Bad)
          [] OTHER            -> UNCHANGED recv
     /\ s_ack' = FALSE
     /\ UNCHANGED <<brickVars, comVars, toSlave, upHanded, s_seen, s_seq,
                    s_msg, s_reset, downGot, upSent>>

\* It looks at a frame of the Brick.
SlaveTake ==
  LET f == Head(toSlave)
      new == f.kind = "msg" /\ f.seq # s_seen
  IN /\ toSlave # <<>> /\ ~s_reset
     /\ toSlave' = Tail(toSlave)
     /\ s_msg' = IF f.ack = s_seq THEN NoMsg ELSE s_msg
     /\ s_seen' = IF new THEN f.seq ELSE s_seen
     /\ downGot' = IF new THEN f.msg ELSE downGot
     /\ s_ack' = (s_ack \/ f.kind = "msg")
     /\ s_reset' = (new /\ f.msg \in Resets)
     /\ UNCHANGED <<brickVars, comVars, recv, upHanded, s_seq, upSent>>

\* It resets once its answer has been read, or the Brick does not read any more:
\* what it had not sent is gone, it starts at one again.
SlaveReset ==
  /\ s_reset /\ ~s_ack
  /\ recv = <<>> \/ reset_wait
  /\ \E n \in 0..Len(recv) : recv' = SubSeq(recv, 1, n)
  /\ s_reset' = FALSE
  /\ s_seen' = 0 /\ s_seq' = 0 /\ s_msg' = NoMsg
  /\ toSlave' = <<>>
  /\ UNCHANGED <<brickVars, comVars, upHanded, s_ack, downGot, upSent>>

-----------------------------------------------------------------------------
Kinds == {"msg", "ack"}
Outcomes == {"good", "bad", "lost"}

Next ==
  \/ Connect
  \/ TickPoll
  \/ \E l \in Loops : LoopSend(l)
  \/ \E t \in Tasks : Forward(t)
  \/ \E t \in Tasks : ForwardTimeout(t)
  \/ ComSent
  \/ SlaveSay
  \/ \E kind \in Kinds, outcome \in Outcomes : SlaveEmit(kind, outcome)
  \/ SlaveTake
  \/ SlaveReset

Spec == Init /\ [][Next]_vars

\* A poll of the tick task in which nothing the Brick sends is lost, and that
\* reads n frames.
GoodPoll(n) ==
  /\ delivering["tick"] = Idle /\ com_current /\ WaitElapsed
  /\ PollStep("tick", buffer_send, buffer_send_ack_timeout, n, TRUE, TRUE)
  /\ UNCHANGED <<com_current, downSent, slaveVars>>

\* Such a poll repeats, or sends for the first time, the message in the buffer.
GoodSend ==
  /\ buffer_send # NoMsg /\ buffer_send_ack_timeout <= 1
  /\ Len(toSlave) < Wire
  /\ GoodPoll(0)

\* The tasks run, the com sends, the Bricklet does its part, and a frame that is
\* sent again and again arrives at some time.
Fairness ==
  /\ WF_vars(Connect)
  /\ WF_vars(TickPoll)
  /\ SF_vars(GoodSend)
  /\ \A kinds \in {{"msg"}, {"ack", "bad"}} :
       SF_vars(/\ Len(toSlave) < Wire \/ s_reset
               /\ \E n \in 1..Len(recv) : recv[n].kind \in kinds /\ GoodPoll(n))
  /\ \A t \in Tasks : SF_vars(Forward(t))
  /\ WF_vars(ComSent)
  /\ WF_vars(SlaveTake)
  /\ SF_vars(SlaveReset)
  /\ \A kind \in Kinds : SF_vars(SlaveEmit(kind, "good"))

FairSpec == Spec /\ Fairness

-----------------------------------------------------------------------------
(* Properties.                                                             *)

\* The port's state stays in its ranges; buffer_send_ack_timeout is -1 when the
\* message in the buffer has never been sent.
TypeOK ==
  /\ com_current \in BOOLEAN
  /\ buffer_send \in 0..MaxDown
  /\ buffer_send_ack_timeout \in -1..AckTimeout
  /\ current_sequence_number \in 0..SeqMax
  /\ last_sequence_number_seen \in 0..SeqMax
  /\ tries \in 0..TriesMod - 1
  /\ got_message \in BOOLEAN /\ first_enumerate_send \in BOOLEAN
  /\ reset_wait \in BOOLEAN
  /\ recv \in Seq(Frame \cup {Bad})
  /\ toSlave \in Seq(Frame)
  /\ delivering \in [Tasks -> [msg : 0..MaxUp, definite : BOOLEAN]]
  /\ com_out \in 0..MaxUp
  /\ s_seen \in 0..SeqMax /\ s_seq \in 0..SeqMax /\ s_msg \in 0..MaxUp
  /\ s_ack \in BOOLEAN /\ s_reset \in BOOLEAN
  /\ downSent \in 0..MaxDown /\ downGot \in 0..MaxDown
  /\ downLost \in 0..MaxDown
  /\ upSent \in 0..MaxUp /\ upHanded \in 0..MaxUp
  /\ forwarded \subseteq 1..MaxUp /\ dropped \subseteq 1..MaxUp

\* The message in the send buffer, until the Bricklet has taken it.
Taken == buffer_send_ack_timeout >= 0 /\ s_seen = current_sequence_number

DownQueue == IF buffer_send # NoMsg /\ ~Taken THEN <<buffer_send>> ELSE <<>>

\* The message the Bricklet repeats, until the Brick has its number.
UpQueue == IF s_msg # NoMsg /\ last_sequence_number_seen # s_seq
           THEN <<s_msg>> ELSE <<>>

Port == {1}

Down == INSTANCE ReliableLink WITH
          Endpoints <- Port, Capacity <- 1,
          sent <- [p \in Port |-> downSent],
          got <- [p \in Port |->
                    IF downLost > downGot THEN downLost ELSE downGot],
          queue <- [p \in Port |-> DownQueue]

Up == INSTANCE ReliableLink WITH
        Endpoints <- Port, Capacity <- 1,
        sent <- [p \in Port |-> upSent],
        got <- [p \in Port |-> upHanded],
        queue <- [p \in Port |-> UpQueue]

\* A message stored for the Bricklet reaches it exactly once and in order, or
\* is given up on a port that never answered, whatever frames are lost.
DownLink ==
  /\ Down!Spec
  /\ [][s_seen' # s_seen => downGot' > downGot]_vars

\* A message of the Bricklet is handed to a task exactly once and in order,
\* whatever frames are lost, and whichever task polls while another one is
\* still sending the message before.
UpLink ==
  /\ Up!Spec
  /\ [][\A t \in Tasks : \/ delivering'[t] \in {delivering[t], Idle}
                         \/ delivering'[t].msg > upHanded]_vars

\* "We make sure that the very first enumerate is definitely send": nothing is
\* dropped by a timeout of the com before it has accepted a first message
\* (bricklet_co_mcu.c:272-276).
FirstMessageForwarded == dropped # {} => forwarded # {}

\* The Bricklet's messages are not thrown away: what is acknowledged has been
\* handed to a task, also after a reset (bricklet_co_mcu.c:336-338).
NoMessageThrownAway ==
  [][s_msg # NoMsg /\ s_msg' = NoMsg /\ ~s_reset => upHanded >= s_msg]_vars

\* A message stored for the Bricklet is taken by it or given up.
DownDelivered ==
  \A n \in 1..MaxDown : downSent >= n ~> (downGot >= n \/ downLost >= n)

\* A message of the Bricklet is forwarded to the com or dropped by its timeout,
\* and acknowledged, unless the Bricklet is asked for a reset before.
UpForwarded ==
  \A n \in 1..MaxUp :
    upSent >= n ~> \/ n \in forwarded \cup dropped /\ s_msg # n
                   \/ \E r \in Resets : downGot >= r
=============================================================================
