----------------------------- MODULE CoMcuFrame -----------------------------
(***************************************************************************)
(* The bytes of SPITFP at the Brick: bricklet/bricklet_co_mcu.c below the  *)
(* frames of CoMcu.  Every byte clocked out brings one of the Bricklet's   *)
(* into the ring buffer; the Brick finds the frames in this stream by      *)
(* their first byte, a length, and by their checksum.                      *)
(*                                                                         *)
(* A byte is the value it has if it is taken for the first of a frame, and *)
(* its place in the frame it belongs to; a checksum is right for all the   *)
(* bytes of one frame in their order and for nothing else.  The Bricklet's *)
(* bytes may be damaged, the Brick's are not: the loss of frames in both   *)
(* directions, numbers that wrap and tasks that poll are in CoMcu.         *)
(***************************************************************************)
EXTENDS Integers, Sequences

CONSTANTS
  FrSize,        \* CO_MCU_BUFFER_SIZE_RECV
  FrMin, FrMax,  \* MIN_TFP_MESSAGE_LENGTH, MAX_TFP_MESSAGE_LENGTH
  FrUpLength,    \* length of the Bricklet's messages
  FrDownLength,  \* length of the Brick's messages
  FrTimeout,     \* BUFFER_SEND_ACK_TIMEOUT, in polls
  FrLooks,       \* values the bytes 2..FrUpLength of the Bricklet's frames have
  FrSteady,      \* the Bricklet repeats its message without a pause; if not, it
                 \* begins at most one frame in a poll
  FrMaxUp,       \* bound: messages of the Bricklet
  FrMaxDown,     \* bound: messages of the Brick
  FrMaxDamage    \* bound: damaged bytes

FrOverhead == 3   \* PROTOCOL_OVERHEAD, the length of an ack frame


IsMessageLength(value) == value \in FrMin..FrMax
IsLength(value) == value = FrOverhead \/ IsMessageLength(value)

\* Nothing, a length, or something else.
FrValues == {0, FrOverhead, FrUpLength, FrSize}

ASSUME FrameAssumption ==
  /\ FrMin \in Nat /\ FrMax \in Nat /\ FrOverhead < FrMin /\ FrMin <= FrMax
  /\ FrSize \in Nat /\ FrMax < FrSize
  /\ FrUpLength \in FrMin..FrMax /\ FrDownLength \in FrMin..FrMax
  /\ FrTimeout \in Nat \ {0}
  /\ FrLooks \subseteq [2..FrUpLength -> FrValues]
  /\ FrSteady \in BOOLEAN
  /\ FrMaxUp \in Nat /\ FrMaxDown \in Nat /\ FrMaxDamage \in Nat

VARIABLES
  frLook,      \* the values of the bytes of the Bricklet's frames
  frRing,      \* ringbuffer_recv, oldest byte first
  frOverflow,  \* ringbuffer_add has failed
  frPc,        \* where bricklet_co_mcu_poll is
  frLeft,      \* bytes it still clocks there
  frAck,       \* the message it acknowledges
  frBusy,      \* buffer_send holds a message
  frWait,      \* buffer_send_ack_timeout, in polls
  frNum,       \* the Brick's last message
  frGot,       \* last message of the Bricklet
  frBegun,     \* the Bricklet has begun a frame in this poll
  frOut,       \* the Bricklet: rest of the frame it is sending
  frSeen,      \* the Bricklet: last message of the Brick
  frOwes,      \* the Bricklet: it owes an ack
  frUp,        \* the Bricklet: the message it sends until it is acknowledged
  frDamage     \* bytes damaged so far

frVars == <<frLook, frRing, frOverflow, frPc, frLeft, frAck, frBusy, frWait, frNum,
            frGot, frBegun, frOut, frSeen, frOwes, frUp, frDamage>>

FrInit ==
  /\ frLook \in FrLooks
  /\ frRing = <<>> /\ frOverflow = FALSE
  /\ frPc = "idle" /\ frLeft = 0 /\ frAck = 0
  /\ frBusy = FALSE /\ frWait = 0 /\ frNum = 0 /\ frGot = 0
  /\ frBegun = FALSE /\ frOut = <<>> /\ frSeen = 0 /\ frOwes = FALSE /\ frUp = 1
  /\ frDamage = 0

-----------------------------------------------------------------------------
(* One byte in each direction.                                             *)

FrByte(kind, value, at, msg, ack) ==
  [kind |-> kind, value |-> value, at |-> at, msg |-> msg, ack |-> ack]

Frame(kind, length, msg, ack) ==
  [i \in 1..length |->
     FrByte(kind, IF i = 1 THEN length ELSE frLook[i], i, msg, ack)]

Gap == <<FrByte("gap", 0, 0, 0, 0)>>
Messages ==
  IF frUp <= FrMaxUp THEN {Frame("msg", FrUpLength, frUp, frSeen)} ELSE {}
Acks == IF frOwes THEN {Frame("ack", FrOverhead, 0, frSeen)} ELSE {}

\* What the Bricklet sends from now on: the rest of a frame, or else nothing, its
\* message, repeated until it is acknowledged, or an ack it owes.
Begins == IF frBegun THEN {} ELSE Messages \cup Acks
Sending == IF frOut # <<>> THEN {frOut}
           ELSE IF FrSteady /\ Messages # {} THEN Messages
           ELSE {Gap} \cup Begins

Damaged == IF frDamage < FrMaxDamage
           THEN {FrByte("bad", v, 0, 0, 0) : v \in FrValues} ELSE {}

\* bricklet_co_mcu_entry_spibb_transceive_byte: the Bricklet sends the first
\* byte of out, what arrives is byte.  With its byte it may have heard all of a
\* message or of an acknowledgement.
Clock(out, byte, message, ack) ==
  /\ frOut' = Tail(out)
  /\ frBegun' = (frBegun \/ (frOut = <<>> /\ out # Gap))
  /\ frSeen' = IF message THEN frNum ELSE frSeen
  /\ frOwes' = (message \/ (frOwes /\ Head(out).kind # "ack"))
  /\ frUp' = IF ack /\ frAck = frUp THEN frUp + 1 ELSE frUp
  /\ frDamage' = IF byte = Head(out) THEN frDamage ELSE frDamage + 1

\* bricklet_co_mcu_check_missing_length removes what no frame starts with.
FromLength(ring) ==
  LET starts == {i \in 1..Len(ring) : IsLength(ring[i].value)}
      first == CHOOSE i \in starts : \A j \in starts : i <= j
  IN IF starts = {} THEN <<>> ELSE SubSeq(ring, first, Len(ring))

\* bricklet_co_mcu_transceive: a byte that does not fit is dropped.  A poll that
\* receives asks for the missing length after each byte.
Transceive(message, ack) ==
  \E out \in Sending : \E byte \in {Head(out)} \cup Damaged :
    LET fits == Len(frRing) + 1 < FrSize
        ring == IF fits THEN Append(frRing, byte) ELSE frRing
    IN /\ Clock(out, byte, message, ack)
       /\ frRing' = IF frPc = "receive" THEN FromLength(ring) ELSE ring
       /\ frOverflow' = (frOverflow \/ ~fits)

-----------------------------------------------------------------------------
(* bricklet_co_mcu_poll and bricklet_co_mcu_send.                          *)

PollReceives ==
  /\ frPc = "idle"
  /\ frBusy => frWait > 1
  /\ frWait' = IF frBusy THEN frWait - 1 ELSE frWait
  /\ frPc' = "receive"
  /\ frLeft' = FrSize - Len(frRing)
  /\ frBegun' = FALSE
  /\ UNCHANGED <<frLook, frRing, frOverflow, frAck, frBusy, frNum, frGot,
                 frOut, frSeen, frOwes, frUp, frDamage>>

\* bricklet_co_mcu_send stores a message and polls; a poll sends a message again
\* that has not been acknowledged in time.
PollSends ==
  /\ frPc = "idle"
  /\ \/ frBusy /\ frWait = 1 /\ UNCHANGED frNum
     \/ ~frBusy /\ frNum < FrMaxDown /\ frNum' = frNum + 1
  /\ frBusy' = TRUE
  /\ frWait' = FrTimeout
  /\ frPc' = "send"
  /\ frLeft' = FrDownLength
  /\ frBegun' = FALSE
  /\ UNCHANGED <<frLook, frRing, frOverflow, frAck, frGot, frOut, frSeen, frOwes,
                 frUp, frDamage>>

\* Where a byte of a frame of the Brick leads.
SendByte ==
  /\ frPc \in {"send", "ack"}
  /\ Transceive(frPc = "send" /\ frLeft = 1, frPc = "ack" /\ frLeft = 1)
  /\ frLeft' = frLeft - 1
  /\ frPc' = IF frLeft > 1 THEN frPc
             ELSE IF frPc = "send" THEN "check" ELSE "idle"
  /\ frGot' = IF frLeft = 1 /\ frPc = "ack" THEN frAck ELSE frGot
  /\ UNCHANGED <<frLook, frAck, frBusy, frWait, frNum>>

\* It returns what is missing of the frame, 0 if that is more than the data of a
\* message.
FrMissing(ring) ==
  IF ring = <<>> \/ ring[1].value - Len(ring) \notin 0..FrMax - FrOverhead THEN 0
  ELSE ring[1].value - Len(ring)

ReceiveByte ==
  /\ frPc = "receive"
  /\ frLeft > 0
  /\ Transceive(FALSE, FALSE)
  /\ frLeft' = frLeft - 1
  /\ frPc' = IF frLeft = 1 \/ FrMissing(frRing') = 0 THEN "check" ELSE "receive"
  /\ UNCHANGED <<frLook, frAck, frBusy, frWait, frNum, frGot>>

-----------------------------------------------------------------------------
(* bricklet_co_mcu_check_recv, one frame after the other.                  *)

\* The bytes are those of one frame: the checksum is right.
ChecksumRight(bytes) ==
  \A i \in 1..Len(bytes) :
    /\ bytes[i].kind \in {"msg", "ack"} /\ bytes[i].at = i
    /\ bytes[i].kind = bytes[1].kind
    /\ bytes[i].msg = bytes[1].msg /\ bytes[i].ack = bytes[1].ack

\* An acknowledgement of the current message frees the buffer.
Freed(bytes) == frBusy /\ bytes[1].ack # frNum

CheckRecv ==
  /\ frPc = "check"
  /\ LET length == IF frRing = <<>> THEN 0 ELSE frRing[1].value
         frame == SubSeq(frRing, 1, length)
         rest == SubSeq(frRing, length + 1, Len(frRing))
     IN \/ /\ frRing = <<>> \/ (IsLength(length) /\ length > Len(frRing))
           /\ frPc' = "idle"
           /\ UNCHANGED <<frRing, frAck, frBusy>>
        \/ /\ frRing # <<>> /\ length = 0
           /\ frRing' = Tail(frRing)
           /\ UNCHANGED <<frPc, frAck, frBusy>>
        \/ /\ length # 0 /\ ~IsLength(length)
           /\ frPc' = "error"
           /\ UNCHANGED <<frRing, frAck, frBusy>>
        \/ /\ IsLength(length) /\ length <= Len(frRing)
           /\ frRing' = rest
           /\ IF ~ChecksumRight(frame)
              THEN frPc' = "error" /\ UNCHANGED <<frAck, frBusy>>
              ELSE /\ frBusy' = Freed(frame)
                   /\ IF length = FrOverhead
                      THEN UNCHANGED <<frPc, frAck>>
                      ELSE frPc' = "ack" /\ frAck' = frame[1].msg
  /\ frLeft' = FrOverhead
  /\ UNCHANGED <<frLook, frOverflow, frWait, frNum, frGot, frBegun, frOut, frSeen,
                 frOwes, frUp, frDamage>>

\* bricklet_co_mcu_handle_error empties the ring buffer.  The byte it clocks
\* before, every other time, comes after bricklet_co_mcu_poll has deselected the
\* Bricklet: that one takes no part in it, and nobody keeps what arrives.
HandleError ==
  /\ frPc = "error"
  /\ frRing' = <<>>
  /\ frPc' = "idle"
  /\ UNCHANGED <<frLook, frOverflow, frLeft, frAck, frBusy, frWait, frNum, frGot,
                 frBegun, frOut, frSeen, frOwes, frUp, frDamage>>

FrNext ==
  \/ PollReceives \/ PollSends
  \/ SendByte \/ ReceiveByte
  \/ CheckRecv
  \/ HandleError

FrFairness == WF_frVars(FrNext)

FrSpec == FrInit /\ [][FrNext]_frVars /\ FrFairness

-----------------------------------------------------------------------------
(* Properties.                                                             *)

FrTypeOK ==
  /\ Len(frRing) < FrSize
  /\ frPc \in {"idle", "send", "receive", "check", "ack", "error"}
  /\ frLeft \in 0..FrSize
  /\ frAck \in 0..FrMaxUp /\ frGot \in 0..FrMaxUp /\ frUp \in 1..FrMaxUp + 1
  /\ frNum \in 0..FrMaxDown /\ frSeen \in 0..FrMaxDown
  /\ Len(frOut) < FrMax /\ frDamage \in 0..FrMaxDamage
  /\ {frBegun, frBusy, frOwes, frOverflow} \subseteq BOOLEAN
  /\ frWait \in 0..FrTimeout /\ frLook \in FrLooks

\* "By randomly removing one additional byte we get out of the deadlock"
\* (bricklet_co_mcu_handle_error): Brick and Bricklet get into step again, and
\* every message gets through, whatever the bytes in the middle of the frames
\* look like and wherever the stream was damaged.  This fails of a Bricklet that
\* repeats a frame whose bytes look like the beginning of one (FrSomeLooks).
MessageGetsThrough == <>(frGot = FrMaxUp)

\* "There is no overflow in SPITFP on master side possible"
\* (com_messages.c:300).
NoOverflow == ~frOverflow
=============================================================================
