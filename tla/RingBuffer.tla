----------------------------- MODULE RingBuffer -----------------------------
(***************************************************************************)
(* utility/ringbuffer.c: the byte buffer between the bit-banged SPI of a   *)
(* co-processor Bricklet and the frame parser.  start and end are indices  *)
(* into buffer, equal when the buffer is empty; one slot always stays      *)
(* unused, because an add that would make them equal is taken back.        *)
(***************************************************************************)
EXTENDS Integers, Sequences

CONSTANTS
  Size,          \* rb->size, CO_MCU_BUFFER_SIZE_RECV in its one use
  Byte,          \* uint8_t
  MaxOverflows   \* bound of the counter

ASSUME SizeAssumption == Size \in Nat \ {0} /\ Byte # {} /\ MaxOverflows \in Nat

VARIABLES start, end, buffer, overflows, low_watermark,
          ok,    \* what the last ringbuffer_add or ringbuffer_get returned
          data   \* *data of the last successful ringbuffer_get

rbVars == <<start, end, buffer, overflows, low_watermark, ok, data>>

Slots == 0..Size - 1

ringbuffer_get_used(s, e) == IF e < s THEN Size + e - s ELSE e - s

RbInit ==
  /\ start = 0
  /\ end = 0
  /\ buffer \in [Slots -> Byte]
  /\ overflows = 0
  /\ low_watermark = Size
  /\ ok \in BOOLEAN
  /\ data \in Byte

\* Mutant: an index wraps one slot too late.
BumpLate(i) == IF i + 1 > Size THEN 0 ELSE i + 1

\* The index after i.
Bump(i) == IF i + 1 >= Size THEN 0 ELSE i + 1

\* Mutant: an add finds the buffer full one byte too early.
FullTooEarly(s, e) == Bump(Bump(e)) = s

\* After its increment, end has run into start.
Overflow(s, e) == Bump(e) = s

\* ringbuffer_add writes the byte first and takes the increment back if the
\* buffer turns out to be full.
Add(b) ==
  /\ buffer' = [buffer EXCEPT ![end] = b]
  /\ IF Overflow(start, end)
     THEN /\ overflows < MaxOverflows
          /\ overflows' = overflows + 1
          /\ end' = IF Bump(end) = 0 THEN Size - 1 ELSE Bump(end) - 1
          /\ ok' = FALSE
     ELSE /\ end' = Bump(end)
          /\ ok' = TRUE
          /\ UNCHANGED overflows
  /\ UNCHANGED <<start, low_watermark, data>>

Get ==
  IF start = end
  THEN /\ ok' = FALSE
       /\ UNCHANGED <<start, end, buffer, overflows, low_watermark, data>>
  ELSE /\ data' = buffer[start]
       /\ start' = Bump(start)
       /\ ok' = TRUE
       /\ UNCHANGED <<end, buffer, overflows, low_watermark>>

Remove(num) ==
  LET used == ringbuffer_get_used(start, end)
      incr == IF used < num THEN used ELSE num
  IN /\ start' = IF start + incr >= Size THEN start + incr - Size
                 ELSE start + incr
     /\ UNCHANGED <<end, buffer, overflows, low_watermark, ok, data>>

\* ringbuffer_get_free (ringbuffer_is_full asks it) keeps the lowest value it
\* ever returned.
GetFree ==
  LET free == Size - ringbuffer_get_used(start, end)
  IN /\ low_watermark' = IF free < low_watermark THEN free ELSE low_watermark
     /\ UNCHANGED <<start, end, buffer, overflows, ok, data>>

RbNext ==
  \/ \E b \in Byte : Add(b)
  \/ Get
  \/ \E num \in 0..Size : Remove(num)
  \/ GetFree

RbSpec == RbInit /\ [][RbNext]_rbVars

-----------------------------------------------------------------------------
(* Properties.                                                             *)

\* The indices stay inside the buffer and the length they stand for below its
\* size, through wraps and through the add that takes its increment back.
RbTypeOK ==
  /\ start \in Slots
  /\ end \in Slots
  /\ buffer \in [Slots -> Byte]
  /\ overflows \in 0..MaxOverflows
  /\ low_watermark \in 1..Size
  /\ ok \in BOOLEAN
  /\ data \in Byte

\* The slot of the i-th byte from the oldest, and the bytes between two indices.
Slot(s, i) == IF s + i - 1 < Size THEN s + i - 1 ELSE s + i - 1 - Size

Between(s, e, buf) == [i \in 1..ringbuffer_get_used(s, e) |-> buf[Slot(s, i)]]

Contents == Between(start, end, buffer)

Fifo == INSTANCE ByteFifo WITH Capacity <- Size - 1, contents <- Contents

\* ringbuffer.c is a FIFO of Size - 1 bytes: across wraps, overflows and
\* removals of any length the bytes come out in the order they were added, each
\* once, and a refused byte leaves the others alone.
IsFifo == Fifo!Spec
=============================================================================
