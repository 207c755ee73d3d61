-------------------------- MODULE RingBufferProofs --------------------------
(***************************************************************************)
(* Theorems about RingBuffer, for every size and every set of bytes: its   *)
(* indices stay inside the buffer, and it is a FIFO of Size - 1 bytes.     *)
(***************************************************************************)
EXTENDS RingBuffer, SequenceTheorems, TLAPS

\* The length between two indices is a length a buffer of Size - 1 bytes has.
LEMMA UsedType ==
  ASSUME NEW s \in Slots, NEW e \in Slots
  PROVE  /\ ringbuffer_get_used(s, e) \in 0..Size - 1
         /\ ringbuffer_get_used(s, e) = 0 <=> s = e
BY SizeAssumption DEF ringbuffer_get_used, Slots

\* An index stays inside the buffer when it moves by one.
LEMMA BumpType ==
  ASSUME NEW i \in Slots
  PROVE  /\ Bump(i) \in Slots
         /\ (IF Bump(i) = 0 THEN Size - 1 ELSE Bump(i) - 1) = i
BY SizeAssumption DEF Bump, Slots

\* ... and when it moves by no more than the bytes there are.
LEMMA RemoveType ==
  ASSUME NEW s \in Slots, NEW e \in Slots, NEW n \in 0..Size - 1,
         n <= ringbuffer_get_used(s, e)
  PROVE  /\ (IF s + n >= Size THEN s + n - Size ELSE s + n) \in Slots
         /\ ringbuffer_get_used(IF s + n >= Size THEN s + n - Size ELSE s + n, e)
              = ringbuffer_get_used(s, e) - n
BY SizeAssumption DEF ringbuffer_get_used, Slots

\* An add that is not taken back makes the buffer one byte longer; one that is
\* taken back finds Size - 1 bytes in it.
LEMMA AddUsed ==
  ASSUME NEW s \in Slots, NEW e \in Slots
  PROVE  /\ Bump(e) # s =>
              /\ ringbuffer_get_used(s, Bump(e)) = ringbuffer_get_used(s, e) + 1
              /\ ringbuffer_get_used(s, e) < Size - 1
         /\ Bump(e) = s => ringbuffer_get_used(s, e) = Size - 1
BY SizeAssumption DEF ringbuffer_get_used, Slots, Bump

\* The slots of the bytes are slots, none of them is the one end points to, and
\* the byte after the last one would be there.
LEMMA SlotType ==
  ASSUME NEW s \in Slots, NEW e \in Slots
  PROVE  /\ \A i \in 1..ringbuffer_get_used(s, e) :
              Slot(s, i) \in Slots /\ Slot(s, i) # e
         /\ Slot(s, ringbuffer_get_used(s, e) + 1) = e
         /\ Slot(s, 1) = s
BY SizeAssumption DEF ringbuffer_get_used, Slots, Slot

\* Removing n bytes makes the byte n + i the byte i.
LEMMA SlotShift ==
  ASSUME NEW s \in Slots, NEW e \in Slots, NEW n \in 0..Size - 1,
         n <= ringbuffer_get_used(s, e),
         NEW i \in 1..ringbuffer_get_used(s, e) - n
  PROVE  Slot(IF s + n >= Size THEN s + n - Size ELSE s + n, i) = Slot(s, n + i)
BY SizeAssumption DEF ringbuffer_get_used, Slots, Slot

\* The indices of ringbuffer.c never leave the buffer, for every size.
THEOREM RingTypeCorrect == RbSpec => []RbTypeOK
<1>1. RbInit => RbTypeOK
  BY SizeAssumption DEF RbInit, RbTypeOK, Slots
<1>2. RbTypeOK /\ [RbNext]_rbVars => RbTypeOK'
  <2> SUFFICES ASSUME RbTypeOK, [RbNext]_rbVars PROVE RbTypeOK'
    OBVIOUS
  <2>0. /\ start \in Slots /\ end \in Slots /\ Bump(end) \in Slots
        /\ Bump(start) \in Slots
        /\ (IF Bump(end) = 0 THEN Size - 1 ELSE Bump(end) - 1) \in Slots
    BY BumpType DEF RbTypeOK
  <2>1. ASSUME NEW b \in Byte, Add(b) PROVE RbTypeOK'
    <3>1. buffer' \in [Slots -> Byte] /\ overflows' \in 0..MaxOverflows
      BY <2>1, SizeAssumption DEF RbTypeOK, Add
    <3>2. end' \in Slots /\ start' \in Slots /\ low_watermark' \in 1..Size
      BY <2>0, <2>1 DEF RbTypeOK, Add
    <3>3. ok' \in BOOLEAN /\ data' \in Byte
      BY <2>1 DEF RbTypeOK, Add
    <3>4. QED
      BY <3>1, <3>2, <3>3 DEF RbTypeOK
  <2>2. CASE Get
    BY <2>0, <2>2 DEF RbTypeOK, Get
  <2>3. ASSUME NEW num \in 0..Size, Remove(num) PROVE RbTypeOK'
    <3> DEFINE used == ringbuffer_get_used(start, end)
               incr == IF used < num THEN used ELSE num
    <3>1. incr \in 0..Size - 1 /\ incr <= used
      BY <2>0, UsedType, SizeAssumption
    <3>2. (IF start + incr >= Size THEN start + incr - Size ELSE start + incr)
             \in Slots
      BY <2>0, <3>1, RemoveType
    <3>3. QED
      BY <2>3, <3>2 DEF RbTypeOK, Remove
  <2>4. CASE GetFree
    <3>1. Size - ringbuffer_get_used(start, end) \in 1..Size
      BY <2>0, UsedType, SizeAssumption
    <3>2. QED
      BY <2>4, <3>1 DEF RbTypeOK, GetFree
  <2>5. CASE UNCHANGED rbVars
    BY <2>5 DEF RbTypeOK, rbVars
  <2>6. QED
    BY <2>1, <2>2, <2>3, <2>4, <2>5 DEF RbNext
<1>3. QED
  BY <1>1, <1>2, PTL DEF RbSpec

\* What Contents is, for any two indices.
LEMMA BetweenProperties ==
  ASSUME NEW s \in Slots, NEW e \in Slots, NEW buf \in [Slots -> Byte]
  PROVE  /\ Between(s, e, buf) \in Seq(Byte)
         /\ Len(Between(s, e, buf)) = ringbuffer_get_used(s, e)
         /\ \A i \in 1..ringbuffer_get_used(s, e) :
              Between(s, e, buf)[i] = buf[Slot(s, i)]
<1> DEFINE n == ringbuffer_get_used(s, e)
<1>1. n \in Nat /\ \A i \in 1..n : Slot(s, i) \in Slots
  BY UsedType, SlotType
<1>2. Between(s, e, buf) \in [1..n -> Byte]
  BY <1>1 DEF Between
<1>3. Between(s, e, buf) \in Seq(Byte)
  BY <1>1, <1>2, SeqDef
<1>4. Len(Between(s, e, buf)) = n
  BY <1>1, <1>2, <1>3, LenProperties
<1>5. QED
  BY <1>3, <1>4 DEF Between

\* An add that fits appends its byte.
LEMMA AddAppends ==
  ASSUME NEW s \in Slots, NEW e \in Slots, NEW buf \in [Slots -> Byte],
         NEW b \in Byte, Bump(e) # s
  PROVE  Between(s, Bump(e), [buf EXCEPT ![e] = b])
           = Append(Between(s, e, buf), b)
<1> DEFINE n == ringbuffer_get_used(s, e)
           new == [buf EXCEPT ![e] = b]
           old == Between(s, e, buf)
           S == Between(s, Bump(e), new)
           T == Append(old, b)
<1>1. n \in Nat /\ ringbuffer_get_used(s, Bump(e)) = n + 1
  BY UsedType, AddUsed
<1>2. new \in [Slots -> Byte] /\ Bump(e) \in Slots
  BY BumpType
<1>3. S \in Seq(Byte) /\ Len(S) = n + 1
      /\ \A i \in 1..n + 1 : S[i] = new[Slot(s, i)]
  <2>1. /\ S \in Seq(Byte) /\ Len(S) = ringbuffer_get_used(s, Bump(e))
        /\ \A i \in 1..ringbuffer_get_used(s, Bump(e)) :
             S[i] = new[Slot(s, i)]
    <3> HIDE DEF new
    <3>1. QED
      BY <1>2, BetweenProperties
  <2> HIDE DEF S, n
  <2>2. QED
    BY <1>1, <2>1
<1>4. old \in Seq(Byte) /\ Len(old) = n
      /\ \A i \in 1..n : old[i] = buf[Slot(s, i)]
  BY BetweenProperties
<1>5. T \in Seq(Byte) /\ Len(T) = n + 1 /\ T[n + 1] = b
      /\ \A i \in 1..n : T[i] = old[i]
  BY <1>1, <1>4
<1>6. ASSUME NEW i \in 1..n + 1 PROVE S[i] = T[i]
  <2>1. CASE i = n + 1
    <3>1. Slot(s, i) = e
      BY <2>1, SlotType
    <3>2. QED
      BY <2>1, <3>1, <1>3, <1>5
  <2>2. CASE i \in 1..n
    <3>1. Slot(s, i) \in Slots /\ Slot(s, i) # e
      BY <2>2, SlotType
    <3>2. QED
      BY <2>2, <3>1, <1>3, <1>4, <1>5
  <2>3. i = n + 1 \/ i \in 1..n
    <3> HIDE DEF n
    <3>1. QED
      BY <1>1
  <2>4. QED
    BY <2>1, <2>2, <2>3
<1> HIDE DEF S, T
<1>7. QED
  BY <1>3, <1>5, <1>6, SeqEqual DEF S, T

\* The byte an add writes before it is taken back is none of the contents.
LEMMA OverflowKeeps ==
  ASSUME NEW s \in Slots, NEW e \in Slots, NEW buf \in [Slots -> Byte],
         NEW b \in Byte
  PROVE  Between(s, e, [buf EXCEPT ![e] = b]) = Between(s, e, buf)
<1>1. \A i \in 1..ringbuffer_get_used(s, e) :
         Slot(s, i) \in Slots /\ Slot(s, i) # e
  BY SlotType
<1>2. QED
  BY <1>1 DEF Between

\* Moving start by n drops the n oldest bytes.
LEMMA RemoveDrops ==
  ASSUME NEW s \in Slots, NEW e \in Slots, NEW buf \in [Slots -> Byte],
         NEW n \in 0..Size - 1, n <= ringbuffer_get_used(s, e),
         NEW t, t = IF s + n >= Size THEN s + n - Size ELSE s + n
  PROVE  Between(t, e, buf)
           = SubSeq(Between(s, e, buf), n + 1, ringbuffer_get_used(s, e))
<1> DEFINE used == ringbuffer_get_used(s, e)
           old == Between(s, e, buf)
           S == Between(t, e, buf)
           T == SubSeq(old, n + 1, used)
<1>1. t \in Slots /\ ringbuffer_get_used(t, e) = used - n
      /\ used \in Nat /\ n \in Nat /\ n <= used
  BY RemoveType, UsedType, SizeAssumption
<1>2. S \in Seq(Byte) /\ Len(S) = used - n
      /\ \A i \in 1..used - n : S[i] = buf[Slot(t, i)]
  <2>1. /\ S \in Seq(Byte) /\ Len(S) = ringbuffer_get_used(t, e)
        /\ \A i \in 1..ringbuffer_get_used(t, e) : S[i] = buf[Slot(t, i)]
    BY <1>1, BetweenProperties
  <2> HIDE DEF S, used
  <2>2. QED
    BY <1>1, <2>1
<1>3. old \in Seq(Byte) /\ Len(old) = used
      /\ \A i \in 1..used : old[i] = buf[Slot(s, i)]
  BY BetweenProperties
<1>4. \A i \in n + 1..used : old[i] \in Byte
  BY <1>1, <1>3, ElementOfSeq
<1>5. T \in Seq(Byte) /\ Len(T) = used - n
      /\ \A i \in 1..used - n : T[i] = old[n + i]
  <2> HIDE DEF old, used
  <2>1. /\ T \in Seq(Byte)
        /\ Len(T) = IF n + 1 <= used THEN used - (n + 1) + 1 ELSE 0
        /\ \A i \in 1..used - (n + 1) + 1 : T[i] = old[(n + 1) + i - 1]
    BY <1>1, <1>4, SubSeqProperties
  <2>2. used - (n + 1) + 1 = used - n
        /\ \A i \in 1..used - n : (n + 1) + i - 1 = n + i
    BY <1>1
  <2> HIDE DEF T
  <2>3. Len(T) = used - n
    BY <1>1, <2>1
  <2>4. ASSUME NEW i \in 1..used - n PROVE T[i] = old[n + i]
    <3>1. T[i] = old[(n + 1) + i - 1]
      BY <2>1, <2>2
    <3>2. (n + 1) + i - 1 = n + i
      BY <2>2
    <3>3. QED
      BY <3>1, <3>2
  <2>5. QED
    BY <2>1, <2>3, <2>4
<1>6. ASSUME NEW i \in 1..used - n PROVE S[i] = T[i]
  <2>1. Slot(t, i) = Slot(s, n + i)
    BY SlotShift
  <2>2. n + i \in 1..used
    BY <1>1
  <2>3. QED
    BY <2>1, <2>2, <1>2, <1>3, <1>5
<1> HIDE DEF S, T, used
<1>7. QED
  BY <1>1, <1>2, <1>5, <1>6, SeqEqual DEF S, T, used

\* Taking the oldest byte is taking the head.
LEMMA GetIsHead ==
  ASSUME NEW s \in Slots, NEW e \in Slots, NEW buf \in [Slots -> Byte],
         s # e
  PROVE  /\ Between(s, e, buf) # <<>>
         /\ Head(Between(s, e, buf)) = buf[s]
         /\ Between(Bump(s), e, buf) = Tail(Between(s, e, buf))
<1> DEFINE used == ringbuffer_get_used(s, e)
           old == Between(s, e, buf)
<1>1. used \in 1..Size - 1
  BY UsedType
<1>2. old \in Seq(Byte) /\ Len(old) = used /\ old[1] = buf[Slot(s, 1)]
  BY <1>1, BetweenProperties
<1>3. old # <<>> /\ Head(old) = buf[s]
  <2>1. Slot(s, 1) = s
    BY SlotType
  <2>2. old # <<>>
    BY <1>1, <1>2
  <2> HIDE DEF old
  <2>3. QED
    BY <1>2, <2>1, <2>2
<1>4. Bump(s) = IF s + 1 >= Size THEN s + 1 - Size ELSE s + 1
  BY SizeAssumption DEF Bump, Slots
<1>5. 1 \in 0..Size - 1 /\ 1 <= used
  BY <1>1, SizeAssumption
<1>6. Between(Bump(s), e, buf) = SubSeq(old, 1 + 1, used)
  BY <1>4, <1>5, RemoveDrops
<1>7. Tail(old) = SubSeq(old, 2, Len(old))
  <2> HIDE DEF old
  <2>1. QED
    BY <1>2, <1>3, TailIsSubSeq
<1>8. QED
  BY <1>2, <1>3, <1>6, <1>7

\* ringbuffer_add appends a byte, or refuses it when the FIFO is full.
LEMMA AddStep ==
  ASSUME RbTypeOK, NEW b \in Byte, Add(b)
  PROVE  Fifo!Add(b)
<1> DEFINE old == Between(start, end, buffer)
<1>1. /\ start \in Slots /\ end \in Slots /\ buffer \in [Slots -> Byte]
      /\ start' = start /\ data' = data
      /\ buffer' = [buffer EXCEPT ![end] = b]
  BY DEF RbTypeOK, Add
<1>2. Len(old) = ringbuffer_get_used(start, end)
  BY <1>1, BetweenProperties
<1>3. ringbuffer_get_used(start, end) \in 0..Size - 1
  BY <1>1, UsedType
<1>4. CASE Bump(end) = start
  <2>1. end' = end /\ ok' = FALSE
    BY <1>1, <1>4, BumpType DEF Add, Overflow
  <2>2. ~(Len(old) < Size - 1)
    BY <1>1, <1>2, <1>3, <1>4, AddUsed, SizeAssumption
  <2>3. Between(start', end', buffer') = old
    BY <1>1, <2>1, OverflowKeeps
  <2> HIDE DEF old
  <2>4. QED
    BY <1>1, <2>1, <2>2, <2>3 DEF Fifo!Add, Contents, old
<1>5. CASE Bump(end) # start
  <2>1. end' = Bump(end) /\ ok' = TRUE
    BY <1>5 DEF Add, Overflow
  <2>2. Len(old) < Size - 1
    BY <1>1, <1>2, <1>3, <1>5, AddUsed, SizeAssumption
  <2>3. Between(start', end', buffer') = Append(old, b)
    BY <1>1, <1>5, <2>1, AddAppends
  <2> HIDE DEF old
  <2>4. QED
    BY <1>1, <2>1, <2>2, <2>3 DEF Fifo!Add, Contents, old
<1>6. QED
  BY <1>4, <1>5

\* ringbuffer_get takes the oldest byte, or reports that there is none.
LEMMA GetStep ==
  ASSUME RbTypeOK, Get
  PROVE  Fifo!Get
<1> DEFINE old == Between(start, end, buffer)
<1>1. /\ start \in Slots /\ end \in Slots /\ buffer \in [Slots -> Byte]
      /\ end' = end /\ buffer' = buffer
  BY DEF RbTypeOK, Get
<1>2. CASE start = end
  <2>1. start' = start /\ data' = data /\ ok' = FALSE
    BY <1>2 DEF Get
  <2>2. old = <<>>
    <3>1. ringbuffer_get_used(start, end) = 0
      BY <1>1, <1>2, UsedType
    <3>2. old \in Seq(Byte) /\ Len(old) = 0
      BY <1>1, <3>1, BetweenProperties
    <3>3. QED
      BY <3>2, EmptySeq
  <2>3. QED
    BY <1>1, <2>1, <2>2 DEF Fifo!Get, Contents
<1>3. CASE start # end
  <2>1. start' = Bump(start) /\ data' = buffer[start] /\ ok' = TRUE
    BY <1>3 DEF Get
  <2>2. /\ old # <<>> /\ Head(old) = buffer[start]
        /\ Between(Bump(start), end, buffer) = Tail(old)
    BY <1>1, <1>3, GetIsHead
  <2>3. QED
    BY <1>1, <2>1, <2>2 DEF Fifo!Get, Contents
<1>4. QED
  BY <1>2, <1>3

\* ringbuffer_remove drops the oldest bytes, no more than there are.
LEMMA RemoveStep ==
  ASSUME RbTypeOK, NEW num \in 0..Size, Remove(num)
  PROVE  Fifo!Remove(num)
<1> DEFINE old == Between(start, end, buffer)
           used == ringbuffer_get_used(start, end)
           incr == IF used < num THEN used ELSE num
<1>1. /\ start \in Slots /\ end \in Slots /\ buffer \in [Slots -> Byte]
      /\ end' = end /\ buffer' = buffer /\ ok' = ok /\ data' = data
      /\ start' = IF start + incr >= Size THEN start + incr - Size
                  ELSE start + incr
  BY DEF RbTypeOK, Remove
<1>2. used \in 0..Size - 1
  BY <1>1, UsedType
<1>3. incr \in 0..Size - 1 /\ incr <= used
  BY <1>2, SizeAssumption
<1>4. Between(start', end', buffer') = SubSeq(old, incr + 1, used)
  <2> HIDE DEF incr
  <2>1. QED
    BY <1>1, <1>3, RemoveDrops
<1>5. Len(old) = used
  BY <1>1, BetweenProperties
<1>6. CASE num >= used
  <2>1. incr = used
    BY <1>2, <1>6
  <2>2. SubSeq(old, incr + 1, used) = <<>>
    <3> HIDE DEF old, incr, used
    <3>1. QED
      BY <1>2, <2>1, SubSeqEmpty
  <2>3. QED
    BY <1>1, <1>4, <1>5, <1>6, <2>2 DEF Fifo!Remove, Contents
<1>7. CASE ~(num >= used)
  <2>1. incr = num
    BY <1>2, <1>7
  <2>2. QED
    BY <1>1, <1>4, <1>5, <1>7, <2>1 DEF Fifo!Remove, Contents
<1>8. QED
  BY <1>6, <1>7

\* The ring buffer, with its wrapping indices, its unused slot and its add that
\* is taken back, is the FIFO of Size - 1 bytes its users take it for.
THEOREM FifoRefinement == RbSpec => IsFifo
<1>1. RbInit => Fifo!Init
  <2> SUFFICES ASSUME RbInit PROVE Fifo!Init
    OBVIOUS
  <2>1. start \in Slots /\ end \in Slots /\ start = end
        /\ buffer \in [Slots -> Byte]
    BY SizeAssumption DEF RbInit, Slots
  <2>2. Between(start, end, buffer) = <<>>
    <3>1. ringbuffer_get_used(start, end) = 0
      BY <2>1, UsedType
    <3>2. Between(start, end, buffer) \in Seq(Byte)
          /\ Len(Between(start, end, buffer)) = 0
      BY <2>1, <3>1, BetweenProperties
    <3>3. QED
      BY <3>2, EmptySeq
  <2>3. QED
    BY <2>2 DEF RbInit, Fifo!Init, Contents
<1>2. RbTypeOK /\ [RbNext]_rbVars => [Fifo!Next]_(Fifo!fifoVars)
  <2> SUFFICES ASSUME RbTypeOK, [RbNext]_rbVars
               PROVE  Fifo!Next \/ UNCHANGED Fifo!fifoVars
    OBVIOUS
  <2>1. ASSUME NEW b \in Byte, Add(b) PROVE Fifo!Next
    BY <2>1, AddStep DEF Fifo!Next
  <2>2. CASE Get
    BY <2>2, GetStep DEF Fifo!Next
  <2>3. ASSUME NEW num \in 0..Size, Remove(num) PROVE Fifo!Next
    <3>1. (Size - 1) + 1 = Size
      BY SizeAssumption
    <3>2. QED
      BY <2>3, <3>1, RemoveStep DEF Fifo!Next
  <2>4. CASE GetFree
    BY <2>4 DEF GetFree, Fifo!fifoVars, Contents
  <2>5. CASE UNCHANGED rbVars
    BY <2>5 DEF rbVars, Fifo!fifoVars, Contents
  <2>6. QED
    BY <2>1, <2>2, <2>3, <2>4, <2>5 DEF RbNext
<1>3. QED
  BY <1>1, <1>2, RingTypeCorrect, PTL DEF RbSpec, IsFifo, Fifo!Spec
=============================================================================
