----------------------------- MODULE PartsProofs -----------------------------
(***************************************************************************)
(* Proofs about the parts that MCParts explores in one run: the TWI driver *)
(* (Twid), the flasher (XmcFlash) and the bytes of SPITFP (CoMcuFrame),    *)
(* and that these parts keep their types.  RingBuffer, SpiLegacy,          *)
(* Bricklets and SpiStack have modules of their own.                       *)
(***************************************************************************)
EXTENDS MCParts, RingBufferProofs, SpiLegacyProofs, BrickletsProofs,
        WellFoundedInduction

-----------------------------------------------------------------------------
(* Twid: the assertion of TWID_Handler, for transfers of any length and    *)
(* any number of calls, time-outs and late answers.                        *)

TwEvents == {"ENDRX", "ENDTX", "RXRDY", "TXRDY", "TXCOMP"}

\* One interrupt is enabled at a time, and none without a transfer.
OneInterrupt ==
  /\ twMask = {} \/ \E event \in TwEvents : twMask = {event}
  /\ twTransfer = "none" => twMask = {}

\* An event waits for the handler only with its interrupt enabled.
EventIsEnabled == twEvent # "none" => twEvent \in TwEvents /\ twMask = {twEvent}

\* A transfer by interrupts does not go beyond its length.
InBounds ==
  /\ twNum \in 0..TwMaxBytes /\ twDone \in 0..twNum
  /\ "RXRDY" \in twMask => twDone < twNum

States ==
  /\ twTransfer \in {"none", "stack", "caller"}
  /\ twStatus \in {"none", "pending", "done"}
  /\ twDevice \in {"idle", "read", "write", "missing"}
  /\ twWaiting \in {"none", "ENDRX", "ENDTX"}
  /\ twResult \in {"none", "ok", "busy", "timeout"}
  /\ twCalls \in 0..TwMaxCalls

TwInv == OneInterrupt /\ EventIsEnabled /\ InBounds /\ States

LEMMA TwInvInit == TwInit => TwInv
BY TwidAssumption
   DEF TwInit, TwInv, OneInterrupt, EventIsEnabled, InBounds, States

\* Without a transfer no interrupt is enabled and no event waits.
LEMMA QuietWithoutTransfer ==
  ASSUME TwInv, twTransfer = "none"
  PROVE  twMask = {} /\ twEvent = "none"
BY DEF TwInv, OneInterrupt, EventIsEnabled

\* A call starts a transfer only if there is none.
LEMMA CallKeepsInv == ASSUME TwInv, TwCall PROVE TwInv'
<1>c. twCalls' \in 0..TwMaxCalls
  BY TwidAssumption DEF TwCall, TwInv, States
<1>1. ASSUME TwRefused PROVE TwInv'
  BY <1>1, <1>c
     DEF TwRefused, TwInv, OneInterrupt, EventIsEnabled, InBounds, States
<1>2. ASSUME TwByte PROVE TwInv'
  BY <1>2, <1>c
     DEF TwByte, TwInv, OneInterrupt, EventIsEnabled, InBounds, States
<1>3. ASSUME NEW kind \in {"read", "write"}, NEW num \in 1..TwMaxBytes,
             TwStart(kind, num)
      PROVE TwInv'
  <2>1. twMask = {} /\ twEvent = "none"
    BY <1>3, QuietWithoutTransfer DEF TwStart
  <2>2. twMask' = {Ready(kind)} /\ twEvent' = "none" /\ twTransfer' = "caller"
    BY <1>3, <2>1 DEF TwStart
  <2>3. OneInterrupt' /\ EventIsEnabled'
    BY <2>2 DEF OneInterrupt, EventIsEnabled, TwEvents, Ready
  <2>4. InBounds'
    <3>1. /\ twNum' = num /\ twDone' = (IF kind = "read" THEN 0 ELSE 1)
          /\ "RXRDY" \in twMask' => kind = "read"
      BY <1>3, <2>2 DEF TwStart, Ready
    <3>2. num \in Nat /\ 1 <= num /\ num <= TwMaxBytes
      BY TwidAssumption
    <3> QED
      BY <3>1, <3>2, TwidAssumption DEF InBounds
  <2>5. States'
    BY <1>3, <1>c DEF TwStart, OnTheBus, TwInv, States
  <2> QED
    BY <2>3, <2>4, <2>5 DEF TwInv
<1>4. ASSUME NEW kind \in {"read", "write"}, NEW num \in 2..TwMaxBytes,
             TwDma(kind, num)
      PROVE TwInv'
  <2>1. twMask = {} /\ twEvent = "none"
    BY <1>4, QuietWithoutTransfer DEF TwDma
  <2>2. twMask' = {EndOf(kind)} /\ twEvent' = "none" /\ twTransfer' = "stack"
    BY <1>4, <2>1 DEF TwDma
  <2>3. OneInterrupt' /\ EventIsEnabled'
    BY <2>2 DEF OneInterrupt, EventIsEnabled, TwEvents, EndOf
  <2>4. InBounds'
    <3>1. /\ twNum' = num /\ twDone' = 0
          /\ "RXRDY" \notin twMask'
      BY <1>4, <2>2 DEF TwDma, EndOf
    <3>2. num \in Nat /\ 2 <= num /\ num <= TwMaxBytes
      BY TwidAssumption
    <3> QED
      BY <3>1, <3>2, TwidAssumption DEF InBounds
  <2>5. States'
    BY <1>4, <1>c DEF TwDma, OnTheBus, EndOf, TwInv, States
  <2> QED
    BY <2>3, <2>4, <2>5 DEF TwInv
<1> QED
  BY <1>1, <1>2, <1>3, <1>4 DEF TwCall

\* The end of a call leaves the transfer, the bus and the interrupts alone.
LEMMA ReturnKeepsInv == ASSUME TwInv, TwReturn PROVE TwInv'
BY DEF TwReturn, TwInv, OneInterrupt, EventIsEnabled, InBounds, States

\* The bus signals what is enabled.
LEMMA BusKeepsInv == ASSUME TwInv, TwBus PROVE TwInv'
<1>1. twEvent' \in twMask /\ twMask' = twMask /\ twTransfer' = twTransfer
  BY DEF TwBus
<1>2. OneInterrupt' /\ EventIsEnabled'
  BY <1>1 DEF TwInv, OneInterrupt, EventIsEnabled, TwEvents
<1>3. InBounds' /\ States'
  BY DEF TwBus, TwInv, InBounds, States
<1> QED
  BY <1>2, <1>3 DEF TwInv

\* The handler takes the transfer away only with its last interrupt.
LEMMA HandlerKeepsInv == ASSUME TwInv, TWID_Handler PROVE TwInv'
<1>u. UNCHANGED <<twDevice, twWaiting, twResult, twCalls>>
  BY DEF TWID_Handler
<1>e. twEvent \in TwEvents /\ twMask = {twEvent}
  BY DEF TWID_Handler, DmaEnds, ByteReceived, ByteSent, TransferComplete,
         TwInv, EventIsEnabled
<1>1. ASSUME DmaEnds PROVE TwInv'
  <2>1. twMask' = {} /\ twEvent' = "none" /\ UNCHANGED <<twNum, twDone>>
    BY <1>1, <1>e DEF DmaEnds, DisabledAfter
  <2>2. States'
    BY <1>1, <1>u DEF DmaEnds, TwInv, States
  <2> QED
    BY <2>1, <2>2 DEF TwInv, OneInterrupt, EventIsEnabled, InBounds
<1>2. ASSUME TransferComplete PROVE TwInv'
  <2>1. twMask' = {} /\ twEvent' = "none" /\ UNCHANGED <<twNum, twDone>>
    BY <1>2, <1>e DEF TransferComplete
  <2>2. States'
    BY <1>2, <1>u DEF TransferComplete, TwInv, States
  <2> QED
    BY <2>1, <2>2 DEF TwInv, OneInterrupt, EventIsEnabled, InBounds
<1>3. ASSUME ByteReceived PROVE TwInv'
  <2>1. /\ twMask = {"RXRDY"} /\ twEvent' = "none"
        /\ UNCHANGED <<twTransfer, twStatus, twNum>>
        /\ twDone' = twDone + 1
    BY <1>3, <1>e DEF ByteReceived
  <2>2. twMask' = IF twDone + 1 = twNum THEN {"TXCOMP"} ELSE {"RXRDY"}
    <3>1. ({"RXRDY"} \ {"RXRDY"}) \cup {"TXCOMP"} = {"TXCOMP"}
      OBVIOUS
    <3> QED
      BY <1>3, <2>1, <3>1 DEF ByteReceived
  <2>3. OneInterrupt' /\ EventIsEnabled'
    <3>1. twMask' \in {{"TXCOMP"}, {"RXRDY"}} /\ twTransfer # "none"
      BY <2>1, <2>2 DEF TwInv, OneInterrupt
    <3> QED
      BY <2>1, <3>1 DEF OneInterrupt, EventIsEnabled, TwEvents
  <2>4. InBounds'
    <3>1. twNum \in Nat /\ twNum <= TwMaxBytes /\ twDone \in Nat /\ twDone < twNum
      BY <2>1, TwidAssumption DEF TwInv, InBounds
    <3>2. "RXRDY" \in twMask' => twDone + 1 # twNum
      BY <2>2
    <3> QED
      BY <2>1, <3>1, <3>2, TwidAssumption DEF InBounds
  <2>5. States'
    BY <2>1, <1>u DEF TwInv, States
  <2> QED
    BY <2>3, <2>4, <2>5 DEF TwInv
<1>4. ASSUME ByteSent PROVE TwInv'
  <2>1. /\ twMask = {"TXRDY"} /\ twEvent' = "none"
        /\ UNCHANGED <<twTransfer, twStatus, twNum>>
    BY <1>4, <1>e DEF ByteSent
  <2>2. \/ /\ twDone = twNum /\ twDone' = twDone /\ twMask' = {"TXCOMP"}
        \/ /\ twDone # twNum /\ twDone' = twDone + 1 /\ twMask' = {"TXRDY"}
    <3>1. ({"TXRDY"} \ {"TXRDY"}) \cup {"TXCOMP"} = {"TXCOMP"}
      OBVIOUS
    <3> QED
      BY <1>4, <2>1, <3>1 DEF ByteSent
  <2>3. OneInterrupt' /\ EventIsEnabled'
    <3>1. twMask' \in {{"TXCOMP"}, {"TXRDY"}} /\ twTransfer # "none"
      BY <2>1, <2>2 DEF TwInv, OneInterrupt
    <3> QED
      BY <2>1, <3>1 DEF OneInterrupt, EventIsEnabled, TwEvents
  <2>4. InBounds'
    <3>1. twNum \in Nat /\ twNum <= TwMaxBytes /\ twDone \in Nat /\ twDone <= twNum
      BY TwidAssumption DEF TwInv, InBounds
    <3>2. "RXRDY" \notin twMask'
      BY <2>2
    <3> QED
      BY <2>1, <2>2, <3>1, <3>2, TwidAssumption DEF InBounds
  <2>5. States'
    BY <2>1, <1>u DEF TwInv, States
  <2> QED
    BY <2>3, <2>4, <2>5 DEF TwInv
<1> QED
  BY <1>1, <1>2, <1>3, <1>4 DEF TWID_Handler

\* Every step keeps the invariant.
LEMMA TwInvStep == TwInv /\ [TwNext]_twVars => TwInv'
<1> SUFFICES ASSUME TwInv, [TwNext]_twVars PROVE TwInv'
  OBVIOUS
<1>1. CASE UNCHANGED twVars
  BY <1>1 DEF twVars, TwInv, OneInterrupt, EventIsEnabled, InBounds, States
<1> QED
  BY <1>1, CallKeepsInv, ReturnKeepsInv, BusKeepsInv, HandlerKeepsInv DEF TwNext

\* At most one interrupt of the peripheral is enabled at any time, it is the
\* one of an event that waits, and no transfer goes beyond its length.
THEOREM InterruptInvariant == TwSpec => []TwInv
BY TwInvInit, TwInvStep, PTL DEF TwSpec

\* Type correctness of the driver.
THEOREM TwTypeCorrect == TwSpec => []TwTypeOK
<1>1. TwInv => TwTypeOK
  BY TwidAssumption
     DEF TwInv, OneInterrupt, EventIsEnabled, InBounds, States, TwEvents, TwTypeOK
<1> QED
  BY <1>1, InterruptInvariant, PTL

\* "assert( pTransfer != NULL )" in TWID_Handler holds: no interrupt is enabled
\* without a transfer.
THEOREM AssertionHolds == TwSpec => []HandlerHasTransfer
<1>1. TwInv => HandlerHasTransfer
  BY DEF TwInv, OneInterrupt, HandlerHasTransfer
<1> QED
  BY <1>1, InterruptInvariant, PTL

-----------------------------------------------------------------------------
(* XmcFlash: what no order of calls can make the flasher do, for every     *)
(* size of the two images and every content of a chunk.                    *)

\* While nothing has switched the tick off, no write was ever started: nothing
\* is there of the bootloader, whose length is that of its buffer.
NoWriteYet ==
  xcTick => xcType = Strap /\ xcRecv[Load] = 0 /\ xcLength[Load] = XcMaxLoad

Counters ==
  /\ xcRecv \in [Images -> Nat]
  /\ xcLength \in [Images -> Nat]
  /\ xcType \in Images
  /\ \A type \in Images : xcRecv[type] <= XcMax(type)

OrderInv == Counters /\ NoWriteYet /\ DrivenAlone

\* An image has a buffer of at least one chunk.
LEMMA BufferSizes ==
  /\ Strap # Load /\ Images = {Strap, Load}
  /\ \A type \in Images : XcMax(type) \in Nat \ {0}
  /\ XcMax(Load) = XcMaxLoad
BY XmcAssumption DEF XcMax, Strap, Load, Images

LEMMA OrderInit == XcInit => OrderInv
<1> SUFFICES ASSUME XcInit PROVE OrderInv
  OBVIOUS
<1>1. Counters
  BY BufferSizes DEF XcInit, Counters
<1>2. NoWriteYet
  BY BufferSizes DEF XcInit, NoWriteYet
<1>3. DrivenAlone
  BY DEF XcInit, DrivenAlone
<1> QED
  BY <1>1, <1>2, <1>3 DEF OrderInv

\* Every call keeps the counters in their ranges, and the flasher drives a pin
\* only when both images are there, which takes a write of the bootloader.
LEMMA OrderStep == OrderInv /\ [XcNext]_xcVars => OrderInv'
<1> SUFFICES ASSUME OrderInv, [XcNext]_xcVars PROVE OrderInv'
  OBVIOUS
<1> USE DEF OrderInv
<1>1. ASSUME NEW type \in Images, NEW length \in 0..XcMax(type) + 1,
             StartWrite(type, length)
      PROVE OrderInv'
  <2>1. ~xcTick'
    BY <1>1 DEF StartWrite
  <2>2. Counters'
    <3>1. length \in Nat
      BY BufferSizes
    <3>2. /\ xcRecv' = [xcRecv EXCEPT ![type] = 0]
          /\ xcLength' = [xcLength EXCEPT ![type] = length]
          /\ xcType' = type
      BY <1>1 DEF StartWrite, StartedAt
    <3> QED
      BY <3>1, <3>2, BufferSizes DEF Counters
  <2> QED
    BY <2>1, <2>2 DEF NoWriteYet, DrivenAlone
<1>2. ASSUME Flash PROVE OrderInv'
  <2>1. UNCHANGED <<xcRecv, xcLength, xcType, xcTick>>
    BY <1>2 DEF Flash
  <2>2. Counters' /\ NoWriteYet'
    BY <2>1 DEF Counters, NoWriteYet
  <2>3. ASSUME xcTick PROVE xcPins' = "input"
    <3>1. Load \in Missing(xcRecv, xcLength)
      BY <2>3, BufferSizes DEF NoWriteYet, Missing
    <3>2. xcRet' \in {2, 3}
      BY <1>2, <3>1 DEF Flash
    <3> QED
      BY <1>2, <3>2 DEF Flash
  <2> QED
    BY <2>1, <2>2, <2>3 DEF DrivenAlone
<1>3. ASSUME UnknownConfig PROVE OrderInv'
  BY <1>3 DEF UnknownConfig, Counters, NoWriteYet, DrivenAlone
<1>4. ASSUME NEW chunk \in XcChunks \ {0}, FlashData(chunk) PROVE OrderInv'
  <2>1. UNCHANGED <<xcLength, xcType, xcTick, xcPins>>
    BY <1>4 DEF FlashData
  <2>2. \/ UNCHANGED xcRecv
        \/ /\ xcRecv[xcType] + 1 <= XcMax(xcType)
           /\ xcRecv' = [xcRecv EXCEPT ![xcType] = @ + 1]
    BY <1>4, BufferSizes DEF FlashData, Counters
  <2>3. Counters'
    BY <2>1, <2>2, BufferSizes DEF Counters
  <2>4. NoWriteYet'
    BY <2>1, <2>2, BufferSizes DEF NoWriteYet, Counters
  <2> QED
    BY <2>1, <2>3, <2>4 DEF DrivenAlone
<1>5. CASE UNCHANGED xcVars
  BY <1>5 DEF xcVars, Counters, NoWriteYet, DrivenAlone
<1> QED
  BY <1>1, <1>2, <1>3, <1>4, <1>5 DEF XcNext

THEOREM OrderInvariant == XcSpec => []OrderInv
BY OrderInit, OrderStep, PTL DEF XcSpec

\* No order of calls lets the flasher drive a pin of port D while the tick of
\* the CoMCU protocol may talk there: bricklet_xmc_flash_config writes to the
\* Bricklet only when both images are complete, and the bootloader's never is
\* before a write of it has switched the tick off.
THEOREM DrivesAlone == XcSpec => []DrivenAlone
BY OrderInvariant, PTL DEF OrderInv

-----------------------------------------------------------------------------
(* The contents of the buffers.                                            *)

Buffers ==
  /\ xcBuffer \in [Images -> Seq(XcChunks)]
  /\ \A type \in Images : Len(xcBuffer[type]) = XcMax(type)

Sessions ==
  /\ xcSession \in [Images -> Seq(XcChunks)]
  /\ \A type \in Images : Len(xcSession[type]) = xcRecv[type]

\* The chunks received since the write of an image was started are the first
\* ones of its buffer; what an older write left can only be behind them.
BufferedAsSent ==
  \A type \in Images : \A i \in 1..xcRecv[type] :
    xcBuffer[type][i] = xcSession[type][i]

\* Behind the longest bootloader so far its buffer is what the memory held.
RestUntouched ==
  /\ xcLongest \in Nat
  /\ xcRecv[Load] <= xcLongest /\ xcLongest <= XcMaxLoad
  /\ \A i \in 1..XcMaxLoad : i > xcLongest => xcBuffer[Load][i] = 0

ImageInv == Buffers /\ Sessions /\ BufferedAsSent /\ RestUntouched /\ FlashedAsSent

LEMMA ImageInit == XcInit => ImageInv
<1> SUFFICES ASSUME XcInit PROVE ImageInv
  OBVIOUS
<1>1. ASSUME NEW type \in Images
      PROVE /\ [i \in 1..XcMax(type) |-> 0] \in Seq(XcChunks)
            /\ Len([i \in 1..XcMax(type) |-> 0]) = XcMax(type)
  BY BufferSizes, XmcAssumption
<1>2. Buffers
  BY <1>1 DEF XcInit, Buffers
<1>3. Sessions
  BY DEF XcInit, Sessions
<1>4. BufferedAsSent
  BY DEF XcInit, BufferedAsSent
<1>5. FlashedAsSent
  BY DEF XcInit, FlashedAsSent
<1>6. RestUntouched
  BY BufferSizes DEF XcInit, RestUntouched
<1> QED
  BY <1>2, <1>3, <1>4, <1>5, <1>6 DEF ImageInv

\* Two sequences that agree up to n have the same first n elements.
LEMMA SamePrefix ==
  ASSUME NEW S, NEW s \in Seq(S), NEW t \in Seq(S), NEW n \in Nat,
         n <= Len(s), n <= Len(t), \A i \in 1..n : s[i] = t[i]
  PROVE  SubSeq(s, 1, n) = SubSeq(t, 1, n)
<1> DEFINE a == SubSeq(s, 1, n)
           b == SubSeq(t, 1, n)
<1>1. a \in Seq(S) /\ b \in Seq(S) /\ Len(a) = n /\ Len(b) = n
  OBVIOUS
<1>2. \A i \in 1..n : a[i] = s[i] /\ b[i] = t[i]
  OBVIOUS
<1> HIDE DEF a, b
<1>3. a = b
  BY <1>1, <1>2
<1> QED
  BY <1>3 DEF a, b

\* A call that leaves the buffers alone and flashes nothing.
LEMMA ImageUnchanged ==
  ASSUME ImageInv, UNCHANGED <<xcBuffer, xcRecv, xcSession, xcLongest>>,
         xcChip' = NotFlashed
  PROVE  ImageInv'
BY DEF ImageInv, Buffers, Sessions, BufferedAsSent, RestUntouched, FlashedAsSent, NotFlashed

LEMMA ImageStep == OrderInv /\ ImageInv /\ [XcNext]_xcVars => ImageInv'
<1> SUFFICES ASSUME OrderInv, ImageInv, [XcNext]_xcVars PROVE ImageInv'
  OBVIOUS
<1>c. Counters /\ Buffers /\ Sessions /\ BufferedAsSent /\ RestUntouched
  BY DEF OrderInv, ImageInv
<1>1. ASSUME NEW type \in Images, NEW length \in 0..XcMax(type) + 1,
             StartWrite(type, length)
      PROVE ImageInv'
  <2>1. /\ xcRecv' = [xcRecv EXCEPT ![type] = 0]
        /\ xcSession' = [xcSession EXCEPT ![type] = <<>>]
        /\ xcBuffer' = xcBuffer /\ xcLongest' = xcLongest
        /\ xcChip' = NotFlashed
    BY <1>1 DEF StartWrite, StartedAt
  <2>2. Buffers'
    BY <2>1, <1>c DEF Buffers
  <2>3. Sessions'
    BY <2>1, <1>c DEF Sessions, Counters
  <2>4. BufferedAsSent'
    BY <2>1, <1>c DEF BufferedAsSent, Counters, Sessions
  <2>5. FlashedAsSent'
    BY <2>1 DEF FlashedAsSent, NotFlashed
  <2>6. RestUntouched'
    BY <2>1, <1>c, BufferSizes DEF RestUntouched, Counters
  <2> QED
    BY <2>2, <2>3, <2>4, <2>5, <2>6 DEF ImageInv
<1>2. ASSUME Flash PROVE ImageInv'
  <2>1. UNCHANGED <<xcBuffer, xcRecv, xcLength, xcSession, xcLongest>>
    BY <1>2 DEF Flash
  <2>2. Buffers' /\ Sessions' /\ BufferedAsSent' /\ RestUntouched'
    BY <2>1, <1>c DEF Buffers, Sessions, BufferedAsSent, RestUntouched
  <2> SUFFICES ASSUME xcChip' # NotFlashed PROVE FlashedAsSent'
    BY <2>2 DEF ImageInv, FlashedAsSent
  <2>3. Missing(xcRecv, xcLength) = {}
    BY <1>2 DEF Flash
  <2>4. \A type \in Images : /\ xcLength[type] \in Nat /\ xcRecv[type] \in Nat
                             /\ xcLength[type] <= xcRecv[type]
                             /\ xcRecv[type] <= XcMax(type)
                             /\ Len(xcSession[type]) = xcRecv[type]
    BY <2>3, <1>c DEF Missing, Counters, Sessions
  <2>5. /\ xcChip'[Strap] = SubSeq(xcBuffer[Strap], 1, StrapWritten(xcLength[Strap]))
        /\ xcChip'[Load] = xcBuffer[Load]
    <3>1. xcRet' = 0
      BY <1>2, <2>3 DEF Flash
    <3> QED
      BY <1>2, <2>3, <3>1, BufferSizes DEF Flash
  <2>6. ASSUME xcLength[Strap] # 0
        PROVE  xcChip'[Strap] = SubSeq(xcSession[Strap], 1, xcLength[Strap])
    <3> DEFINE n == xcLength[Strap]
               s == xcBuffer[Strap]
               u == xcSession[Strap]
    <3>1. /\ n \in Nat /\ n <= Len(u) /\ n <= Len(s)
          /\ u \in Seq(XcChunks) /\ s \in Seq(XcChunks)
      BY <2>4, <1>c, BufferSizes DEF Sessions, Buffers
    <3>2. \A i \in 1..n : s[i] = u[i]
      BY <2>4, <1>c, BufferSizes DEF BufferedAsSent
    <3>3. xcChip'[Strap] = SubSeq(s, 1, n)
      BY <2>5, <2>6 DEF StrapWritten
    <3> HIDE DEF n, s, u
    <3>4. SubSeq(s, 1, n) = SubSeq(u, 1, n)
      BY <3>1, <3>2, SamePrefix
    <3> QED
      BY <3>3, <3>4 DEF n, u
  <2>7. ASSUME NEW i \in 1..XcMaxLoad
        PROVE  /\ i <= Len(xcSession[Load]) => xcChip'[Load][i] = xcSession[Load][i]
               /\ i > xcLongest => xcChip'[Load][i] = 0
    <3>1. i <= Len(xcSession[Load]) => xcBuffer[Load][i] = xcSession[Load][i]
      BY <2>4, <1>c, BufferSizes DEF BufferedAsSent
    <3>2. i > xcLongest => xcBuffer[Load][i] = 0
      BY <1>c DEF RestUntouched
    <3> QED
      BY <3>1, <3>2, <2>5
  <2> QED
    BY <2>1, <2>4, <2>6, <2>7 DEF FlashedAsSent
<1>3. ASSUME UnknownConfig PROVE ImageInv'
  BY <1>3, ImageUnchanged DEF UnknownConfig
<1>4. ASSUME NEW chunk \in XcChunks \ {0}, FlashData(chunk) PROVE ImageInv'
  <2>1. xcChip' = NotFlashed
    BY <1>4 DEF FlashData
  <2>2. CASE UNCHANGED <<xcBuffer, xcRecv, xcSession, xcLongest>>
    BY <2>1, <2>2, ImageUnchanged
  <2>3. CASE ~UNCHANGED <<xcBuffer, xcRecv, xcSession, xcLongest>>
    <3> DEFINE ty == xcType
               n == xcRecv[xcType] + 1
    <3>1. /\ ~(n > XcMax(ty))
          /\ xcBuffer' = [xcBuffer EXCEPT ![ty][n] = chunk]
          /\ xcRecv' = [xcRecv EXCEPT ![ty] = n]
          /\ xcSession' = [xcSession EXCEPT ![ty] = Append(@, chunk)]
          /\ xcLongest' = IF Len(xcSession'[Load]) > xcLongest
                          THEN Len(xcSession'[Load]) ELSE xcLongest
      BY <1>4, <2>3 DEF FlashData
    <3>2. ty \in Images /\ n \in Nat \ {0} /\ n <= XcMax(ty) /\ XcMax(ty) \in Nat
      BY <3>1, <1>c, BufferSizes DEF Counters
    <3>3. /\ xcBuffer[ty] \in Seq(XcChunks) /\ Len(xcBuffer[ty]) = XcMax(ty)
          /\ xcSession[ty] \in Seq(XcChunks) /\ Len(xcSession[ty]) = n - 1
          /\ \A i \in 1..(n - 1) : xcBuffer[ty][i] = xcSession[ty][i]
      BY <3>2, <1>c DEF Buffers, Sessions, BufferedAsSent, Counters
    <3>4. /\ xcBuffer'[ty] = [xcBuffer[ty] EXCEPT ![n] = chunk]
          /\ xcRecv'[ty] = n
          /\ xcSession'[ty] = Append(xcSession[ty], chunk)
          /\ \A t \in Images : t # ty => /\ xcBuffer'[t] = xcBuffer[t]
                                         /\ xcRecv'[t] = xcRecv[t]
                                         /\ xcSession'[t] = xcSession[t]
          /\ DOMAIN xcBuffer' = Images /\ DOMAIN xcSession' = Images
          /\ xcBuffer' = [t \in Images |-> xcBuffer'[t]]
          /\ xcSession' = [t \in Images |-> xcSession'[t]]
      BY <3>1, <3>2, <1>c DEF Counters, Buffers, Sessions
    <3> HIDE DEF ty, n
    <3>5. /\ xcBuffer'[ty] \in Seq(XcChunks) /\ Len(xcBuffer'[ty]) = XcMax(ty)
          /\ xcSession'[ty] \in Seq(XcChunks) /\ Len(xcSession'[ty]) = xcRecv'[ty]
      BY <3>2, <3>3, <3>4
    <3>6. \A i \in 1..n : xcBuffer'[ty][i] = xcSession'[ty][i]
      BY <3>2, <3>3, <3>4
    <3>7. Buffers'
      BY <3>4, <3>5, <1>c DEF Buffers
    <3>8. Sessions'
      BY <3>4, <3>5, <1>c DEF Sessions
    <3>9. BufferedAsSent'
      <4>1. ASSUME NEW t \in Images, t # ty
            PROVE \A i \in 1..xcRecv'[t] : xcBuffer'[t][i] = xcSession'[t][i]
        BY <3>4, <4>1, <1>c DEF BufferedAsSent
      <4>2. \A i \in 1..xcRecv'[ty] : xcBuffer'[ty][i] = xcSession'[ty][i]
        BY <3>4, <3>6
      <4> QED
        BY <4>1, <4>2 DEF BufferedAsSent
    <3>10. FlashedAsSent'
      BY <2>1 DEF FlashedAsSent, NotFlashed
    <3>11. RestUntouched'
      <4>1. /\ xcRecv'[Load] \in Nat /\ xcRecv'[Load] <= XcMaxLoad
            /\ Len(xcSession'[Load]) = xcRecv'[Load]
        BY <3>2, <3>4, <3>5, <1>c, BufferSizes DEF Sessions, Counters
      <4>2. /\ xcLongest' \in Nat /\ xcLongest <= xcLongest'
            /\ xcRecv'[Load] <= xcLongest' /\ xcLongest' <= XcMaxLoad
        BY <3>1, <4>1, <1>c DEF RestUntouched
      <4>3. ASSUME NEW i \in 1..XcMaxLoad, i > xcLongest'
            PROVE  xcBuffer'[Load][i] = 0
        <5>1. xcBuffer[Load][i] = 0
          BY <4>2, <4>3, <1>c DEF RestUntouched
        <5>2. CASE ty = Load
          <6>1. n <= xcLongest'
            BY <3>4, <4>2, <5>2
          <6>2. i # n
            BY <4>2, <4>3, <6>1, <3>2
          <6>3. xcBuffer[ty] \in Seq(XcChunks) /\ Len(xcBuffer[ty]) = XcMaxLoad
            BY <3>3, <5>2, BufferSizes
          <6>4. i \in DOMAIN xcBuffer[ty]
            BY <6>3
          <6>5. xcBuffer'[ty][i] = xcBuffer[ty][i]
            BY <3>4, <6>2, <6>4
          <6> QED
            BY <5>1, <5>2, <6>5
        <5>3. CASE ty # Load
          BY <3>4, <5>1, <5>3, BufferSizes
        <5> QED
          BY <5>2, <5>3
      <4> QED
        BY <4>2, <4>3 DEF RestUntouched
    <3> QED
      BY <3>7, <3>8, <3>9, <3>10, <3>11 DEF ImageInv
  <2> QED
    BY <2>2, <2>3
<1>5. CASE UNCHANGED xcVars
  BY <1>5 DEF xcVars, ImageInv, Buffers, Sessions, BufferedAsSent, RestUntouched,
              FlashedAsSent, NotFlashed
<1> QED
  BY <1>1, <1>2, <1>3, <1>4, <1>5 DEF XcNext

\* When flashing succeeds both images are on the Bricklet as they were sent since
\* their writes were started last.  Behind the bootloader there is at most what an
\* older, longer one has left: behind the longest there is what the memory held,
\* whatever the order of the calls was (bricklet_xmc_flash_data).
THEOREM FlashesAsSent == XcSpec => []FlashedAsSent
<1>1. XcInit => OrderInv /\ ImageInv
  BY OrderInit, ImageInit
<1>2. OrderInv /\ ImageInv /\ [XcNext]_xcVars => (OrderInv /\ ImageInv)'
  BY OrderStep, ImageStep
<1>3. ImageInv => FlashedAsSent
  BY DEF ImageInv
<1> QED
  BY <1>1, <1>2, <1>3, PTL DEF XcSpec

\* The rest of the types: a length may be one more than its buffer holds.
XcRanges ==
  /\ \A type \in Images : xcLength[type] \in 0..XcMax(type) + 1
  /\ xcTick \in BOOLEAN
  /\ xcPins \in {"before", "input", "driven"}
  /\ xcRet \in 0..7

\* The buffers keep their sizes, and the counters of the flasher their ranges,
\* whatever order the calls come in (bricklet_xmc_flash_config,
\* bricklet_xmc_flash_data).
THEOREM XcTypeCorrect == XcSpec => []XcTypeOK
<1>1. XcInit => XcRanges
  BY BufferSizes DEF XcInit, XcRanges
<1>2. OrderInv /\ XcRanges /\ [XcNext]_xcVars => XcRanges'
  <2> SUFFICES ASSUME OrderInv, XcRanges, [XcNext]_xcVars PROVE XcRanges'
    OBVIOUS
  <2>1. ASSUME NEW type \in Images, NEW length \in 0..XcMax(type) + 1,
               StartWrite(type, length)
        PROVE  XcRanges'
    <3>1. /\ xcLength' = [xcLength EXCEPT ![type] = length]
          /\ xcLength \in [Images -> Nat]
      BY <2>1 DEF StartWrite, OrderInv, Counters
    <3>2. \A other \in Images : xcLength'[other] \in 0..XcMax(other) + 1
      BY <2>1, <3>1 DEF XcRanges
    <3>3. ~xcTick' /\ xcTick' \in BOOLEAN /\ xcPins' = "input" /\ xcRet' = 0
      BY <2>1 DEF StartWrite
    <3>4. QED
      BY <3>2, <3>3 DEF XcRanges
  <2>2. CASE Flash \/ UnknownConfig
    BY <2>2 DEF Flash, UnknownConfig, XcRanges
  <2>3. ASSUME NEW chunk \in XcChunks \ {0}, FlashData(chunk) PROVE XcRanges'
    BY <2>3 DEF FlashData, XcRanges
  <2>4. CASE UNCHANGED xcVars
    BY <2>4 DEF xcVars, XcRanges
  <2>5. QED
    BY <2>1, <2>2, <2>3, <2>4 DEF XcNext
<1>3. OrderInv /\ ImageInv /\ XcRanges => XcTypeOK
  <2> SUFFICES ASSUME OrderInv, ImageInv, XcRanges PROVE XcTypeOK
    OBVIOUS
  <2>1. ASSUME NEW type \in Images
        PROVE  /\ xcBuffer[type] \in [1..XcMax(type) -> XcChunks]
               /\ xcRecv[type] \in 0..XcMax(type)
               /\ \A i \in 1..Len(xcSession[type]) : xcSession[type][i] \in XcChunks
    <3>1. /\ xcBuffer[type] \in Seq(XcChunks) /\ Len(xcBuffer[type]) = XcMax(type)
          /\ xcSession[type] \in Seq(XcChunks)
      BY DEF ImageInv, Buffers, Sessions
    <3>2. xcRecv[type] \in 0..XcMax(type)
      BY BufferSizes DEF OrderInv, Counters
    <3>3. xcBuffer[type] \in [1..XcMax(type) -> XcChunks]
      <4>1. xcBuffer[type] \in [1..Len(xcBuffer[type]) -> XcChunks]
        BY <3>1, LenProperties, Zenon
      <4>2. QED
        BY <3>1, <4>1, Zenon
    <3>4. \A i \in 1..Len(xcSession[type]) : xcSession[type][i] \in XcChunks
      BY <3>1, ElementOfSeq
    <3>5. QED
      BY <3>2, <3>3, <3>4
  <2>2. xcLongest \in 0..XcMaxLoad
    BY XmcAssumption DEF ImageInv, RestUntouched
  <2>3. QED
    BY <2>1, <2>2 DEF XcTypeOK, XcRanges, OrderInv, Counters
<1>4. QED
  BY <1>1, <1>2, <1>3, OrderInit, OrderStep, ImageInit, ImageStep, PTL DEF XcSpec

-----------------------------------------------------------------------------
(* CoMcuFrame: types, for every content of the frames and every damage.    *)

FrBytes == [kind : {"gap", "msg", "ack", "bad"}, value : FrValues, at : Nat,
            msg : 0..FrMaxUp, ack : 0..FrMaxDown]

\* What is in the ring buffer and on the line are bytes, and there is something
\* left to clock of a frame that is being sent.
FrTypeInv ==
  /\ FrTypeOK
  /\ frRing \in Seq(FrBytes) /\ frOut \in Seq(FrBytes)
  /\ frPc \in {"send", "ack"} => frLeft > 0

\* A set of natural numbers has a least one.
LEMMA LeastElement ==
  ASSUME NEW S, S \subseteq Nat, S # {}
  PROVE  \E n \in S : \A m \in S : n <= m
<1> DEFINE R == OpToRel(<, Nat)
<1>1. IsWellFoundedOn(R, Nat)
  BY NatLessThanWellFounded
<1>2. R = {pair \in Nat \X Nat : pair[1] < pair[2]}
  BY DEF OpToRel
<1> HIDE DEF R
<1>3. PICK n \in S : \A m \in S : ~(<<m, n>> \in R)
  BY <1>1, WFMin
<1>4. ASSUME NEW m \in S, m < n PROVE FALSE
  <2>1. <<m, n>> \in {pair \in Nat \X Nat : pair[1] < pair[2]}
    BY <1>4
  <2>2. QED
    BY <1>2, <1>3, <2>1, Zenon
<1>5. QED
  BY <1>3, <1>4

\* The constants.
LEMMA FrConstants ==
  /\ FrValues \subseteq Nat /\ 0 \in FrValues /\ FrOverhead \in FrValues
  /\ FrUpLength \in FrValues
  /\ FrOverhead = 3 /\ FrUpLength > 3 /\ FrUpLength <= FrMax
  /\ FrDownLength > 0 /\ FrDownLength <= FrMax /\ FrMax < FrSize
  /\ FrMax \in Nat /\ FrSize \in Nat /\ FrUpLength \in Nat /\ FrDownLength \in Nat
BY FrameAssumption DEF FrValues, FrOverhead

\* A suffix, or the first bytes.
LEMMA PartOfRing ==
  ASSUME NEW S, NEW s \in Seq(S), NEW m \in 1..Len(s) + 1, NEW n \in 0..Len(s)
  PROVE  /\ SubSeq(s, m, n) \in Seq(S)
         /\ Len(SubSeq(s, m, n)) <= Len(s)
         /\ m <= n => SubSeq(s, m, n)[1] = s[m]
<1>1. Len(s) \in Nat
  BY LenProperties
<1>2. m \in Int /\ n \in Int /\ \A i \in m..n : s[i] \in S
  BY <1>1, ElementOfSeq
<1>3. /\ SubSeq(s, m, n) \in Seq(S)
      /\ Len(SubSeq(s, m, n)) = IF m <= n THEN n - m + 1 ELSE 0
      /\ \A i \in 1..n - m + 1 : SubSeq(s, m, n)[i] = s[m + i - 1]
  BY <1>2, SubSeqProperties
<1>4. m <= n => 1 \in 1..n - m + 1 /\ m + 1 - 1 = m
  BY <1>1
<1>5. QED
  BY <1>1, <1>3, <1>4

\* bricklet_co_mcu_check_missing_length removes bytes.
LEMMA FromLengthType ==
  ASSUME NEW ring \in Seq(FrBytes)
  PROVE  /\ FromLength(ring) \in Seq(FrBytes)
         /\ Len(FromLength(ring)) <= Len(ring)
<1> DEFINE starts == {i \in 1..Len(ring) : IsLength(ring[i].value)}
           first == CHOOSE i \in starts : \A j \in starts : i <= j
<1>1. Len(ring) \in Nat
  BY LenProperties
<1>2. CASE starts = {}
  BY <1>1, <1>2 DEF FromLength
<1>3. CASE starts # {}
  <2>1. starts \subseteq Nat
    BY <1>1
  <2>2. first \in starts
    <3> HIDE DEF starts
    <3>1. \E i \in starts : \A j \in starts : i <= j
      BY <1>3, <2>1, LeastElement
    <3>2. QED
      BY <3>1
  <2>3. FromLength(ring) = SubSeq(ring, first, Len(ring))
    BY <1>3 DEF FromLength
  <2>4. first \in 1..Len(ring) + 1 /\ Len(ring) \in 0..Len(ring)
    BY <1>1, <2>2
  <2> HIDE DEF first
  <2>5. QED
    BY <2>3, <2>4, PartOfRing
<1>4. QED
  BY <1>2, <1>3

\* A function on 1..n is a sequence of n elements.
LEMMA FunctionIsSequence ==
  ASSUME NEW S, NEW n \in Nat, NEW f \in [1..n -> S]
  PROVE  f \in Seq(S) /\ Len(f) = n
OBVIOUS

\* A frame is a sequence of bytes.
LEMMA FrameType ==
  ASSUME FrTypeInv, NEW kind \in {"msg", "ack"},
         NEW length \in {FrUpLength, FrOverhead},
         NEW msg \in 0..FrMaxUp, NEW ack \in 0..FrMaxDown
  PROVE  /\ Frame(kind, length, msg, ack) \in Seq(FrBytes)
         /\ Len(Frame(kind, length, msg, ack)) = length /\ length \in 1..FrMax
<1>1. length \in Nat /\ length \in 1..FrMax /\ length <= FrUpLength
      /\ length \in FrValues
  BY FrConstants
<1>2. ASSUME NEW i \in 1..length
      PROVE  (IF i = 1 THEN length ELSE frLook[i]) \in FrValues
  <2>1. CASE i = 1
    BY <1>1, <2>1
  <2>2. CASE i # 1
    <3>1. frLook \in [2..FrUpLength -> FrValues] /\ i \in 2..FrUpLength
      BY <1>1, <1>2, <2>2, FrameAssumption DEF FrTypeInv, FrTypeOK
    <3>2. QED
      BY <2>2, <3>1
  <2>3. QED
    BY <2>1, <2>2
<1>3. ASSUME NEW i \in 1..length
      PROVE  FrByte(kind, IF i = 1 THEN length ELSE frLook[i], i, msg, ack) \in FrBytes
  <2>1. i \in Nat
    BY <1>1
  <2>2. QED
    BY <1>2, <2>1 DEF FrByte, FrBytes
<1>4. Frame(kind, length, msg, ack) \in [1..length -> FrBytes]
  BY <1>3 DEF Frame
<1>5. Frame(kind, length, msg, ack) \in Seq(FrBytes)
      /\ Len(Frame(kind, length, msg, ack)) = length
  BY <1>1, <1>4, FunctionIsSequence
<1>6. QED
  BY <1>1, <1>5

\* What the Bricklet sends.
LEMMA SendingType ==
  ASSUME FrTypeInv, NEW out \in Sending
  PROVE  out \in Seq(FrBytes) /\ out # <<>> /\ Len(out) <= FrMax
<1>1. CASE out = frOut /\ frOut # <<>>
  <2>1. Len(frOut) \in Nat
    BY LenProperties DEF FrTypeInv
  <2>2. QED
    BY <1>1, <2>1, FrConstants DEF FrTypeInv, FrTypeOK
<1>2. CASE out \in Messages
  <2>1. /\ out = Frame("msg", FrUpLength, frUp, frSeen)
        /\ frUp \in 0..FrMaxUp /\ frSeen \in 0..FrMaxDown
    BY <1>2, FrameAssumption DEF Messages, FrTypeInv, FrTypeOK
  <2>2. out \in Seq(FrBytes) /\ Len(out) = FrUpLength /\ FrUpLength \in 1..FrMax
    BY <2>1, FrameType
  <2>3. Len(out) \in 1..FrMax
    BY <2>2
  <2>4. Len(out) <= FrMax /\ Len(out) # 0
    BY <2>3, FrConstants
  <2>5. QED
    BY <2>2, <2>4, EmptySeq
<1>3. CASE out \in Acks
  <2>1. /\ out = Frame("ack", FrOverhead, 0, frSeen)
        /\ 0 \in 0..FrMaxUp /\ frSeen \in 0..FrMaxDown
    BY <1>3, FrameAssumption DEF Acks, FrTypeInv, FrTypeOK
  <2>2. out \in Seq(FrBytes) /\ Len(out) = FrOverhead /\ FrOverhead \in 1..FrMax
    BY <2>1, FrameType
  <2>3. Len(out) \in 1..FrMax
    BY <2>2
  <2>4. Len(out) <= FrMax /\ Len(out) # 0
    BY <2>3, FrConstants
  <2>5. QED
    BY <2>2, <2>4, EmptySeq
<1>4. CASE out = Gap
  <2>1. FrByte("gap", 0, 0, 0, 0) \in FrBytes
    BY FrConstants, FrameAssumption DEF FrByte, FrBytes
  <2> DEFINE gap == FrByte("gap", 0, 0, 0, 0)
  <2> HIDE DEF gap
  <2>2. out = <<gap>> /\ gap \in FrBytes
    BY <1>4, <2>1 DEF Gap, gap
  <2>3. <<gap>> \in Seq(FrBytes) /\ <<gap>> # <<>> /\ Len(<<gap>>) = 1
    BY <2>2
  <2>4. 1 <= FrMax
    BY FrConstants
  <2>5. QED
    BY <2>2, <2>3, <2>4
<1>5. QED
  BY <1>1, <1>2, <1>3, <1>4 DEF Sending, Begins

\* Whatever byte arrives, the Bricklet keeps its types.
LEMMA ClockType ==
  ASSUME FrTypeInv, NEW out \in Sending, NEW byte \in {Head(out)} \cup Damaged,
         NEW message \in BOOLEAN, NEW ack \in BOOLEAN, Clock(out, byte, message, ack)
  PROVE  /\ byte \in FrBytes
         /\ frOut' \in Seq(FrBytes) /\ Len(frOut') < FrMax
         /\ frBegun' \in BOOLEAN /\ frOwes' \in BOOLEAN
         /\ frSeen' \in 0..FrMaxDown /\ frUp' \in 1..FrMaxUp + 1
         /\ frDamage' \in 0..FrMaxDamage
<1>1. out \in Seq(FrBytes) /\ out # <<>> /\ Len(out) <= FrMax
  BY SendingType
<1>2. /\ Head(out) \in FrBytes /\ Tail(out) \in Seq(FrBytes)
      /\ Len(Tail(out)) = Len(out) - 1 /\ Len(out) \in Nat
  BY <1>1, HeadTailProperties, LenProperties
<1>3. byte \in Damaged => byte \in FrBytes /\ frDamage < FrMaxDamage
  <2>1. ASSUME NEW v \in FrValues PROVE FrByte("bad", v, 0, 0, 0) \in FrBytes
    BY <2>1, FrameAssumption DEF FrByte, FrBytes
  <2>2. QED
    BY <2>1 DEF Damaged
<1>4. byte \in FrBytes
  BY <1>2, <1>3
<1>5. frOut' \in Seq(FrBytes) /\ Len(frOut') < FrMax
  BY <1>1, <1>2, FrConstants DEF Clock
<1>6. frBegun' \in BOOLEAN /\ frOwes' \in BOOLEAN
  BY DEF Clock, FrTypeInv, FrTypeOK
<1>7. frSeen' \in 0..FrMaxDown /\ frUp' \in 1..FrMaxUp + 1
  BY FrameAssumption DEF Clock, FrTypeInv, FrTypeOK
<1>8. frDamage' \in 0..FrMaxDamage
  <2>1. CASE byte = Head(out)
    BY <2>1 DEF Clock, FrTypeInv, FrTypeOK
  <2>2. CASE byte # Head(out)
    BY <1>3, <2>2, FrameAssumption DEF Clock, FrTypeInv, FrTypeOK
  <2>3. QED
    BY <2>1, <2>2
<1>9. QED
  BY <1>4, <1>5, <1>6, <1>7, <1>8

\* The ring buffer never holds more than it has room for.
LEMMA TransceiveType ==
  ASSUME FrTypeInv, NEW message \in BOOLEAN, NEW ack \in BOOLEAN,
         Transceive(message, ack)
  PROVE  /\ frRing' \in Seq(FrBytes) /\ Len(frRing') < FrSize
         /\ frOverflow' \in BOOLEAN
         /\ frOut' \in Seq(FrBytes) /\ Len(frOut') < FrMax
         /\ frBegun' \in BOOLEAN /\ frOwes' \in BOOLEAN
         /\ frSeen' \in 0..FrMaxDown /\ frUp' \in 1..FrMaxUp + 1
         /\ frDamage' \in 0..FrMaxDamage
<1> DEFINE fits == Len(frRing) + 1 < FrSize
           ringWith(byte) == IF fits THEN Append(frRing, byte) ELSE frRing
<1>1. PICK out \in Sending : \E byte \in {Head(out)} \cup Damaged :
        /\ Clock(out, byte, message, ack)
        /\ frRing' = IF frPc = "receive" THEN FromLength(ringWith(byte))
                     ELSE ringWith(byte)
        /\ frOverflow' = (frOverflow \/ ~fits)
  BY DEF Transceive
<1>2. PICK byte \in {Head(out)} \cup Damaged :
        /\ Clock(out, byte, message, ack)
        /\ frRing' = IF frPc = "receive" THEN FromLength(ringWith(byte))
                     ELSE ringWith(byte)
        /\ frOverflow' = (frOverflow \/ ~fits)
  BY <1>1
<1>3. /\ byte \in FrBytes
      /\ frOut' \in Seq(FrBytes) /\ Len(frOut') < FrMax
      /\ frBegun' \in BOOLEAN /\ frOwes' \in BOOLEAN
      /\ frSeen' \in 0..FrMaxDown /\ frUp' \in 1..FrMaxUp + 1
      /\ frDamage' \in 0..FrMaxDamage
  BY <1>2, ClockType
<1>4. ringWith(byte) \in Seq(FrBytes) /\ Len(ringWith(byte)) < FrSize
      /\ Len(ringWith(byte)) \in Nat
  <2>1. frRing \in Seq(FrBytes) /\ Len(frRing) \in Nat /\ Len(frRing) < FrSize
    BY LenProperties DEF FrTypeInv, FrTypeOK
  <2>2. /\ Append(frRing, byte) \in Seq(FrBytes)
        /\ Len(Append(frRing, byte)) = Len(frRing) + 1
    BY <1>3, <2>1, AppendProperties
  <2>3. CASE fits
    BY <2>1, <2>2, <2>3
  <2>4. CASE ~fits
    BY <2>1, <2>4
  <2>5. QED
    BY <2>3, <2>4
<1>5. frRing' \in Seq(FrBytes) /\ Len(frRing') < FrSize
  <2> DEFINE ring == ringWith(byte)
  <2>1. frRing' = IF frPc = "receive" THEN FromLength(ring) ELSE ring
    BY <1>2
  <2>2. ring \in Seq(FrBytes) /\ Len(ring) < FrSize /\ Len(ring) \in Nat
    BY <1>4
  <2> HIDE DEF ring
  <2>3. /\ FromLength(ring) \in Seq(FrBytes)
        /\ Len(FromLength(ring)) <= Len(ring) /\ Len(FromLength(ring)) \in Nat
    BY <2>2, FromLengthType, LenProperties
  <2>4. QED
    BY <2>1, <2>2, <2>3, FrConstants
<1>6. frOverflow' \in BOOLEAN
  BY <1>2 DEF FrTypeInv, FrTypeOK
<1>7. QED
  BY <1>3, <1>5, <1>6

\* A frame that is taken from the ring buffer, and what follows it.
LEMMA CheckRecvType ==
  ASSUME FrTypeInv, CheckRecv
  PROVE  FrTypeInv'
<1> DEFINE length == IF frRing = <<>> THEN 0 ELSE frRing[1].value
           frame == SubSeq(frRing, 1, length)
           rest == SubSeq(frRing, length + 1, Len(frRing))
<1>1. frRing \in Seq(FrBytes) /\ Len(frRing) \in Nat /\ Len(frRing) < FrSize
      /\ (frRing # <<>> => 1 \in 1..Len(frRing))
  BY LenProperties DEF FrTypeInv, FrTypeOK
<1>2. length \in Nat
  <2>1. frRing # <<>> => frRing[1] \in FrBytes
    BY <1>1, ElementOfSeq
  <2>2. QED
    BY <2>1, FrConstants DEF FrBytes
<1>3. /\ frLook' = frLook /\ frOverflow' = frOverflow /\ frWait' = frWait
      /\ frNum' = frNum /\ frGot' = frGot /\ frBegun' = frBegun /\ frOut' = frOut
      /\ frSeen' = frSeen /\ frOwes' = frOwes /\ frUp' = frUp
      /\ frDamage' = frDamage
      /\ frLeft' = FrOverhead
  BY DEF CheckRecv
<1>4. /\ frPc' \in {"idle", "check", "ack", "error"} /\ frBusy' \in BOOLEAN
      /\ frAck' \in 0..FrMaxUp /\ frRing' \in Seq(FrBytes) /\ Len(frRing') < FrSize
  <2>1. CASE /\ frPc' = "idle" \/ frPc' = "error"
             /\ UNCHANGED <<frRing, frAck, frBusy>>
    BY <2>1, <1>1 DEF FrTypeInv, FrTypeOK
  <2>2. CASE /\ frRing # <<>>
             /\ frRing' = Tail(frRing)
             /\ UNCHANGED <<frPc, frAck, frBusy>>
    <3>1. Tail(frRing) \in Seq(FrBytes) /\ Len(Tail(frRing)) = Len(frRing) - 1
      BY <1>1, <2>2, HeadTailProperties
    <3>2. frPc = "check"
      BY DEF CheckRecv
    <3>3. frRing' \in Seq(FrBytes) /\ Len(frRing') < FrSize
      BY <1>1, <2>2, <3>1, FrConstants
    <3>4. frPc' = "check" /\ frBusy' \in BOOLEAN /\ frAck' \in 0..FrMaxUp
      BY <2>2, <3>2 DEF FrTypeInv, FrTypeOK
    <3>5. QED
      BY <3>3, <3>4
  <2>3. CASE /\ IsLength(length) /\ length <= Len(frRing)
             /\ frRing' = rest
             /\ IF ~ChecksumRight(frame)
                THEN frPc' = "error" /\ UNCHANGED <<frAck, frBusy>>
                ELSE /\ frBusy' = Freed(frame)
                     /\ IF length = FrOverhead
                        THEN UNCHANGED <<frPc, frAck>>
                        ELSE frPc' = "ack" /\ frAck' = frame[1].msg
    <3>1. length >= 1
      BY <1>2, <2>3, FrameAssumption DEF IsLength, IsMessageLength, FrOverhead
    <3>2. length + 1 \in 1..Len(frRing) + 1 /\ Len(frRing) \in 0..Len(frRing)
          /\ 1 \in 1..Len(frRing) + 1 /\ length \in 0..Len(frRing)
      BY <1>1, <1>2, <2>3, <3>1
    <3> HIDE DEF length
    <3>3. rest \in Seq(FrBytes) /\ Len(rest) <= Len(frRing)
      BY <1>1, <3>2, PartOfRing
    <3>4. Len(rest) \in Nat
      BY <3>3, LenProperties
    <3>5. frame[1] = frRing[1]
      BY <1>1, <3>1, <3>2, PartOfRing
    <3>6. frRing[1] \in FrBytes
      BY <1>1, <3>1, <3>2, ElementOfSeq
    <3>7. frame[1].msg \in 0..FrMaxUp
      BY <3>5, <3>6 DEF FrBytes
    <3>8. frPc = "check"
      BY DEF CheckRecv
    <3>9. Freed(frame) \in BOOLEAN
      BY DEF Freed, FrTypeInv, FrTypeOK
    <3> HIDE DEF rest, frame
    <3>10. frRing' \in Seq(FrBytes) /\ Len(frRing') < FrSize
      BY <1>1, <2>3, <3>3, <3>4, FrConstants
    <3>11. frPc' \in {"idle", "check", "ack", "error"} /\ frBusy' \in BOOLEAN
           /\ frAck' \in 0..FrMaxUp
      BY <2>3, <3>7, <3>8, <3>9 DEF FrTypeInv, FrTypeOK
    <3>12. QED
      BY <3>10, <3>11
  <2>4. QED
    BY <2>1, <2>2, <2>3 DEF CheckRecv
<1>5. QED
  BY <1>3, <1>4, FrConstants DEF FrTypeInv, FrTypeOK

\* Every other step of the poll.
LEMMA PollType ==
  ASSUME FrTypeInv, PollReceives \/ PollSends
  PROVE  FrTypeInv'
<1>1. Len(frRing) \in Nat
  BY LenProperties DEF FrTypeInv
<1>2. CASE PollReceives
  <2>1. frLeft' \in 0..FrSize
    BY <1>1, <1>2, FrConstants, SMTT(20) DEF PollReceives, FrTypeInv, FrTypeOK
  <2>2. frWait' \in 0..FrTimeout
    BY <1>2, FrameAssumption DEF PollReceives, FrTypeInv, FrTypeOK
  <2>3. QED
    BY <1>2, <2>1, <2>2 DEF PollReceives, FrTypeInv, FrTypeOK
<1>3. CASE PollSends
  <2>1. frLeft' \in 0..FrSize /\ frLeft' > 0
    BY <1>3, FrConstants DEF PollSends
  <2>2. frNum' \in 0..FrMaxDown /\ frWait' \in 0..FrTimeout
    BY <1>3, FrameAssumption DEF PollSends, FrTypeInv, FrTypeOK
  <2>3. QED
    BY <1>3, <2>1, <2>2 DEF PollSends, FrTypeInv, FrTypeOK
<1>4. QED
  BY <1>2, <1>3

LEMMA ByteType ==
  ASSUME FrTypeInv, SendByte \/ ReceiveByte
  PROVE  FrTypeInv'
<1>1. CASE SendByte
  <2> DEFINE message == frPc = "send" /\ frLeft = 1
             ack == frPc = "ack" /\ frLeft = 1
  <2>1. message \in BOOLEAN /\ ack \in BOOLEAN /\ Transceive(message, ack)
    BY <1>1 DEF SendByte
  <2> HIDE DEF message, ack
  <2>2. /\ frRing' \in Seq(FrBytes) /\ Len(frRing') < FrSize
        /\ frOverflow' \in BOOLEAN
        /\ frOut' \in Seq(FrBytes) /\ Len(frOut') < FrMax
        /\ frBegun' \in BOOLEAN /\ frOwes' \in BOOLEAN
        /\ frSeen' \in 0..FrMaxDown /\ frUp' \in 1..FrMaxUp + 1
        /\ frDamage' \in 0..FrMaxDamage
    BY <2>1, TransceiveType
  <2>3. /\ frLeft' \in 0..FrSize
        /\ frPc' \in {"idle", "send", "check", "ack"}
        /\ frPc' \in {"send", "ack"} => frLeft' > 0
    BY <1>1, FrConstants DEF SendByte, FrTypeInv, FrTypeOK
  <2>4. /\ frGot' \in 0..FrMaxUp
        /\ UNCHANGED <<frLook, frAck, frBusy, frWait, frNum>>
    BY <1>1 DEF SendByte, FrTypeInv, FrTypeOK
  <2>5. QED
    BY <2>2, <2>3, <2>4 DEF FrTypeInv, FrTypeOK
<1>2. CASE ReceiveByte
  <2>1. Transceive(FALSE, FALSE)
    BY <1>2 DEF ReceiveByte
  <2>2. /\ frRing' \in Seq(FrBytes) /\ Len(frRing') < FrSize
        /\ frOverflow' \in BOOLEAN
        /\ frOut' \in Seq(FrBytes) /\ Len(frOut') < FrMax
        /\ frBegun' \in BOOLEAN /\ frOwes' \in BOOLEAN
        /\ frSeen' \in 0..FrMaxDown /\ frUp' \in 1..FrMaxUp + 1
        /\ frDamage' \in 0..FrMaxDamage
    BY <2>1, TransceiveType
  <2>3. /\ frLeft' \in 0..FrSize
        /\ frPc' \in {"check", "receive"}
    BY <1>2, FrConstants DEF ReceiveByte, FrTypeInv, FrTypeOK
  <2>4. UNCHANGED <<frLook, frAck, frBusy, frWait, frNum, frGot>>
    BY <1>2 DEF ReceiveByte
  <2>5. QED
    BY <2>2, <2>3, <2>4 DEF FrTypeInv, FrTypeOK
<1>3. QED
  BY <1>1, <1>2

LEMMA HandleErrorType ==
  ASSUME FrTypeInv, HandleError
  PROVE  FrTypeInv'
<1>1. frRing' \in Seq(FrBytes) /\ Len(frRing') < FrSize
  BY FrConstants, EmptySeq DEF HandleError
<1>2. QED
  BY <1>1 DEF HandleError, FrTypeInv, FrTypeOK

LEMMA FrTypeStep == FrTypeInv /\ [FrNext]_frVars => FrTypeInv'
<1>1. CASE UNCHANGED frVars
  BY <1>1 DEF frVars, FrTypeInv, FrTypeOK
<1>2. QED
  BY <1>1, PollType, ByteType, CheckRecvType, HandleErrorType DEF FrNext

LEMMA FrTypeStart == FrInit => FrTypeInv
<1> SUFFICES ASSUME FrInit PROVE FrTypeInv
  OBVIOUS
<1>1. frRing \in Seq(FrBytes) /\ Len(frRing) < FrSize
      /\ frOut \in Seq(FrBytes) /\ Len(frOut) < FrMax
  BY FrConstants, EmptySeq DEF FrInit
<1>2. /\ frPc = "idle" /\ frLeft \in 0..FrSize
      /\ frAck \in 0..FrMaxUp /\ frGot \in 0..FrMaxUp /\ frUp \in 1..FrMaxUp + 1
      /\ frNum \in 0..FrMaxDown /\ frSeen \in 0..FrMaxDown
      /\ frDamage \in 0..FrMaxDamage /\ frWait \in 0..FrTimeout
  BY FrameAssumption DEF FrInit
<1>3. /\ {frBegun, frBusy, frOwes, frOverflow} \subseteq BOOLEAN
      /\ frLook \in FrLooks
  BY DEF FrInit
<1>4. QED
  BY <1>1, <1>2, <1>3 DEF FrTypeInv, FrTypeOK

\* Whatever the fairness.
LEMMA FrTypeInvariant == FrInit /\ [][FrNext]_frVars => []FrTypeOK
<1>1. FrTypeInv => FrTypeOK
  BY DEF FrTypeInv
<1>2. QED
  BY <1>1, FrTypeStart, FrTypeStep, PTL

\* The ring buffer of a port never holds more than CO_MCU_BUFFER_SIZE_RECV - 1
\* bytes, a poll has never more to clock than the buffer has room for or a frame
\* has bytes, and what it counts stays in its range, whatever bytes arrive.
THEOREM FrTypeCorrect == FrSpec => []FrTypeOK
BY FrTypeInvariant, PTL DEF FrSpec

-----------------------------------------------------------------------------
(* MCParts: the parts together.                                            *)

\* A step of the run is a step of one part and leaves the others alone.
LEMMA PartsStep ==
  ASSUME [PartsNext]_PartsVars
  PROVE  /\ [FrNext]_frVars /\ [RbNext]_rbVars /\ [LgNext]_lgVars
         /\ [TwNext]_twVars /\ [XcNext]_xcVars /\ [BkNext]_bkVars
<1>1. CASE UNCHANGED PartsVars
  BY <1>1, Zenon DEF PartsVars
<1>2. CASE PartsNext
  BY <1>2, Zenon DEF PartsNext
<1>3. QED
  BY <1>1, <1>2

\* Six of the parts do not leave their types: those of the flasher, the TWI driver, the ring
\* buffer, the legacy protocol, the Bricklets' ports and the byte streams hold in
\* the run of all of them.
THEOREM PartsTypeCorrect == PartsSpec => []PartsTypeOK
<1>1. PartsInit => FrInit /\ RbInit /\ LgInit /\ TwInit /\ XcInit /\ BkInit
  BY DEF PartsInit
<1>2. /\ FrInit /\ [][FrNext]_frVars => []FrTypeOK
      /\ BkInit /\ [][BkNext]_bkVars => []BkTypeOK
  BY FrTypeInvariant, BkTypeInvariant
<1>3. /\ RbInit /\ [][RbNext]_rbVars => []RbTypeOK
      /\ LgInit /\ [][LgNext]_lgVars => []LgTypeOK
      /\ TwInit /\ [][TwNext]_twVars => []TwTypeOK
      /\ XcInit /\ [][XcNext]_xcVars => []XcTypeOK
  BY RingTypeCorrect, LegacyTypeCorrect, TwTypeCorrect, XcTypeCorrect, PTL
     DEF RbSpec, LgSpec, TwSpec, XcSpec
<1>4. FrTypeOK /\ RbTypeOK /\ LgTypeOK /\ TwTypeOK /\ XcTypeOK /\ BkTypeOK => PartsTypeOK
  BY DEF PartsTypeOK
<1>5. QED
  BY <1>1, <1>2, <1>3, <1>4, PartsStep, PTL DEF PartsSpec
=============================================================================
