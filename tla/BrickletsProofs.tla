--------------------------- MODULE BrickletsProofs --------------------------
(***************************************************************************)
(* Theorems about Bricklets, for every number of ports and any number of   *)
(* requests, writes and resets, and whether or not EEPROMs can be read.    *)
(***************************************************************************)
EXTENDS Bricklets, TLAPS

\* What a message loop is doing is a record of the two fields of Idle.
LoopIsRecord ==
  /\ bkLoop = [c \in BkComs |-> bkLoop[c]]
  /\ \A c \in BkComs :
       bkLoop[c] = [what |-> bkLoop[c].what, todo |-> bkLoop[c].todo]

BkTypeInv == BkTypeOK /\ LoopIsRecord

\* A port is a number an EEPROM may have for its uid.
LEMMA PortType ==
  /\ \A p \in BkPorts : p \in 0..BkPortCount /\ p + 1 \in 1..BkPortCount + 1
  /\ 0 \in 0..BkPortCount /\ 1 \in 1..BkPortCount + 1
BY BrickletsAssumption DEF BkPorts

\* Writing one field of what an EEPROM holds.
LEMMA ImageUpdate ==
  ASSUME NEW U, NEW P, NEW e \in [uid : U, plugin : P], NEW u \in U, NEW x \in P
  PROVE  /\ [e EXCEPT !.uid = u] \in [uid : U, plugin : P]
         /\ [e EXCEPT !.plugin = x] \in [uid : U, plugin : P]
OBVIOUS

\* A message loop that has sent one of its messages.
LEMMA TodoUpdate ==
  ASSUME NEW w, NEW t, NEW x
  PROVE  [[what |-> w, todo |-> t] EXCEPT !.todo = x] = [what |-> w, todo |-> x]
OBVIOUS

\* It needs nothing of the fairness of BkSpec.
LEMMA BkTypeInvariant == BkInit /\ [][BkNext]_bkVars => []BkTypeOK
<1>1. BkInit => BkTypeInv
  <2> SUFFICES ASSUME BkInit PROVE BkTypeInv
    OBVIOUS
  <2>1. bkEeprom \in [BkPorts -> [uid : 0..BkPortCount, plugin : BkPlugins]]
    <3>1. \A p \in BkPorts :
            BkContents(p) \subseteq [uid : 0..BkPortCount, plugin : BkPlugins]
      BY PortType DEF BkContents, BkPlugins
    <3>2. QED
      BY <3>1 DEF BkInit
  <2>2. LoopIsRecord /\ \A c \in BkComs : bkLoop[c].what \in {"idle"} \cup Handlers
    BY DEF BkInit, LoopIsRecord, Idle
  <2>3. QED
    BY <2>1, <2>2, PortType DEF BkInit, BkTypeInv, BkTypeOK, NobodyTold
<1>2. BkTypeInv /\ [BkNext]_bkVars => BkTypeInv'
  <2> SUFFICES ASSUME BkTypeInv, [BkNext]_bkVars PROVE BkTypeInv'
    OBVIOUS
  <2> USE DEF BkTypeInv, BkTypeOK, bkHistory
  <2>1. ASSUME NEW p \in BkPorts, BkTryConnection(p) PROVE BkTypeInv'
    <3>1. bkProbe' \in 1..BkPortCount + 1
      BY <2>1, PortType DEF BkTryConnection
    <3>2. /\ bkAttached' \in [BkPorts -> {"none", "v1", "v2", "comcu"}]
          /\ bkUid' \in [BkPorts -> 0..BkPortCount]
      <4>1. PICK uid \in ReadUid(p), valid \in EntryValid(p) :
              IF uid = 0
              THEN NoPlugin(p, IF BkHasCoMcu THEN "comcu" ELSE "none")
              ELSE IF valid THEN RunPlugin(p, uid) ELSE NoPlugin(p, "none")
        BY <2>1 DEF BkTryConnection
      <4>2. CASE \E attached \in {"comcu", "none"} : NoPlugin(p, attached)
        BY <4>2 DEF NoPlugin
      <4>3. CASE RunPlugin(p, uid)
        <5>1. uid \in 0..BkPortCount
          BY PortType DEF ReadUid
        <5>2. PICK plugin \in PluginRead(p) : \E v \in Version(plugin) :
                /\ bkAttached' = [bkAttached EXCEPT ![p] = v]
                /\ bkUid' = IF v = "v2" THEN [bkUid EXCEPT ![p] = uid] ELSE bkUid
          BY <4>3 DEF RunPlugin
        <5>3. Version(plugin) \subseteq {"v1", "v2"}
          BY DEF Version
        <5>4. QED
          BY <5>1, <5>2, <5>3
      <4>4. QED
        BY <4>1, <4>2, <4>3
    <3>3. QED
      BY <2>1, <3>1, <3>2 DEF BkTryConnection, bkRunVars, LoopIsRecord
  <2>2. ASSUME NEW p \in BkPorts, BkWrite(p) PROVE BkTypeInv'
    <3>1. bkEeprom' \in [BkPorts -> [uid : 0..BkPortCount, plugin : BkPlugins]]
      <4> DEFINE image == [uid : 0..BkPortCount, plugin : BkPlugins]
      <4>1. ASSUME NEW plugin \in Rewritten(bkEeprom[p].plugin)
            PROVE  [bkEeprom[p] EXCEPT !.plugin = plugin] \in image
        <5>1. plugin \in BkPlugins /\ bkEeprom[p] \in image
              /\ bkEeprom[p].uid \in 0..BkPortCount
          BY DEF Rewritten, BkPlugins
        <5> HIDE DEF BkPlugins
        <5>2. QED
          BY <5>1, ImageUpdate
      <4>2. ASSUME NEW uid \in {0, p}
            PROVE  [bkEeprom[p] EXCEPT !.uid = uid] \in image
        <5>1. uid \in 0..BkPortCount /\ bkEeprom[p].plugin \in BkPlugins
              /\ bkEeprom[p] \in image
          BY PortType
        <5>2. QED
          BY <5>1, ImageUpdate
      <4>3. bkEeprom \in [BkPorts -> image]
        OBVIOUS
      <4> HIDE DEF image
      <4>4. \E new \in image : bkEeprom' \in {[bkEeprom EXCEPT ![p] = new], bkEeprom}
        BY <2>2, <4>1, <4>2, <4>3 DEF BkWrite
      <4>5. bkEeprom' \in [BkPorts -> image]
        BY <4>3, <4>4
      <4>6. QED
        BY <4>5 DEF image
    <3>2. bkCurrent' \in BkComs /\ bkOvertaken' \in BOOLEAN
      BY <2>2 DEF BkWrite, SetCurrent
    <3>3. QED
      BY <2>2, <3>1, <3>2 DEF BkWrite, bkBootVars, LoopIsRecord
  <2>3. ASSUME NEW c \in BkComs, NEW what \in Handlers, BkRoute(c, what)
        PROVE  BkTypeInv'
    <3>1. /\ LoopIsRecord'
          /\ \A d \in BkComs : bkLoop'[d].what \in {"idle"} \cup Handlers
      BY <2>3 DEF BkRoute, LoopIsRecord
    <3>2. bkCurrent' \in BkComs /\ bkOvertaken' \in BOOLEAN
      BY <2>3 DEF BkRoute, SetCurrent
    <3>3. QED
      BY <2>3, <3>1, <3>2 DEF BkRoute, bkBootVars
  <2>4. ASSUME NEW c \in BkComs, BkSent(c) PROVE BkTypeInv'
    <3>1. /\ LoopIsRecord'
          /\ \A d \in BkComs : bkLoop'[d].what \in {"idle"} \cup Handlers
      <4> DEFINE new == [what |-> bkLoop[c].what, todo |-> Tail(bkLoop[c].todo)]
      <4>1. [bkLoop[c] EXCEPT !.todo = Tail(@)] = new
        <5>1. bkLoop[c] = [what |-> bkLoop[c].what, todo |-> bkLoop[c].todo]
          BY DEF LoopIsRecord
        <5> DEFINE w == bkLoop[c].what
                   t == bkLoop[c].todo
                   x == Tail(bkLoop[c].todo)
        <5>2. [bkLoop[c] EXCEPT !.todo = Tail(@)] = [bkLoop[c] EXCEPT !.todo = x]
          OBVIOUS
        <5> HIDE DEF w, t, x
        <5>3. [[what |-> w, todo |-> t] EXCEPT !.todo = x] = [what |-> w, todo |-> x]
          BY TodoUpdate
        <5>4. [bkLoop[c] EXCEPT !.todo = x] = [what |-> w, todo |-> x]
          BY <5>1, <5>3 DEF w, t
        <5>5. QED
          BY <5>2, <5>4 DEF w, x
      <4>2. bkLoop' = [bkLoop EXCEPT ![c] = new]
        BY <2>4, <4>1 DEF BkSent
      <4>3. new.what = bkLoop[c].what /\ new = [what |-> new.what, todo |-> new.todo]
        OBVIOUS
      <4> HIDE DEF new
      <4>4. QED
        BY <4>2, <4>3 DEF LoopIsRecord
    <3>2. QED
      BY <2>4, <3>1 DEF BkSent, bkBootVars
  <2>5. ASSUME NEW c \in BkComs, BkHandled(c) PROVE BkTypeInv'
    <3>1. /\ LoopIsRecord'
          /\ \A d \in BkComs : bkLoop'[d].what \in {"idle"} \cup Handlers
      BY <2>5 DEF BkHandled, LoopIsRecord, Idle
    <3>2. /\ bkCurrent' \in {"NONE"} \cup BkComs
          /\ bkTimer' \in BOOLEAN
          /\ bkNew' \subseteq BkPorts
      BY <2>5 DEF BkHandled
    <3>3. /\ bkTold' \in [BkPorts -> {"NONE"} \cup BkComs]
          /\ bkAsker' \in {"NONE"} \cup BkComs
          /\ bkOvertaken' \in BOOLEAN
      BY <2>5 DEF BkHandled, NobodyTold
    <3>4. QED
      BY <2>5, <3>1, <3>2, <3>3 DEF BkHandled, bkBootVars
  <2>6. CASE BkTimerElapsed
    <3>1. /\ LoopIsRecord'
          /\ \A d \in BkComs : bkLoop'[d].what \in {"idle"} \cup Handlers
      BY <2>6 DEF BkTimerElapsed, LoopIsRecord, Handlers
    <3>2. bkCurrent' \in BkComs /\ bkOvertaken' \in BOOLEAN
      BY <2>6 DEF BkTimerElapsed, SetCurrent, BkComs
    <3>3. QED
      BY <2>6, <3>1, <3>2 DEF BkTimerElapsed, bkBootVars
  <2>7. CASE BkUsbConnected
    <3>1. bkCurrent' \in BkComs /\ bkOvertaken' \in BOOLEAN
      BY <2>7 DEF BkUsbConnected, SetCurrent, BkComs
    <3>2. QED
      BY <2>7, <3>1 DEF BkUsbConnected, bkBootVars, LoopIsRecord
  <2>8. ASSUME NEW accepted \in SUBSET BkPorts, BkAnnounce(accepted)
        PROVE  BkTypeInv'
    BY <2>8 DEF BkAnnounce, BitsCleared, bkBootVars, LoopIsRecord
  <2>9. CASE BkReset
    BY <2>9, PortType DEF BkReset, LoopIsRecord, Idle, NobodyTold
  <2>10. CASE UNCHANGED bkVars
    BY <2>10 DEF bkVars, bkBootVars, bkRunVars, LoopIsRecord
  <2>11. QED
    BY <2>1, <2>2, <2>3, <2>4, <2>5, <2>6, <2>7, <2>8, <2>9, <2>10 DEF BkNext
<1>3. QED
  BY <1>1, <1>2, PTL DEF BkTypeInv

\* Uids, plugins, ports and handlers stay in their ranges, whatever is written
\* into the EEPROMs and whenever the Brick is reset (BkTypeOK of Bricklets).
THEOREM BrickletsTypeCorrect == BkSpec => []BkTypeOK
BY BkTypeInvariant, PTL DEF BkSpec

-----------------------------------------------------------------------------
(* To whom the Bricklets are announced.                                    *)

\* As long as nothing has overtaken the last create request, com_info.current is
\* the com it came from; before the first one ends no bit is set.
CurrentIsAsker ==
  /\ bkAsker = "NONE" => bkNew = {} /\ ~bkOvertaken
  /\ bkAsker # "NONE" /\ ~bkOvertaken => bkCurrent = bkAsker

AnnounceInv == CurrentIsAsker /\ AnnouncedToAsker

\* A message taken for a com.
LEMMA SetCurrentInv ==
  ASSUME AnnounceInv, NEW c \in BkComs, SetCurrent(c),
         UNCHANGED <<bkNew, bkTold, bkAsker>>
  PROVE  AnnounceInv'
BY DEF SetCurrent, AnnounceInv, CurrentIsAsker, AnnouncedToAsker, BkComs

\* The end of a handler restores com_info.current if it asks for the Bricklets.
LEMMA HandledInv ==
  ASSUME BkTypeOK, AnnounceInv, NEW c \in BkComs, BkHandled(c)
  PROVE  AnnounceInv'
<1> DEFINE what == bkLoop[c].what
<1>1. CASE what = "create"
  <2>1. /\ bkCurrent' = c /\ bkAsker' = c /\ bkOvertaken' = FALSE
        /\ \A p \in BkPorts : bkTold'[p] = "NONE"
    BY <1>1 DEF BkHandled, SetAgain, NobodyTold
  <2>2. QED
    BY <2>1 DEF AnnounceInv, CurrentIsAsker, AnnouncedToAsker, BkComs
<1>2. CASE what # "create" /\ SetAgain(c, what)
  <2>1. /\ bkCurrent' = c
        /\ bkOvertaken' = (bkOvertaken \/ bkAsker \notin {"NONE", c})
        /\ UNCHANGED <<bkNew, bkTold, bkAsker>>
    BY <1>2 DEF BkHandled
  <2>2. QED
    BY <2>1, SetCurrentInv DEF SetCurrent
<1>3. CASE what # "create" /\ ~SetAgain(c, what)
  <2>1. /\ bkCurrent' = bkCurrent /\ bkOvertaken' = bkOvertaken
        /\ UNCHANGED <<bkNew, bkTold, bkAsker>>
    BY <1>3 DEF BkHandled, BkTypeOK
  <2>2. QED
    BY <2>1 DEF AnnounceInv, CurrentIsAsker, AnnouncedToAsker
<1>4. QED
  BY <1>1, <1>2, <1>3

\* Each Bricklet is announced to the com whose create request ended last, unless
\* a message of another com has come between the end of its handler and the
\* announcement: what the other loop takes while the handler is blocked in a send
\* does no harm, however the requests, sends, resets and refusals of the com come
\* (create_enumerate_connected, brick_init_handle_bricklet_enumeration).
THEOREM AnnouncesToAsker == BkSpec => []AnnouncedToAsker
<1>1. BkInit => AnnounceInv
  BY DEF BkInit, NobodyTold, AnnounceInv, CurrentIsAsker, AnnouncedToAsker
<1>2. BkTypeOK /\ AnnounceInv /\ [BkNext]_bkVars => AnnounceInv'
  <2> SUFFICES ASSUME BkTypeOK, AnnounceInv, [BkNext]_bkVars PROVE AnnounceInv'
    OBVIOUS
  <2>1. ASSUME UNCHANGED <<bkNew, bkCurrent, bkHistory>> PROVE AnnounceInv'
    BY <2>1 DEF bkHistory, AnnounceInv, CurrentIsAsker, AnnouncedToAsker
  <2>2. CASE \E p \in BkPorts : BkTryConnection(p)
    BY <2>1, <2>2 DEF BkTryConnection, bkRunVars
  <2>3. CASE \E p \in BkPorts : BkWrite(p)
    BY <2>3, SetCurrentInv DEF BkWrite
  <2>4. CASE \E c \in BkComs, what \in Handlers : BkRoute(c, what)
    BY <2>4, SetCurrentInv DEF BkRoute
  <2>5. CASE \E c \in BkComs : BkSent(c)
    BY <2>1, <2>5 DEF BkSent
  <2>6. CASE \E c \in BkComs : BkHandled(c)
    BY <2>6, HandledInv
  <2>7. CASE BkTimerElapsed \/ BkUsbConnected
    BY <2>7, SetCurrentInv DEF BkTimerElapsed, BkUsbConnected, BkComs
  <2>8. ASSUME NEW accepted \in SUBSET BkPorts, BkAnnounce(accepted)
        PROVE  AnnounceInv'
    <3>1. bkNew # {} /\ bkAsker # "NONE"
      BY <2>8 DEF BkAnnounce, AnnounceInv, CurrentIsAsker
    <3>2. /\ UNCHANGED <<bkCurrent, bkAsker, bkOvertaken>>
          /\ \A p \in BkPorts : bkTold'[p] \in {bkCurrent, bkTold[p]}
      BY <2>8 DEF BkAnnounce
    <3>3. QED
      BY <3>1, <3>2 DEF AnnounceInv, CurrentIsAsker, AnnouncedToAsker
  <2>9. CASE BkReset
    BY <2>9 DEF BkReset, NobodyTold, AnnounceInv, CurrentIsAsker, AnnouncedToAsker
  <2>10. CASE UNCHANGED bkVars
    BY <2>1, <2>10 DEF bkVars, bkRunVars
  <2>11. QED
    BY <2>2, <2>3, <2>4, <2>5, <2>6, <2>7, <2>8, <2>9, <2>10 DEF BkNext
<1>3. AnnounceInv => AnnouncedToAsker
  BY DEF AnnounceInv
<1>4. QED
  BY <1>1, <1>2, <1>3, BrickletsTypeCorrect, PTL DEF BkSpec
=============================================================================
