----------------------------- MODULE Bricklets ------------------------------
(***************************************************************************)
(* Bricklets with an EEPROM (bricklet/bricklet_init.c), from power on to   *)
(* their announcement on the com: the Brick probes its ports one after the *)
(* other, copies the plugin of a Bricklet from its EEPROM into the flash   *)
(* and runs it; then the message loops answer requests                     *)
(* (com/com_messages.c, com/com_common.c, bricklet_communication.c) and    *)
(* the tick task announces the Bricklets (utility/init.c) that a create    *)
(* enumerate connected request asked for.                                  *)
(*                                                                         *)
(* The tasks do not start before every port is probed, so probing a port   *)
(* is one action.  A message loop gives up the processor only in a         *)
(* blocking send: its handlers are split there.  Of a plugin only its      *)
(* protocol version is told, or that it is not one plugin as a whole; that *)
(* its pages reach the flash is not modelled.                              *)
(***************************************************************************)
EXTENDS Integers, Sequences

CONSTANTS
  BkPortCount,     \* BRICKLET_NUM
  BkSelectable,    \* ports whose EEPROM answers only while its pin is high
  BkHasCoMcu,      \* BRICK_HAS_CO_MCU_SUPPORT
  BkReadFails,     \* may reading an EEPROM time out while the Brick starts?
  BkMaxRequests,   \* bound: requests
  BkMaxResets      \* bound: resets

BkPorts == 1..BkPortCount

ASSUME BrickletsAssumption ==
  /\ BkPortCount \in Nat \ {0}
  /\ BkSelectable \subseteq BkPorts
  /\ BkHasCoMcu \in BOOLEAN /\ BkReadFails \in BOOLEAN
  /\ BkMaxRequests \in Nat /\ BkMaxResets \in Nat

BkComs == {"USB", "STACK"}

\* No plugin, one of protocol version 1 or 2, or pages that are not all of one.
BkPlugins == {"blank", "v1", "v2", "torn"}

VARIABLES
  bkEeprom,     \* uid and plugin in the EEPROM at each port, uid 0 if none
  bkProbe,      \* bricklet_init has this port next, BkPortCount + 1 when done
  bkAttached,   \* bricklet_attached
  bkUid,        \* bs[].uid
  bkCurrent,    \* com_info.current
  bkNew,        \* brick_init_bricklet_new_enumerate
  bkTimer,      \* stack_enumerate_timer is running
  bkLoop,       \* what the message loop of a com is doing and has yet to send
  bkRequests,   \* requests so far
  bkResets,     \* resets
  bkTold,       \* history: com each port was announced to since it was last
                \* asked for, or "NONE"
  bkAsker,      \* history: com whose create request ended last, or "NONE"
  bkOvertaken   \* history: com_info.current has been set for another com since

bkBootVars == <<bkProbe, bkAttached, bkUid>>
bkHistory == <<bkTold, bkAsker, bkOvertaken>>
bkRunVars == <<bkCurrent, bkNew, bkTimer, bkLoop, bkRequests, bkHistory>>
bkVars == <<bkEeprom, bkResets, bkBootVars, bkRunVars>>

NobodyTold == [p \in BkPorts |-> "NONE"]

Idle == [what |-> "idle", todo |-> <<>>]

\* No Bricklet with an EEPROM, one without a plugin, and one with a plugin of
\* protocol version 1 or 2.
BkContents(p) ==
  {[uid |-> IF v = "none" THEN 0 ELSE p,
    plugin |-> IF v = "none" THEN "blank" ELSE v] :
     v \in {"none", "blank", "v1", "v2"}}

BkInit ==
  /\ bkEeprom \in {e \in [BkPorts -> UNION {BkContents(p) : p \in BkPorts}] :
                     \A p \in BkPorts : e[p] \in BkContents(p)}
  /\ bkResets = 0
  /\ bkProbe = 1
  /\ bkAttached = [p \in BkPorts |-> "none"]
  /\ bkUid = [p \in BkPorts |-> 0]
  /\ bkCurrent = "NONE"
  /\ bkNew = {}
  /\ bkTimer = FALSE
  /\ bkLoop = [c \in BkComs |-> Idle]
  /\ bkRequests = 0
  /\ bkTold = NobodyTold /\ bkAsker = "NONE" /\ bkOvertaken = FALSE

BkRunning == bkProbe > BkPortCount

-----------------------------------------------------------------------------
(* Start: bricklet_init.                                                   *)

\* i2c_eeprom_master_read_uid with the port selected: 0 if nothing answers.
ReadUid(p) == {bkEeprom[p].uid} \cup (IF BkReadFails THEN {0} ELSE {})

\* bricklet_try_connection reads the first word of the plugin after it has
\* deselected the port, into a variable without a value: where the EEPROM does
\* not answer any longer, the word is what the stack happens to hold.
EntryValid(p) ==
  IF p \in BkSelectable \/ BkReadFails \/ bkEeprom[p].plugin = "torn" THEN BOOLEAN
  ELSE {bkEeprom[p].plugin # "blank"}

\* The plugin bricklet_init_plugin gets page by page through its one buffer: a
\* page that cannot be read leaves there what was before it.
PluginRead(p) == {bkEeprom[p].plugin} \cup (IF BkReadFails THEN {"torn"} ELSE {})

\* What the plugin in the flash answers to BRICKLET_TYPE_PROTOCOL_VERSION; any
\* answer if it is not a plugin as a whole.
Version(plugin) == IF plugin \in {"v1", "v2"} THEN {plugin} ELSE {"v1", "v2"}

NoPlugin(p, attached) ==
  /\ bkAttached' = [bkAttached EXCEPT ![p] = attached]
  /\ UNCHANGED bkUid

\* bricklet_init_plugin and the call of BRICKLET_TYPE_INFO.
RunPlugin(p, uid) ==
  \E plugin \in PluginRead(p) : \E v \in Version(plugin) :
    /\ bkAttached' = [bkAttached EXCEPT ![p] = v]
    /\ bkUid' = IF v = "v2" THEN [bkUid EXCEPT ![p] = uid] ELSE bkUid

\* bricklet_try_connection.
BkTryConnection(p) ==
  /\ bkProbe = p
  /\ bkProbe' = p + 1
  /\ \E uid \in ReadUid(p), valid \in EntryValid(p) :
       IF uid = 0
       THEN NoPlugin(p, IF BkHasCoMcu THEN "comcu" ELSE "none")
       ELSE IF valid THEN RunPlugin(p, uid) ELSE NoPlugin(p, "none")
  /\ UNCHANGED <<bkEeprom, bkResets, bkRunVars>>

-----------------------------------------------------------------------------
(* Requests.                                                               *)

\* The Bricklets make_bricklet_enumerate has an identity of.
Identified == {p \in BkPorts : bkAttached[p] = "v2"}

\* The callbacks enumerate sends: the Brick's, then those of its Bricklets.
EnumerateTodo ==
  <<0>> \o SelectSeq([p \in BkPorts |-> p], LAMBDA p : p \in Identified)

\* The messages a handler sends, the Brick's own being 0.
Todo(what) == IF what = "enumerate" THEN EnumerateTodo ELSE <<0>>

\* The handlers that send; "answer" stands for the ones that return a value or
\* acknowledge a setting and change nothing here.
Handlers == {"create", "enumerate", "stack_enumerate", "answer"}

\* com_info.current is set for c; for the history, does that overtake a request?
SetCurrent(c) ==
  /\ bkCurrent' = c
  /\ bkOvertaken' = (bkOvertaken \/ bkAsker \notin {"NONE", c})

\* com_route_message_brick takes a message: com_info.current is the com it came
\* from, and the handler starts with its first blocking send.
BkRoute(c, what) ==
  /\ BkRunning
  /\ bkLoop[c] = Idle
  /\ bkRequests < BkMaxRequests
  /\ bkRequests' = bkRequests + 1
  /\ SetCurrent(c)
  /\ bkLoop' = [bkLoop EXCEPT ![c] = [what |-> what, todo |-> Todo(what)]]
  /\ UNCHANGED <<bkEeprom, bkResets, bkBootVars, bkNew, bkTimer, bkTold,
                 bkAsker>>

\* send_blocking_with_timeout ends, with the message sent or given up.
BkSent(c) ==
  /\ bkLoop[c].todo # <<>>
  /\ bkLoop' = [bkLoop EXCEPT ![c].todo = Tail(@)]
  /\ UNCHANGED <<bkEeprom, bkResets, bkBootVars, bkCurrent, bkNew,
                 bkTimer, bkRequests, bkHistory>>

\* Mutant: the end of a handler leaves com_info.current as it is.
NotSetAgain(c, what) == FALSE

\* These handlers set com_info.current again after their last send, during which
\* the loop of the other com may have taken a message.
SetAgain(c, what) == what \in {"create", "enumerate"}

\* The end of a handler, after its last send.
BkHandled(c) ==
  /\ bkLoop[c] # Idle /\ bkLoop[c].todo = <<>>
  /\ bkLoop' = [bkLoop EXCEPT ![c] = Idle]
  /\ LET what == bkLoop[c].what
     IN /\ bkCurrent' = IF SetAgain(c, what) THEN c ELSE bkCurrent
        /\ bkTimer' = IF what = "stack_enumerate" THEN TRUE
                      ELSE IF what = "create" THEN FALSE ELSE bkTimer
        /\ IF what = "create"
           THEN /\ bkNew' = {p \in BkPorts : bkAttached[p] # "comcu"}
                /\ bkTold' = NobodyTold /\ bkAsker' = c /\ bkOvertaken' = FALSE
           ELSE /\ bkOvertaken' = (\/ bkOvertaken
                                   \/ SetAgain(c, what) /\ bkAsker \notin {"NONE", c})
                /\ UNCHANGED <<bkNew, bkTold, bkAsker>>
  /\ UNCHANGED <<bkEeprom, bkResets, bkBootVars, bkRequests>>

\* A slave of a stack that nobody asked for its Bricklets within a second after
\* stack_enumerate asks itself (spi_stack_slave_recv).
BkTimerElapsed ==
  /\ BkRunning
  /\ bkTimer
  /\ bkLoop["STACK"] = Idle
  /\ bkTimer' = FALSE
  /\ SetCurrent("STACK")
  /\ bkLoop' = [bkLoop EXCEPT !["STACK"] = [what |-> "create", todo |-> Todo("create")]]
  /\ UNCHANGED <<bkEeprom, bkResets, bkBootVars, bkNew, bkRequests, bkTold,
                 bkAsker>>

\* The tick task makes up USB's first create request, which is then a message of
\* USB (usb_add_enumerate_connected_request).
BkUsbConnected ==
  /\ BkRunning
  /\ bkRequests < BkMaxRequests
  /\ bkRequests' = bkRequests + 1
  /\ SetCurrent("USB")
  /\ UNCHANGED <<bkEeprom, bkResets, bkBootVars, bkNew, bkTimer, bkLoop,
                 bkTold, bkAsker>>

\* Mutant: every announcement counts as sent.
AcceptedUnseen(accepted) == Identified

\* A bit is cleared only when SEND took the message.
BitsCleared(accepted) == accepted

\* brick_init_handle_bricklet_enumeration; SEND takes some of the messages.
BkAnnounce(accepted) ==
  /\ BkRunning
  /\ bkNew # {} /\ bkCurrent # "NONE"
  /\ accepted \subseteq bkNew \cap Identified
  /\ bkNew' = bkNew \ BitsCleared(accepted)
  /\ bkTold' = [p \in BkPorts |-> IF p \in accepted THEN bkCurrent ELSE bkTold[p]]
  /\ UNCHANGED <<bkEeprom, bkResets, bkBootVars, bkCurrent, bkTimer,
                 bkLoop, bkRequests, bkAsker, bkOvertaken>>

\* What writing one page of a plugin can make of it.
Rewritten(plugin) == IF plugin = "torn" THEN {"v1", "v2", "torn"} ELSE {"torn"}

\* write_bricklet_plugin and write_bricklet_uid: an error of the EEPROM is not
\* reported, the PC gets the same answer, whose way is left out.
BkWrite(p) ==
  /\ BkRunning
  /\ bkRequests < BkMaxRequests
  /\ bkRequests' = bkRequests + 1
  /\ \E c \in BkComs : bkLoop[c] = Idle /\ SetCurrent(c)
  /\ \/ \E plugin \in Rewritten(bkEeprom[p].plugin) :
          bkEeprom' = [bkEeprom EXCEPT ![p].plugin = plugin]
     \/ \E uid \in {0, p} : bkEeprom' = [bkEeprom EXCEPT ![p].uid = uid]
     \/ UNCHANGED bkEeprom
  /\ UNCHANGED <<bkResets, bkBootVars, bkNew, bkTimer, bkLoop, bkTold, bkAsker>>

\* reset, or the supply fails, at any time.
BkReset ==
  /\ bkResets < BkMaxResets
  /\ bkResets' = bkResets + 1
  /\ bkProbe' = 1
  /\ bkAttached' = [p \in BkPorts |-> "none"]
  /\ bkUid' = [p \in BkPorts |-> 0]
  /\ bkCurrent' = "NONE"
  /\ bkNew' = {}
  /\ bkTimer' = FALSE
  /\ bkLoop' = [c \in BkComs |-> Idle]
  /\ bkTold' = NobodyTold /\ bkAsker' = "NONE" /\ bkOvertaken' = FALSE
  /\ UNCHANGED <<bkEeprom, bkRequests>>

BkNext ==
  \/ \E p \in BkPorts : BkTryConnection(p) \/ BkWrite(p)
  \/ \E c \in BkComs, what \in Handlers : BkRoute(c, what)
  \/ \E c \in BkComs : BkSent(c) \/ BkHandled(c)
  \/ BkTimerElapsed \/ BkUsbConnected
  \/ \E accepted \in SUBSET BkPorts : BkAnnounce(accepted)
  \/ BkReset

\* A blocking send ends, at the latest with its timeout; the tick task runs
\* every millisecond and the com takes one of the messages in the end.
BkFairness ==
  /\ \A c \in BkComs : WF_bkVars(BkSent(c)) /\ WF_bkVars(BkHandled(c))
  /\ WF_bkVars(\E accepted \in SUBSET BkPorts : BkAnnounce(accepted) /\ bkNew' # bkNew)

BkSpec == BkInit /\ [][BkNext]_bkVars /\ BkFairness

-----------------------------------------------------------------------------
(* Properties.                                                             *)

BkTypeOK ==
  /\ bkEeprom \in [BkPorts -> [uid : 0..BkPortCount, plugin : BkPlugins]]
  /\ bkProbe \in 1..BkPortCount + 1
  /\ bkAttached \in [BkPorts -> {"none", "v1", "v2", "comcu"}]
  /\ bkUid \in [BkPorts -> 0..BkPortCount]
  /\ bkCurrent \in {"NONE"} \cup BkComs
  /\ bkNew \subseteq BkPorts
  /\ bkTimer \in BOOLEAN
  /\ \A c \in BkComs : bkLoop[c].what \in {"idle"} \cup Handlers
  /\ bkTold \in [BkPorts -> {"NONE"} \cup BkComs]
  /\ bkAsker \in {"NONE"} \cup BkComs
  /\ bkOvertaken \in BOOLEAN

\* The Bricklets are announced to the com that asked for them: the messages that
\* the loop of another com took while the handler was blocked in its send do not
\* count, only one that comes between the end of the handler and the announcement
\* (create_enumerate_connected, com_route_message_brick,
\* brick_init_handle_bricklet_enumeration).
AnnouncedToAsker ==
  \A p \in BkPorts : bkTold[p] \in {"NONE", bkAsker} \/ bkOvertaken

\* Not so: no message changes whom the Bricklets are announced to.
NeverOvertaken == \A p \in BkPorts : bkTold[p] \in {"NONE", bkAsker}

\* A request to announce the Bricklets is not lost between the message loop,
\* the mask of ports and the tick task: every Bricklet with a running plugin is
\* announced after the handler of the request, however often the com refuses,
\* unless the Brick is reset meanwhile (create_enumerate_connected,
\* brick_init_handle_bricklet_enumeration).
EveryBrickletAnnounced ==
  (\E c \in BkComs : bkLoop[c].what = "create")
    ~> \/ /\ \A c \in BkComs : bkLoop[c].what # "create"
          /\ \A p \in Identified : bkTold[p] # "NONE"
       \/ ~BkRunning
=============================================================================
