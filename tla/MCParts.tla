------------------------------- MODULE MCParts -------------------------------
(***************************************************************************)
(* Seven parts that do not interact, each small enough to be explored      *)
(* whole and all in one run: part is the one whose steps are taken, the    *)
(* others stay as they are.                                                *)
(***************************************************************************)
EXTENDS SpiStack, MCCoMcuFrame, RingBuffer, SpiLegacy, Twid, XmcFlash, Bricklets

VARIABLE part

PartsVars ==
  <<part, vars, frVars, rbVars, lgVars, twVars, xcVars, bkVars>>

\* One initial state of the parts that are not taken.  Every port has a Bricklet
\* with a plugin of version 2, whose EEPROM need not always answer.
PartsInit ==
  /\ part \in {"spi", "frames", "ring", "legacy", "twi", "xmc", "bricklets"}
  /\ Init
  /\ FrInit
  /\ part # "frames" => frLook = FrUniform(0)
  /\ RbInit
  /\ part # "ring" => /\ buffer = [i \in Slots |-> CHOOSE b \in Byte : TRUE]
                      /\ ok /\ data = buffer[0]
  /\ LgInit
  /\ TwInit
  /\ XcInit
  /\ BkInit
  /\ \A p \in BkPorts : bkEeprom[p].plugin = "v2"

PartsNext ==
  \/ /\ part = "spi" /\ Next
     /\ UNCHANGED <<part, frVars, rbVars, lgVars, twVars, xcVars, bkVars>>
  \/ /\ part = "frames" /\ FrNext
     /\ UNCHANGED <<part, vars, rbVars, lgVars, twVars, xcVars, bkVars>>
  \/ /\ part = "ring" /\ RbNext
     /\ UNCHANGED <<part, vars, frVars, lgVars, twVars, xcVars, bkVars>>
  \/ /\ part = "legacy" /\ LgNext
     /\ UNCHANGED <<part, vars, frVars, rbVars, twVars, xcVars, bkVars>>
  \/ /\ part = "twi" /\ TwNext
     /\ UNCHANGED <<part, vars, frVars, rbVars, lgVars, xcVars, bkVars>>
  \/ /\ part = "xmc" /\ XcNext
     /\ UNCHANGED <<part, vars, frVars, rbVars, lgVars, twVars, bkVars>>
  \/ /\ part = "bricklets" /\ BkNext
     /\ UNCHANGED <<part, vars, frVars, rbVars, lgVars, twVars, xcVars>>

\* Fairness, FrFairness and BkFairness, each in the behaviours of its part.
PartsFairness ==
  /\ WF_frVars(part = "frames" /\ FrNext)
  /\ WF_vars(part = "spi" /\ MasterTask)
  /\ WF_vars(/\ part = "spi"
             /\ \E toSlave, toMaster \in BOOLEAN : Transfer(toSlave, toMaster))
  /\ \A s \in Slaves : /\ WF_vars(part = "spi" /\ SlaveIrq(s))
                       /\ WF_vars(part = "spi" /\ SlaveTask(s))
                       /\ SF_vars(part = "spi" /\ GoodTransfer(s))
  /\ \A c \in BkComs : /\ WF_bkVars(part = "bricklets" /\ BkSent(c))
                      /\ WF_bkVars(part = "bricklets" /\ BkHandled(c))
  /\ WF_bkVars(/\ part = "bricklets"
               /\ \E accepted \in SUBSET BkPorts :
                    BkAnnounce(accepted) /\ bkNew' # bkNew)

PartsSpec == PartsInit /\ [][PartsNext]_PartsVars /\ PartsFairness

\* The type invariants of the parts, on whose ranges their other invariants rest;
\* that of the stack is checked by the run spi_one.
PartsTypeOK ==
  /\ part = "frames" => FrTypeOK
  /\ part = "ring" => RbTypeOK
  /\ part = "legacy" => LgTypeOK
  /\ part = "twi" => TwTypeOK
  /\ part = "xmc" => XcTypeOK
  /\ part = "bricklets" => BkTypeOK

=============================================================================
