------------------------------ MODULE XmcFlash ------------------------------
(***************************************************************************)
(* bricklet/bricklet_xmc.c: a PC gives the Brick a bootstrapper and a      *)
(* bootloader for the micro controller of a new co-processor Bricklet, in  *)
(* chunks, and the Brick writes both through two pins of port D, which the *)
(* CoMCU protocol uses otherwise.                                          *)
(*                                                                         *)
(* The unit is a chunk of BRICKLET_XMC_CHUNK_SIZE bytes; a length is       *)
(* rounded up to it.  No call gives up the processor, so each is one       *)
(* action.  The two UARTs, of which parameter2 of every call chooses one   *)
(* for the bootstrapper, carry the same bytes and are not told apart.      *)
(***************************************************************************)
EXTENDS Integers, Sequences

CONSTANTS
  XcMaxStrap,   \* BRICKLET_XMC_BOOTSTRAPPER_MAX_SIZE
  XcMaxLoad,    \* BRICKLET_XMC_BOOTLOADER_MAX_SIZE
  XcChunks      \* contents of a chunk, 0 being what the memory held before

ASSUME XmcAssumption ==
  /\ XcMaxStrap \in Nat \ {0} /\ XcMaxLoad \in Nat \ {0}
  /\ 0 \in XcChunks

Strap == 0   \* bricklet_xmc_bootstrapper
Load == 1    \* bricklet_xmc_bootloader
Images == {Strap, Load}

XcMax(type) == IF type = Strap THEN XcMaxStrap ELSE XcMaxLoad

VARIABLES
  xcBuffer,    \* the buffer of each image
  xcRecv,      \* bricklet_xmc_bootstrapper_address_recv, .._bootloader_..
  xcLength,    \* bricklet_xmc_bootstrapper_length, .._bootloader_..
  xcType,      \* bricklet_xmc_current_boot_type
  xcTick,      \* bricklet_xmc_do_comcu_tick
  xcPins,      \* port D: as "before", all "input", or an output is "driven"
  xcRet,       \* what the last call returned
  xcChip,      \* what the last call wrote to the Bricklet, images in Images
  xcSession,   \* history: chunks taken for an image since its write started
  xcLongest    \* history: most chunks a write of the bootloader has had

xcVars == <<xcBuffer, xcRecv, xcLength, xcType, xcTick, xcPins, xcRet, xcChip,
            xcSession, xcLongest>>

NotFlashed == [type \in Images |-> <<>>]

XcInit ==
  /\ xcBuffer = [type \in Images |-> [i \in 1..XcMax(type) |-> 0]]
  /\ xcRecv = [type \in Images |-> 0]
  /\ xcLength = [type \in Images |-> XcMax(type)]
  /\ xcType = Strap
  /\ xcTick = TRUE
  /\ xcPins = "before"
  /\ xcRet = 0
  /\ xcChip = NotFlashed
  /\ xcSession = [type \in Images |-> <<>>]
  /\ xcLongest = 0

\* Mutant: a new write continues where the last one stopped.
ContinuedAt(recv) == recv

\* A write starts at the beginning of the buffer.
StartedAt(recv) == 0

\* bricklet_xmc_flash_config 0 and 1.
StartWrite(type, length) ==
  /\ xcRecv' = [xcRecv EXCEPT ![type] = StartedAt(@)]
  /\ xcLength' = [xcLength EXCEPT ![type] = length]
  /\ xcType' = type
  /\ xcTick' = FALSE
  /\ xcPins' = "input"
  /\ xcRet' = 0
  /\ xcChip' = NotFlashed
  /\ xcSession' = [xcSession EXCEPT ![type] = <<>>]
  /\ UNCHANGED <<xcBuffer, xcLongest>>

\* Mutant: only the bootstrapper has to be there.
OnlyStrapMissing(recv, length) == {type \in {Strap} : recv[type] < length[type]}

\* The images that are not complete.
Missing(recv, length) == {type \in Images : recv[type] < length[type]}

\* The chunks of the bootstrapper that are written: its length, but its first
\* byte also if that is 0.
StrapWritten(length) == IF length = 0 THEN 1 ELSE length

\* bricklet_xmc_flash_config 2: an error (2 and 3) if an image is not complete,
\* an error in one of the steps of write_bootstrapper (4, 5, 6) or
\* write_bootloader (7, a wrong checksum), or success.  The bootstrapper goes
\* with its length, the bootloader always with the whole buffer, and so with what
\* an older and longer one has left there.
Flash ==
  /\ LET missing == Missing(xcRecv, xcLength)
     IN IF missing # {}
        THEN /\ xcRet' = IF Strap \in missing THEN 2 ELSE 3
             /\ xcChip' = NotFlashed
        ELSE /\ xcRet' \in {0, 4, 5, 6, 7}
             /\ xcChip' = IF xcRet' = 0
                          THEN [type \in Images |->
                                 IF type = Strap
                                 THEN SubSeq(xcBuffer[Strap], 1,
                                             StrapWritten(xcLength[Strap]))
                                 ELSE xcBuffer[Load]]
                          ELSE NotFlashed
  /\ xcPins' = IF xcRet' = 0 THEN "driven" ELSE "input"
  /\ UNCHANGED <<xcBuffer, xcRecv, xcLength, xcType, xcTick, xcSession, xcLongest>>

\* bricklet_xmc_flash_config with anything else.
UnknownConfig ==
  /\ xcRet' = 1
  /\ xcPins' = "input"
  /\ xcChip' = NotFlashed
  /\ UNCHANGED <<xcBuffer, xcRecv, xcLength, xcType, xcTick, xcSession, xcLongest>>

\* bricklet_xmc_flash_data: the chunk goes into the buffer of the image whose
\* write started last, at first the bootstrapper's.
FlashData(chunk) ==
  /\ IF xcRecv[xcType] + 1 > XcMax(xcType)
     THEN /\ xcRet' = IF xcType = Strap THEN 1 ELSE 2
          /\ UNCHANGED <<xcBuffer, xcRecv, xcSession, xcLongest>>
     ELSE /\ xcBuffer' = [xcBuffer EXCEPT ![xcType][xcRecv[xcType] + 1] = chunk]
          /\ xcRecv' = [xcRecv EXCEPT ![xcType] = @ + 1]
          /\ xcSession' = [xcSession EXCEPT ![xcType] = Append(@, chunk)]
          /\ xcLongest' = IF Len(xcSession'[Load]) > xcLongest
                          THEN Len(xcSession'[Load]) ELSE xcLongest
          /\ xcRet' = 0
  /\ xcChip' = NotFlashed
  /\ UNCHANGED <<xcLength, xcType, xcTick, xcPins>>

\* A length may be more than the buffer holds.
XcNext ==
  \/ \E type \in Images : \E length \in 0..XcMax(type) + 1 : StartWrite(type, length)
  \/ Flash
  \/ UnknownConfig
  \/ \E chunk \in XcChunks \ {0} : FlashData(chunk)

XcSpec == XcInit /\ [][XcNext]_xcVars

-----------------------------------------------------------------------------
(* Properties.                                                             *)

XcTypeOK ==
  /\ \A type \in Images :
       /\ xcBuffer[type] \in [1..XcMax(type) -> XcChunks]
       /\ xcRecv[type] \in 0..XcMax(type)
       /\ xcLength[type] \in 0..XcMax(type) + 1
       /\ \A i \in 1..Len(xcSession[type]) : xcSession[type][i] \in XcChunks
  /\ xcType \in Images
  /\ xcTick \in BOOLEAN
  /\ xcPins \in {"before", "input", "driven"}
  /\ xcRet \in 0..7
  /\ xcLongest \in 0..XcMaxLoad

\* When flashing succeeds, whatever the order of the calls was, both images are
\* as long as was announced; the bootstrapper on the Bricklet is the one sent
\* since its write was started last and nothing else; and so is the bootloader,
\* as far as chunks of it were sent.  What follows it is never more than an older
\* write has left there: behind the longest one it is what the memory held
\* (bricklet_xmc_flash_config, bricklet_xmc_flash_data).
FlashedAsSent ==
  xcChip # NotFlashed =>
    /\ \A type \in Images : xcLength[type] <= Len(xcSession[type])
    /\ xcLength[Strap] # 0 =>
         xcChip[Strap] = SubSeq(xcSession[Strap], 1, xcLength[Strap])
    /\ \A i \in 1..XcMaxLoad :
         /\ i <= Len(xcSession[Load]) => xcChip[Load][i] = xcSession[Load][i]
         /\ i > xcLongest => xcChip[Load][i] = 0

\* Not so: nothing of an older bootloader reaches the Bricklet behind a shorter
\* one (bricklet_xmc_write_bootloader sends the whole buffer).
NothingOlder ==
  xcChip # NotFlashed =>
    \A i \in 1..XcMaxLoad : i > Len(xcSession[Load]) => xcChip[Load][i] = 0

\* No order of calls lets the flasher drive a pin of port D while the tick of
\* the CoMCU protocol may still talk there (bricklet_xmc_do_comcu_tick).
DrivenAlone == xcPins = "driven" => ~xcTick
=============================================================================
