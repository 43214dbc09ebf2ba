-------------------------------- MODULE W25Q64 --------------------------------
(***************************************************************************)
(* The W25Q64 NOR flash as its driver, Periph/Src/w25q64.c, presents it to *)
(* the stores above it: what one driver call may report and what it may    *)
(* leave in a sector.                                                      *)
(*                                                                         *)
(* A sector (or a slot of one) is Blank after an erase, holds an image     *)
(* after a complete program, and is Torn when an erase or a program was    *)
(* interrupted or when new bits were programmed over old ones.  A Torn     *)
(* sector never passes the CRC, magic or inverse-magic test of its reader. *)
(*                                                                         *)
(* Every call waits for the chip at its end (w25q64_WaitReady).  If that   *)
(* wait itself fails, the call returns an error while the chip is still    *)
(* working: the chip is left "busy".  A busy chip ignores every command    *)
(* but the status poll, and SPI has no acknowledgement, so the next call   *)
(* sends its command in vain, waits until the older operation is over and  *)
(* returns OK.                                                             *)
(***************************************************************************)
EXTENDS Naturals

CONSTANTS Blank, Torn

ASSUME SectorStates == Blank # Torn

(* NOR programming only clears bits: on anything but a blank cell or the   *)
(* very same bits the result is neither the old image nor the new one.     *)
Programmed(old, image) == IF old \in {Blank, image} THEN image ELSE Torn

Result(status, content, chip) ==
  [status |-> status, content |-> content, chip |-> chip]

Statuses == {"ok", "error"}
ChipStates == {"ready", "busy"}

(* W25Q64_EraseSector: write enable, erase command, wait.                  *)
EraseSector(old, chip) ==
  IF chip = "busy"
  THEN {Result("ok", old, "ready"),       \* ignored, older operation over
        Result("error", old, "busy")}     \* ignored, a poll failed
  ELSE {Result("ok", Blank, "ready"),
        Result("error", old, "ready"),    \* a transfer failed before the erase
        Result("error", Torn, "busy"),    \* the erase runs on after a failed poll
        Result("error", Blank, "busy")}

(* W25Q64_Program: page by page, each page enabled, sent and waited for.   *)
(* An image that fills several pages loses only the first to a busy chip,  *)
(* which is waited for before the second is sent.                          *)
Program(old, image, chip) ==
  IF chip = "busy"
  THEN {Result("ok", old, "ready"), Result("ok", Torn, "ready")}
       \cup {Result("error", c, after) : c \in {old, Torn}, after \in ChipStates}
  ELSE {Result("ok", Programmed(old, image), "ready")}
       \cup {Result("error", c, after) :
               c \in {old, Torn, Programmed(old, image)}, after \in ChipStates}

(* W25Q64_Read: one transfer without a wait.  A busy chip leaves the data  *)
(* line floating; the driver returns OK with bytes no reader accepts.      *)
Read(content, chip) ==
  {Result("error", Torn, chip),
   Result("ok", IF chip = "busy" THEN Torn ELSE content, chip)}

(* What a power cut during an erase or a program may leave behind.         *)
EraseCut(old) == {old, Torn, Blank}
ProgramCut(old, image) == {old, Torn, Programmed(old, image)}
===============================================================================
