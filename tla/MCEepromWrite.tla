---------------------------- MODULE MCEepromWrite -----------------------------
(***************************************************************************)
(* The EEPROM writers alone, with two images that differ in the payload,   *)
(* the check (both its bytes) and nothing else.                            *)
(***************************************************************************)
EXTENDS EepromWrite

MCImages == { <<0, 0, 1, 0, 0>>, <<1, 2, 1, 1, 0>> }
===============================================================================
