---------------------------- MODULE MCFlashWriters ----------------------------
(***************************************************************************)
(* The writers with the bounds of the configuration: two packets of an     *)
(* array or region, one of a Soft-BSL sector (two banks of three sectors   *)
(* already are six packets), two transmissions of each, two rates, and at  *)
(* most one sector left torn by earlier operations when a Soft-BSL write   *)
(* or a hardware recovery of one region starts.  The EEPROM images differ  *)
(* in one byte of the record and in its check.  A read asks for two blocks.*)
(***************************************************************************)
EXTENDS FlashWriters

MCImages == { <<0, 0, 1, 0, 0>>, <<1, 0, 2, 0, 0>> }
===============================================================================
