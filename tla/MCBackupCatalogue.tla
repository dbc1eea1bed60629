------------------------- MODULE MCBackupCatalogue -------------------------
(* BackupCatalogue for TLC: contents of images are interchangeable, and so  *)
(* are the names.                                                           *)
EXTENDS BackupCatalogue, TLC

Alike == Permutations(Contents) \cup Permutations(Names)
=============================================================================
