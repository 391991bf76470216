--------------------------- MODULE MC_BackupPolicy ---------------------------
(* Backup types, modes and times are model values: the helpers only ever  *)
(* compare them for equality.                                              *)
EXTENDS BackupPolicy

MCNDays == 2
MCSecs == {0, 30}
=============================================================================
