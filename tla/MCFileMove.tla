----------------------------- MODULE MCFileMove -----------------------------
(* FileMove on small instances: settings are 0 (none), 1 and 2.             *)
EXTENDS FileMove
=============================================================================
