--------------------------- MODULE MCEditCommands ---------------------------
(* EditCommands on small instances.                                          *)
EXTENDS EditCommands
=============================================================================
