--------------------------- MODULE MCDesktopShell ---------------------------
(* DesktopShell on small instances.                                          *)
EXTENDS DesktopShell
=============================================================================
