------------------------- MODULE MCDesktopLifecycle -------------------------
(* DesktopLifecycle with the bridge, or the bridge and a command.            *)
EXTENDS DesktopLifecycle

CONSTANTS bridge, invoke

=============================================================================
