--------------------------- MODULE MCServersPool ---------------------------
(* Model checking of ServersPool: PowerOFFDC powers two of four servers off *)
(* and pools the two others, and booting takes half of the seven seconds.   *)
EXTENDS ServersPool

=============================================================================
