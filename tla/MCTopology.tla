----------------------------- MODULE MCTopology -----------------------------
(* Model checking of Topology: up to six chassis, of one or two servers, as *)
(* in the range of the usage text, or of three or five, which the program   *)
(* accepts as well.                                                         *)
EXTENDS Topology

MCSizes == ((1..6) \X (1..3)) \cup {<<1, 5>>}

=============================================================================
